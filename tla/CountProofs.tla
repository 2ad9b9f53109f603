----------------------------- MODULE CountProofs -----------------------------
(***************************************************************************)
(* What is counted is counted once: the tokens that MetricsService puts in *)
(* rates and records, for all slots, tasks and polls, and the memory that  *)
(* a plan is promised, for all cards, presets and footprints.  The verdict *)
(* on a plan is right for models, presets and machines of every size.      *)
(***************************************************************************)
EXTENDS Counts, FitCheck, FiniteSetTheorems, TLAPS

-----------------------------------------------------------------------------
(* Sums over finite sets, without induction: the least counterexample of a *)
(* set of counterexamples takes its place.                                 *)

Sum(g, S) == SumFunctionOnSet(g, S)

\* The element that a sum adds first, and what a sum is, one subset after another.
First(s) == CHOOSE x \in s : TRUE
IsSum(it, g, S) ==
    it = [s \in SUBSET S |-> IF s = {} THEN 0 ELSE g[First(s)] + it[s \ {First(s)}]]

\* Every set of numbers that is not empty has a least one.
LEMMA LeastNumber ==
    ASSUME NEW T \in SUBSET Nat, T # {}
    PROVE  \E x \in T : \A y \in T : x <= y
<1>. DEFINE R == OpToRel(<, Nat)
<1>1. IsWellFoundedOn(R, Nat) BY NatLessThanWellFounded
<1>2. \A x, y \in Nat : <<y, x>> \in R <=> y < x BY DEF OpToRel
<1>. HIDE DEF R
<1>3. PICK x \in T : \A y \in T : <<y, x>> \notin R BY <1>1, WFMin
<1>4. ASSUME NEW y \in T PROVE x <= y
    <2>1. x \in Nat /\ y \in Nat OBVIOUS
    <2>2. ~(y < x) BY <1>2, <1>3, <2>1
    <2>. QED BY <2>1, <2>2
<1>. QED BY <1>4

\* Of some subsets of a finite set one has no smaller one among them.
LEMMA LeastSet ==
    ASSUME NEW S, IsFiniteSet(S), NEW Bad \in SUBSET (SUBSET S), Bad # {}
    PROVE  \E T \in Bad : IsFiniteSet(T) /\ \A U \in SUBSET T : U # T => U \notin Bad
<1>. DEFINE sizes == {Cardinality(T) : T \in Bad}
<1>1. \A T \in Bad : IsFiniteSet(T) BY FS_Subset
<1>2. sizes \in SUBSET Nat /\ sizes # {} BY <1>1, FS_CardinalityType
<1>3. PICK n \in sizes : \A m \in sizes : n <= m BY <1>2, LeastNumber
<1>4. PICK T \in Bad : Cardinality(T) = n BY <1>3
<1>5. ASSUME NEW U \in SUBSET T, U # T, U \in Bad PROVE FALSE
    <2>1. Cardinality(U) < Cardinality(T)
        <3>1. Cardinality(U) \in Nat /\ Cardinality(T) \in Nat /\ Cardinality(U) <= Cardinality(T)
            BY <1>1, <1>5, FS_Subset, FS_CardinalityType
        <3>2. Cardinality(U) # Cardinality(T) BY <1>1, <1>5, FS_Subset
        <3>. QED BY <3>1, <3>2
    <2>2. Cardinality(T) <= Cardinality(U) BY <1>3, <1>4, <1>5
    <2>. QED BY <2>1, <2>2, <1>1, <1>5, FS_CardinalityType
<1>. QED BY <1>1, <1>5

LEMMA FirstIsIn == ASSUME NEW s, s # {} PROVE First(s) \in s
BY DEF First

\* Two sums agree where both are sums.
LEMMA SumsAgree ==
    ASSUME NEW g, NEW S, NEW R, NEW a, NEW b, IsSum(a, g, S), IsSum(b, g, R),
           NEW Q, Q \subseteq S, Q \subseteq R, IsFiniteSet(Q)
    PROVE  a[Q] = b[Q]
<1>. DEFINE Bad == {T \in SUBSET Q : a[T] # b[T]}
<1>. SUFFICES ASSUME Bad # {} PROVE FALSE OBVIOUS
<1>1. PICK T \in Bad : \A U \in SUBSET T : U # T => U \notin Bad
    <2>1. Bad \in SUBSET (SUBSET Q) OBVIOUS
    <2>. HIDE DEF Bad
    <2>. QED BY <2>1, LeastSet
<1>2. T \in SUBSET S /\ T \in SUBSET R OBVIOUS
<1>3. a[T] = IF T = {} THEN 0 ELSE g[First(T)] + a[T \ {First(T)}] BY <1>2 DEF IsSum
<1>4. b[T] = IF T = {} THEN 0 ELSE g[First(T)] + b[T \ {First(T)}] BY <1>2 DEF IsSum
<1>5. T # {} BY <1>3, <1>4
<1>6. a[T \ {First(T)}] = b[T \ {First(T)}] BY <1>1, <1>5, FirstIsIn
<1>. QED BY <1>3, <1>4, <1>5, <1>6

\* Every finite set has a sum.
LEMMA SumsAre ==
    ASSUME NEW g, NEW S, IsFiniteSet(S)
    PROVE  \E it : IsSum(it, g, S)
<1>. DEFINE Has(T) == \E it : IsSum(it, g, T)
            it(T) == CHOOSE i : IsSum(i, g, T)
            Bad == {T \in SUBSET S : ~Has(T)}
<1>. SUFFICES ASSUME Bad # {} PROVE FALSE OBVIOUS
<1>1. PICK T \in Bad : IsFiniteSet(T) /\ \A U \in SUBSET T : U # T => U \notin Bad
    <2>1. Bad \in SUBSET (SUBSET S) OBVIOUS
    <2>. HIDE DEF Bad
    <2>. QED BY <2>1, LeastSet
<1>2. ASSUME NEW U \in SUBSET T, U # T PROVE IsSum(it(U), g, U)
    <2>1. Has(U) BY <1>1, <1>2
    <2>. QED BY <2>1
<1>. DEFINE sum == [s \in SUBSET T |-> IF s = {} THEN 0 ELSE g[First(s)] + it(s \ {First(s)})[s \ {First(s)}]]
<1>. HIDE DEF it
<1>3. ASSUME NEW U \in SUBSET T, U # T PROVE sum[U] = it(U)[U]
    <2>1. IsSum(it(U), g, U) BY <1>2, <1>3
    <2>2. it(U)[U] = IF U = {} THEN 0 ELSE g[First(U)] + it(U)[U \ {First(U)}] BY <2>1 DEF IsSum
    <2>3. CASE U = {} BY <2>2, <2>3
    <2>4. CASE U # {}
        <3>. DEFINE V == U \ {First(U)}
        <3>1. V \in SUBSET T /\ V # T /\ V \subseteq U BY <1>3
        <3>2. IsSum(it(V), g, V) BY <3>1, <1>2
        <3>3. IsFiniteSet(V) BY <3>1, <1>1, FS_Subset
        <3>4. it(U)[V] = it(V)[V] BY <2>1, <3>1, <3>2, <3>3, SumsAgree
        <3>5. sum[U] = g[First(U)] + it(V)[V] BY <1>3, <2>4
        <3>. QED BY <2>2, <2>4, <3>4, <3>5
    <2>. QED BY <2>3, <2>4
<1>4. IsSum(sum, g, T)
    <2>1. ASSUME NEW s \in SUBSET T
          PROVE  sum[s] = IF s = {} THEN 0 ELSE g[First(s)] + sum[s \ {First(s)}]
        <3>1. CASE s = {} BY <3>1
        <3>2. CASE s # {}
            <4>1. s \ {First(s)} \in SUBSET T /\ s \ {First(s)} # T BY <3>2, FirstIsIn
            <4>. QED BY <3>2, <4>1, <1>3
        <3>. QED BY <3>1, <3>2
    <2>. HIDE DEF sum
    <2>2. sum = [s \in SUBSET T |-> sum[s]] BY DEF sum
    <2>. QED BY <2>1, <2>2 DEF IsSum
<1>. QED BY <1>1, <1>4

\* The sum as the operator computes it.
LEMMA SumIsSum ==
    ASSUME NEW g, NEW S, IsFiniteSet(S), NEW it, IsSum(it, g, S)
    PROVE  it[S] = Sum(g, S)
<1>. DEFINE the == CHOOSE i : IsSum(i, g, S)
<1>1. IsSum(the, g, S) BY SumsAre
<1>2. Sum(g, S) = the[S]
    BY DEF Sum, SumFunctionOnSet, FoldFunctionOnSet, MapThenFoldSet, IsSum, First
<1>. QED BY <1>1, <1>2, SumsAgree

LEMMA SumUnfolds ==
    ASSUME NEW g, NEW S, IsFiniteSet(S)
    PROVE  Sum(g, S) = IF S = {} THEN 0 ELSE g[First(S)] + Sum(g, S \ {First(S)})
<1>1. PICK it : IsSum(it, g, S) BY SumsAre
<1>2. it[S] = IF S = {} THEN 0 ELSE g[First(S)] + it[S \ {First(S)}] BY <1>1 DEF IsSum
<1>3. it[S] = Sum(g, S) BY <1>1, SumIsSum
<1>4. S # {} => it[S \ {First(S)}] = Sum(g, S \ {First(S)})
    <2>. DEFINE R == S \ {First(S)}
    <2>1. IsFiniteSet(R) BY FS_Subset
    <2>2. PICK r : IsSum(r, g, R) BY <2>1, SumsAre
    <2>3. r[R] = it[R] BY <1>1, <2>1, <2>2, SumsAgree
    <2>4. r[R] = Sum(g, R) BY <2>1, <2>2, SumIsSum
    <2>. QED BY <2>3, <2>4
<1>. QED BY <1>2, <1>3, <1>4

LEMMA SumOfNone == ASSUME NEW g PROVE Sum(g, {}) = 0
BY SumUnfolds, FS_EmptySet

LEMMA SumInt ==
    ASSUME NEW g, NEW S, IsFiniteSet(S), \A x \in S : g[x] \in Int
    PROVE  Sum(g, S) \in Int
<1>. DEFINE Bad == {T \in SUBSET S : Sum(g, T) \notin Int}
<1>. SUFFICES ASSUME Bad # {} PROVE FALSE OBVIOUS
<1>1. PICK T \in Bad : IsFiniteSet(T) /\ \A U \in SUBSET T : U # T => U \notin Bad
    <2>1. Bad \in SUBSET (SUBSET S) OBVIOUS
    <2>. HIDE DEF Bad
    <2>. QED BY <2>1, LeastSet
<1>2. Sum(g, T) = IF T = {} THEN 0 ELSE g[First(T)] + Sum(g, T \ {First(T)}) BY <1>1, SumUnfolds
<1>3. T # {} BY <1>2
<1>4. First(T) \in T BY <1>3, FirstIsIn
<1>5. Sum(g, T \ {First(T)}) \in Int BY <1>1, <1>4
<1>. QED BY <1>2, <1>3, <1>4, <1>5

\* It does not matter which element is added first.
LEMMA SumWithout ==
    ASSUME NEW g, NEW S, IsFiniteSet(S), \A x \in S : g[x] \in Int, NEW x \in S
    PROVE  Sum(g, S) = g[x] + Sum(g, S \ {x})
<1>. DEFINE Bad == {T \in SUBSET S : \E y \in T : Sum(g, T) # g[y] + Sum(g, T \ {y})}
<1>1. SUFFICES ASSUME Bad # {} PROVE FALSE OBVIOUS
<1>2. PICK T \in Bad : IsFiniteSet(T) /\ \A U \in SUBSET T : U # T => U \notin Bad
    <2>1. Bad \in SUBSET (SUBSET S) OBVIOUS
    <2>. HIDE DEF Bad
    <2>. QED BY <1>1, <2>1, LeastSet
<1>3. PICK y \in T : Sum(g, T) # g[y] + Sum(g, T \ {y}) OBVIOUS
<1>. DEFINE f == First(T)
            R == T \ {f, y}
<1>4. f \in T BY <1>3, FirstIsIn
<1>5. Sum(g, T) = g[f] + Sum(g, T \ {f}) BY <1>2, <1>3, SumUnfolds
<1>. HIDE DEF f
<1>6. f # y BY <1>3, <1>5
<1>7. Sum(g, T \ {f}) = g[y] + Sum(g, R)
    <2>1. T \ {f} \in SUBSET T /\ T \ {f} # T /\ y \in T \ {f} BY <1>4, <1>6
    <2>2. (T \ {f}) \ {y} = R OBVIOUS
    <2>. QED BY <2>1, <2>2, <1>2
<1>8. Sum(g, T \ {y}) = g[f] + Sum(g, R)
    <2>1. T \ {y} \in SUBSET T /\ T \ {y} # T /\ f \in T \ {y} BY <1>4, <1>6
    <2>2. (T \ {y}) \ {f} = R OBVIOUS
    <2>. QED BY <2>1, <2>2, <1>2
<1>9. g[f] \in Int /\ g[y] \in Int BY <1>3, <1>4
<1>10. Sum(g, R) \in Int
    <2>1. IsFiniteSet(R) BY <1>2, FS_Subset
    <2>. QED BY <2>1, SumInt
<1>. HIDE DEF R
<1>. QED BY <1>3, <1>5, <1>7, <1>8, <1>9, <1>10

\* Smaller addends have a smaller sum.
LEMMA SumMonotone ==
    ASSUME NEW g, NEW h, NEW S, IsFiniteSet(S),
           \A x \in S : g[x] \in Int /\ h[x] \in Int /\ g[x] <= h[x]
    PROVE  Sum(g, S) <= Sum(h, S)
<1>. DEFINE Bad == {T \in SUBSET S : ~(Sum(g, T) <= Sum(h, T))}
<1>1. SUFFICES ASSUME Bad # {} PROVE FALSE OBVIOUS
<1>2. PICK T \in Bad : IsFiniteSet(T) /\ \A U \in SUBSET T : U # T => U \notin Bad
    <2>1. Bad \in SUBSET (SUBSET S) OBVIOUS
    <2>. HIDE DEF Bad
    <2>. QED BY <1>1, <2>1, LeastSet
<1>3. T # {} BY SumOfNone
<1>. DEFINE f == First(T)
            R == T \ {f}
<1>4. f \in T BY <1>3, FirstIsIn
<1>5. Sum(g, T) = g[f] + Sum(g, R) /\ Sum(h, T) = h[f] + Sum(h, R) BY <1>2, <1>3, SumUnfolds
<1>. HIDE DEF f
<1>6. Sum(g, R) <= Sum(h, R) BY <1>2, <1>4
<1>7. Sum(g, R) \in Int /\ Sum(h, R) \in Int
    <2>1. IsFiniteSet(R) BY <1>2, FS_Subset
    <2>. QED BY <2>1, SumInt
<1>. HIDE DEF R
<1>8. g[f] \in Int /\ h[f] \in Int /\ g[f] <= h[f] BY <1>4
<1>. QED BY <1>5, <1>6, <1>7, <1>8

LEMMA SumSame ==
    ASSUME NEW g, NEW h, NEW S, IsFiniteSet(S), \A x \in S : g[x] \in Int /\ g[x] = h[x]
    PROVE  Sum(g, S) = Sum(h, S)
<1>1. Sum(g, S) <= Sum(h, S) /\ Sum(h, S) <= Sum(g, S) BY SumMonotone
<1>2. Sum(g, S) \in Int /\ Sum(h, S) \in Int BY SumInt
<1>. QED BY <1>1, <1>2

LEMMA SumOfZeros ==
    ASSUME NEW g, NEW S, IsFiniteSet(S), \A x \in S : g[x] = 0
    PROVE  Sum(g, S) = 0
<1>. DEFINE Bad == {T \in SUBSET S : Sum(g, T) # 0}
<1>1. SUFFICES ASSUME Bad # {} PROVE FALSE OBVIOUS
<1>2. PICK T \in Bad : IsFiniteSet(T) /\ \A U \in SUBSET T : U # T => U \notin Bad
    <2>1. Bad \in SUBSET (SUBSET S) OBVIOUS
    <2>. HIDE DEF Bad
    <2>. QED BY <1>1, <2>1, LeastSet
<1>3. T # {} BY SumOfNone
<1>4. First(T) \in T BY <1>3, FirstIsIn
<1>5. Sum(g, T) = g[First(T)] + Sum(g, T \ {First(T)}) BY <1>2, <1>3, SumUnfolds
<1>6. Sum(g, T \ {First(T)}) = 0 BY <1>2, <1>4
<1>. QED BY <1>4, <1>5, <1>6

\* The sum of numbers is a number, and that of a part of them is not more.
LEMMA SumNat ==
    ASSUME NEW g, NEW S, IsFiniteSet(S), \A x \in S : g[x] \in Nat
    PROVE  Sum(g, S) \in Nat
<1>. DEFINE Bad == {T \in SUBSET S : Sum(g, T) \notin Nat}
<1>1. SUFFICES ASSUME Bad # {} PROVE FALSE OBVIOUS
<1>2. PICK T \in Bad : IsFiniteSet(T) /\ \A U \in SUBSET T : U # T => U \notin Bad
    <2>1. Bad \in SUBSET (SUBSET S) OBVIOUS
    <2>. HIDE DEF Bad
    <2>. QED BY <1>1, <2>1, LeastSet
<1>3. T # {} BY SumOfNone
<1>4. First(T) \in T BY <1>3, FirstIsIn
<1>5. Sum(g, T) = g[First(T)] + Sum(g, T \ {First(T)}) BY <1>2, <1>3, SumUnfolds
<1>6. Sum(g, T \ {First(T)}) \in Nat BY <1>2, <1>4
<1>. QED BY <1>4, <1>5, <1>6

\* The sum over two sets that have no element in common.
LEMMA SumOfUnion ==
    ASSUME NEW g, NEW S, NEW T, IsFiniteSet(S), IsFiniteSet(T), S \intersect T = {},
           \A x \in S \union T : g[x] \in Int
    PROVE  Sum(g, S \union T) = Sum(g, S) + Sum(g, T)
<1>. DEFINE Bad == {U \in SUBSET S : Sum(g, U \union T) # Sum(g, U) + Sum(g, T)}
<1>1. SUFFICES ASSUME Bad # {} PROVE FALSE OBVIOUS
<1>2. PICK U \in Bad : IsFiniteSet(U) /\ \A V \in SUBSET U : V # U => V \notin Bad
    <2>1. Bad \in SUBSET (SUBSET S) OBVIOUS
    <2>. HIDE DEF Bad
    <2>. QED BY <1>1, <2>1, LeastSet
<1>3. Sum(g, T) \in Int BY SumInt
<1>4. U # {}
    <2>1. Sum(g, U \union T) # Sum(g, U) + Sum(g, T) OBVIOUS
    <2>. SUFFICES ASSUME U = {} PROVE FALSE OBVIOUS
    <2>2. U \union T = T OBVIOUS
    <2>3. Sum(g, U) = 0 BY SumOfNone
    <2>4. Sum(g, U \union T) = Sum(g, T) BY <2>2
    <2>. HIDE DEF Bad
    <2>. QED BY <1>3, <2>1, <2>3, <2>4
<1>5. PICK x \in U : TRUE BY <1>4
<1>. DEFINE R == U \ {x}
<1>6. Sum(g, U) = g[x] + Sum(g, R) BY <1>2, SumWithout
<1>7. Sum(g, U \union T) = g[x] + Sum(g, R \union T)
    <2>1. IsFiniteSet(U \union T) BY <1>2, FS_Union
    <2>2. (U \union T) \ {x} = R \union T BY <1>5
    <2>3. \A y \in U \union T : g[y] \in Int OBVIOUS
    <2>4. x \in U \union T BY <1>5
    <2>. HIDE DEF R
    <2>. QED BY <2>1, <2>2, <2>3, <2>4, SumWithout
<1>8. Sum(g, R \union T) = Sum(g, R) + Sum(g, T) BY <1>2, <1>5
<1>9. Sum(g, R) \in Int
    <2>1. IsFiniteSet(R) BY <1>2, FS_Subset
    <2>. QED BY <2>1, SumInt
<1>10. g[x] \in Int BY <1>5
<1>. HIDE DEF R
<1>. QED BY <1>3, <1>6, <1>7, <1>8, <1>9, <1>10

LEMMA SumOfPart ==
    ASSUME NEW g, NEW S, NEW T \in SUBSET S, IsFiniteSet(S), \A x \in S : g[x] \in Nat
    PROVE  Sum(g, T) <= Sum(g, S)
<1>1. IsFiniteSet(T) /\ IsFiniteSet(S \ T) BY FS_Subset
<1>2. Sum(g, T) \in Nat /\ Sum(g, S \ T) \in Nat BY <1>1, SumNat
<1>3. Sum(g, S) = Sum(g, T) + Sum(g, S \ T)
    <2>1. S = T \union (S \ T) /\ T \intersect (S \ T) = {} OBVIOUS
    <2>2. \A x \in T \union (S \ T) : g[x] \in Int OBVIOUS
    <2>. QED BY <1>1, <2>1, <2>2, SumOfUnion
<1>. QED BY <1>2, <1>3

\* Two sums over one set are the sum of the sums.
LEMMA SumOfSums ==
    ASSUME NEW g, NEW h, NEW k, NEW S, IsFiniteSet(S),
           \A x \in S : g[x] \in Int /\ h[x] \in Int /\ k[x] = g[x] + h[x]
    PROVE  Sum(k, S) = Sum(g, S) + Sum(h, S)
<1>. DEFINE Bad == {T \in SUBSET S : Sum(k, T) # Sum(g, T) + Sum(h, T)}
<1>1. SUFFICES ASSUME Bad # {} PROVE FALSE OBVIOUS
<1>2. PICK T \in Bad : IsFiniteSet(T) /\ \A U \in SUBSET T : U # T => U \notin Bad
    <2>1. Bad \in SUBSET (SUBSET S) OBVIOUS
    <2>. HIDE DEF Bad
    <2>. QED BY <1>1, <2>1, LeastSet
<1>3. T # {}
    <2>1. Sum(k, T) # Sum(g, T) + Sum(h, T) OBVIOUS
    <2>2. T = {} => Sum(k, T) = 0 /\ Sum(g, T) = 0 /\ Sum(h, T) = 0 BY SumOfNone
    <2>. QED BY <2>1, <2>2
<1>. DEFINE f == First(T)
            R == T \ {f}
<1>4. f \in T BY <1>3, FirstIsIn
<1>5. /\ Sum(g, T) = g[f] + Sum(g, R) /\ Sum(h, T) = h[f] + Sum(h, R)
      /\ Sum(k, T) = k[f] + Sum(k, R)
    BY <1>2, <1>3, SumUnfolds
<1>. HIDE DEF f
<1>6. Sum(k, R) = Sum(g, R) + Sum(h, R) BY <1>2, <1>4
<1>7. Sum(g, R) \in Int /\ Sum(h, R) \in Int
    <2>1. IsFiniteSet(R) BY <1>2, FS_Subset
    <2>. QED BY <2>1, SumInt
<1>. HIDE DEF R
<1>8. g[f] \in Int /\ h[f] \in Int /\ k[f] = g[f] + h[f] BY <1>4
<1>. QED BY <1>5, <1>6, <1>7, <1>8


-----------------------------------------------------------------------------
(* Sums over the rows of a table *)

Pairs(A, B) == A \X B
Cells(A, c) == A \X {c}

\* The sum of a column of a table, and of the whole of it.
LEMMA SumOfColumn ==
    ASSUME NEW h, NEW k, NEW A, NEW c, IsFiniteSet(A),
           \A r \in Cells(A, c) : h[r] \in Int /\ h[r] = k[r[1]]
    PROVE  IsFiniteSet(Cells(A, c)) /\ Sum(h, Cells(A, c)) = Sum(k, A)
<1>. DEFINE Bad == {T \in SUBSET A : Sum(h, Cells(T, c)) # Sum(k, T)}
<1>1. IsFiniteSet(Cells(A, c)) BY FS_Product, FS_Singleton DEF Pairs, Cells
<1>2. ASSUME Bad # {} PROVE FALSE
    <2>1. PICK T \in Bad : IsFiniteSet(T) /\ \A U \in SUBSET T : U # T => U \notin Bad
        <3>1. Bad \in SUBSET (SUBSET A) OBVIOUS
        <3>. HIDE DEF Bad
        <3>. QED BY <1>2, <3>1, LeastSet
    <2>2. Sum(h, Cells(T, c)) # Sum(k, T) /\ T \subseteq A OBVIOUS
    <2>3. T # {}
        <3>. SUFFICES ASSUME T = {} PROVE FALSE OBVIOUS
        <3>1. Cells(T, c) = {} BY DEF Pairs, Cells
        <3>2. Sum(h, Cells(T, c)) = 0 BY <3>1, SumOfNone
        <3>3. Sum(k, T) = 0 BY SumOfNone
        <3>. QED BY <2>2, <3>2, <3>3
    <2>4. PICK s \in T : TRUE BY <2>3
    <2>. DEFINE R == T \ {s}
    <2>5. PICK r : r = <<s, c>> OBVIOUS
    <2>6. r \in Cells(A, c) /\ r \in Cells(T, c) /\ r[1] = s BY <2>2, <2>4, <2>5 DEF Pairs, Cells
    <2>9. Sum(k, T) = k[s] + Sum(k, R)
        <3>1. \A x \in T : k[x] \in Int
            <4>1. ASSUME NEW x \in T PROVE k[x] \in Int
                <5>1. PICK q : q = <<x, c>> OBVIOUS
                <5>2. q \in Cells(A, c) /\ q[1] = x BY <5>1, <2>2 DEF Pairs, Cells
                <5>. QED BY <5>2
            <4>. QED BY <4>1
        <3>. QED BY <2>1, <2>4, <3>1, SumWithout
    <2>10. Sum(h, Cells(T, c)) = h[r] + Sum(h, Cells(R, c))
        <3>1. PICK X : X = Cells(T, c) OBVIOUS
        <3>2. IsFiniteSet(X) BY <2>1, <3>1, FS_Product, FS_Singleton DEF Pairs, Cells
        <3>3. X \subseteq Cells(A, c) BY <2>2, <3>1 DEF Pairs, Cells
        <3>4. \A x \in X : h[x] \in Int BY <3>3
        <3>5. X \ {r} = Cells(R, c) BY <2>4, <2>5, <3>1 DEF Pairs, Cells
        <3>6. Sum(h, X) = h[r] + Sum(h, X \ {r})
            <4>1. r \in X BY <2>6, <3>1
            <4>. QED BY <4>1, <3>2, <3>4, SumWithout
        <3>. QED BY <3>1, <3>5, <3>6
    <2>7. Sum(h, Cells(R, c)) = Sum(k, R) BY <2>1, <2>4
    <2>8. h[r] = k[s] BY <2>6
    <2>. HIDE DEF R, Bad
    <2>. QED BY <2>2, <2>9, <2>10, <2>7, <2>8
<1>. QED BY <1>1, <1>2

LEMMA SumOfTable ==
    ASSUME NEW h, NEW k, NEW t, NEW A, NEW B, IsFiniteSet(A), IsFiniteSet(B),
           \A r \in Pairs(A, B) : h[r] \in Int /\ h[r] = k[r[2]][r[1]],
           \A c \in B : t[c] = Sum(k[c], A)
    PROVE  IsFiniteSet(Pairs(A, B)) /\ Sum(h, Pairs(A, B)) = Sum(t, B)
<1>. DEFINE Bad == {T \in SUBSET B : Sum(h, Pairs(A, T)) # Sum(t, T)}
<1>1. IsFiniteSet(Pairs(A, B)) BY FS_Product DEF Pairs, Cells
<1>2. \A c \in B : t[c] \in Int
    <2>1. ASSUME NEW c \in B PROVE t[c] \in Int
        <3>1. PICK col : col = k[c] OBVIOUS
        <3>2. ASSUME NEW s \in A PROVE col[s] \in Int
            <4>1. PICK r : r = <<s, c>> OBVIOUS
            <4>2. r \in Pairs(A, B) /\ r[1] = s /\ r[2] = c BY <4>1 DEF Pairs, Cells
            <4>. QED BY <3>1, <4>2
        <3>3. Sum(col, A) \in Int BY <3>2, SumInt
        <3>. QED BY <3>1, <3>3
    <2>. QED BY <2>1
<1>3. ASSUME Bad # {} PROVE FALSE
    <2>1. PICK T \in Bad : IsFiniteSet(T) /\ \A U \in SUBSET T : U # T => U \notin Bad
        <3>1. Bad \in SUBSET (SUBSET B) OBVIOUS
        <3>. HIDE DEF Bad
        <3>. QED BY <1>3, <3>1, LeastSet
    <2>2. Sum(h, Pairs(A, T)) # Sum(t, T) /\ T \subseteq B OBVIOUS
    <2>3. T # {}
        <3>. SUFFICES ASSUME T = {} PROVE FALSE OBVIOUS
        <3>1. Pairs(A, T) = {} BY DEF Pairs, Cells
        <3>2. Sum(h, Pairs(A, T)) = 0 BY <3>1, SumOfNone
        <3>3. Sum(t, T) = 0 BY SumOfNone
        <3>. QED BY <2>2, <3>2, <3>3
    <2>4. PICK c \in T : TRUE BY <2>3
    <2>. DEFINE R == T \ {c}
    <2>5. Sum(t, T) = t[c] + Sum(t, R)
        <3>1. \A x \in T : t[x] \in Int BY <1>2, <2>2
        <3>. QED BY <2>1, <2>4, <3>1, SumWithout
    <2>6. IsFiniteSet(R) BY <2>1, FS_Subset
    <2>7. Sum(h, Pairs(A, T)) = Sum(h, Cells(A, c)) + Sum(h, Pairs(A, R))
        <3>1. PICK X, Y : X = Cells(A, c) /\ Y = Pairs(A, R) OBVIOUS
        <3>2. IsFiniteSet(X) /\ IsFiniteSet(Y) BY <2>6, <3>1, FS_Product, FS_Singleton DEF Pairs, Cells
        <3>3. Pairs(A, T) = X \union Y /\ X \intersect Y = {} BY <2>4, <3>1 DEF Pairs, Cells
        <3>4. X \union Y \subseteq Pairs(A, B) BY <2>2, <2>4, <3>1 DEF Pairs, Cells
        <3>5. \A x \in X \union Y : h[x] \in Int BY <3>4
        <3>6. Sum(h, X \union Y) = Sum(h, X) + Sum(h, Y) BY <3>2, <3>3, <3>5, SumOfUnion
        <3>. QED BY <3>1, <3>3, <3>6
    <2>8. Sum(h, Cells(A, c)) = t[c]
        <3>1. PICK col : col = k[c] OBVIOUS
        <3>2. Cells(A, c) \subseteq Pairs(A, B) /\ \A r \in Cells(A, c) : r[2] = c
            BY <2>2, <2>4 DEF Pairs, Cells
        <3>3. \A r \in Cells(A, c) : h[r] \in Int /\ h[r] = col[r[1]] BY <3>1, <3>2
        <3>4. Sum(h, Cells(A, c)) = Sum(col, A) BY <3>3, SumOfColumn
        <3>. QED BY <2>2, <2>4, <3>1, <3>4
    <2>9. Sum(h, Pairs(A, R)) = Sum(t, R) BY <2>1, <2>4
    <2>. HIDE DEF R, Bad
    <2>. QED BY <2>2, <2>5, <2>7, <2>8, <2>9
<1>. QED BY <1>1, <1>3

-----------------------------------------------------------------------------
(* The metrics: the inductive invariant *)

SlotReads == {NoRead, Failed} \union [is : {"read"}, value : [SlotIds -> SlotState]]
CounterReads == {NoRead, Failed} \union [is : {"read"}, value : Nat]

\* A task that a map of the slots, of now or of a moment ago, shows is at its
\* slot, with no more tokens than it has got.
Shows(slots, home) ==
    \A s \in SlotIds : slots[s].task # NoTaskId =>
        /\ slots[s].task \in 1..Len(tasks)
        /\ home[slots[s].task] = s
        /\ slots[s].n <= tasks[slots[s].task]

\* A task is at the slot that it began on.  A record is of a task at its slot.
AtHome(home) ==
    /\ Shows(work, home)
    /\ poll.slots.is = "read" => Shows(poll.slots.value, home)
    /\ \A j \in activeJobs : j.task \in 1..Len(tasks) /\ home[j.task] = j.slot
    /\ frames # <<>> => \A s \in Busy(frames[1].slots) :
          /\ s \in SlotIds /\ frames[1].slots[s].n \in Nat
          /\ frames[1].slots[s].task \in 1..Len(tasks)
          /\ home[frames[1].slots[s].task] = s

Sound(j) ==
    /\ j.task \in 1..Len(tasks)
    /\ j.baseline <= j.tokens /\ j.tokens <= tasks[j.task]

RecordsSound ==
    /\ \A j \in activeJobs : Sound(j)
    /\ \A i \in DOMAIN recentJobs : Sound(recentJobs[i])
    /\ \A j, k \in activeJobs : j.task = k.task => j = k

\* What the slots showed when they were read, they show no longer or show still.
ReadIsOld ==
    poll.slots.is = "read" =>
        \A j \in activeJobs : work[j.slot].task = j.task => poll.slots.value[j.slot].task = j.task

\* A task with a record in recent_jobs is over, unless it was split.
Over(t) ==
    /\ \A s \in SlotIds : work[s].task # t
    /\ poll.slots.is = "read" => \A s \in SlotIds : poll.slots.value[s].task # t
    /\ \A j \in activeJobs : j.task # t

RecentAreOver ==
    /\ \A i \in DOMAIN recentJobs : Over(recentJobs[i].task) \/ recentJobs[i].task \in split
    /\ \A i, k \in DOMAIN recentJobs : i # k =>
           recentJobs[i].task # recentJobs[k].task \/ recentJobs[i].task \in split

MetricsInv ==
    /\ MetricsTypeOK
    /\ poll \in [slots : SlotReads, prom : CounterReads]
    /\ frames = <<>> \/ frames[1].counter \in Nat
    /\ \A s \in SlotIds : work[s].task # NoTaskId => work[s].n = tasks[work[s].task]
    /\ \E home \in [1..Len(tasks) -> SlotIds] : AtHome(home)
    /\ IsFiniteSet(activeJobs)
    /\ RecordsSound
    /\ ReadIsOld
    /\ RecentAreOver

-----------------------------------------------------------------------------
(* The rates: their inductive invariant *)

\* The tasks that some slots show, and those of the last frame.
Shown(slots) == {slots[s].task : s \in Busy(slots)}
LastShown == IF frames = <<>> THEN {} ELSE Shown(frames[1].slots)

\* The tasks that are over: the counter has their tokens.
EndedTasks == {t \in 1..Len(tasks) : \A s \in SlotIds : work[s].task # t}

\* What a task has been credited with, slots show that were read since.
Covers(slots) == \A s \in Busy(slots) : credited[slots[s].task] <= slots[s].n

CreditsSound ==
    /\ credited \in [TaskIds -> Nat] /\ lapse.credited \in [TaskIds -> Nat]
    /\ \A t \in TaskIds : lapse.credited[t] <= credited[t]
    /\ \A t \in TaskIds : credited[t] <= IF t <= Len(tasks) THEN tasks[t] ELSE 0
    /\ poll.slots.is = "read" => Covers(poll.slots.value)
    /\ frames # <<>> => Covers(frames[1].slots)

\* "before": the tasks in the counter of the last frame; "those": the ones of
\* them that the counter of the last lapse had, or the counter has put in a rate
\* since; the slots have put none of them in a rate since.
CountedApart(before, those) ==
    /\ frames # <<>> => frames[1].counter = Sum(tasks, before)
    /\ lapse.counter \in Nat /\ lapse.counter + counted = Sum(tasks, those)
    /\ \A t \in those : credited[t] = lapse.credited[t]
    /\ \A t \in TaskIds : credited[t] > lapse.credited[t] => t \in before \union LastShown
    /\ poll.slots.is = "read" =>
          /\ Shown(poll.slots.value) \intersect before = {}
          /\ LastShown \subseteq Shown(poll.slots.value) \union EndedTasks

\* "now": the tasks in the counter that was read.
CountersAre(before, now) ==
    /\ before \subseteq now
    /\ poll.prom.value = Sum(tasks, now)
    /\ ~overtaken => /\ poll.slots.is = "pending" => now = EndedTasks
                     /\ poll.slots.is = "read" => LastShown \subseteq Shown(poll.slots.value) \union now

Apart == \E before \in SUBSET EndedTasks : \E those \in SUBSET before :
             /\ CountedApart(before, those)
             /\ poll.prom.is = "read" => \E now \in SUBSET EndedTasks : CountersAre(before, now)

RatesInv ==
    /\ CreditsSound
    /\ total = Sum(tasks, EndedTasks)
    /\ Apart

-----------------------------------------------------------------------------
(* Bounds, reads and sequences *)

LEMMA MetricsBounds ==
    /\ MaxTasks \in Nat /\ MaxTokens \in Nat /\ MaxPolls \in Nat
    /\ RecentMax \in Nat /\ QueueMax \in Nat /\ GraceFrames \in Nat
BY MetricsAssumption

\* A read is pending, failed, or has a value.
LEMMA ReadsAre ==
    ASSUME NEW V, NEW r \in {NoRead, Failed} \union [is : {"read"}, value : V]
    PROVE  /\ r.is \in {"pending", "failed", "read"}
           /\ r.is = "read" => r.value \in V
           /\ r = NoRead <=> r.is = "pending"
           /\ r = Failed <=> r.is = "failed"
<1>1. CASE r = NoRead BY <1>1 DEF NoRead, Failed
<1>2. CASE r = Failed BY <1>2 DEF NoRead, Failed
<1>3. CASE r \in [is : {"read"}, value : V] BY <1>3 DEF NoRead, Failed
<1>. QED BY <1>1, <1>2, <1>3

\* What is kept of a sequence is its end.
LEMMA KeptIsTheEnd ==
    ASSUME NEW S, NEW seq \in Seq(S), NEW max \in Nat
    PROVE  /\ Kept(seq, max) \in Seq(S) /\ Len(Kept(seq, max)) <= max
           /\ \E d \in Nat : /\ d + Len(Kept(seq, max)) = Len(seq)
                             /\ \A i \in DOMAIN Kept(seq, max) : Kept(seq, max)[i] = seq[i + d]
<1>1. CASE Len(seq) <= max
    <2>1. Kept(seq, max) = seq BY <1>1 DEF Kept
    <2>2. \A i \in DOMAIN seq : seq[i] = seq[i + 0] OBVIOUS
    <2>. QED BY <1>1, <2>1, <2>2
<1>2. CASE ~(Len(seq) <= max)
    <2>. DEFINE d == Len(seq) - max
    <2>1. d \in Nat /\ d > 0 /\ d + max = Len(seq) BY <1>2
    <2>2. Kept(seq, max) = SubSeq(seq, d + 1, Len(seq)) BY <1>2 DEF Kept
    <2>. HIDE DEF d
    <2>3. Len(SubSeq(seq, d + 1, Len(seq))) = max BY <2>1
    <2>4. SubSeq(seq, d + 1, Len(seq)) \in Seq(S) BY <2>1
    <2>5. \A i \in 1..max : SubSeq(seq, d + 1, Len(seq))[i] = seq[i + d] BY <2>1
    <2>6. \A i \in DOMAIN Kept(seq, max) : Kept(seq, max)[i] = seq[i + d] BY <2>2, <2>3, <2>4, <2>5
    <2>7. d + Len(Kept(seq, max)) = Len(seq) BY <2>1, <2>2, <2>3
    <2>8. Kept(seq, max) \in Seq(S) /\ Len(Kept(seq, max)) <= max BY <2>2, <2>3, <2>4
    <2>9. \E e \in Nat : /\ e + Len(Kept(seq, max)) = Len(seq)
                       /\ \A i \in DOMAIN Kept(seq, max) : Kept(seq, max)[i] = seq[i + e]
        BY <2>1, <2>6, <2>7
    <2>. QED BY <2>8, <2>9
<1>. QED BY <1>1, <1>2

\* A finite set as a sequence: each element once.
LEMMA SetAsSequence ==
    ASSUME NEW S, IsFiniteSet(S)
    PROVE  /\ SetToSeq(S) \in Seq(S)
           /\ \A i, k \in DOMAIN SetToSeq(S) : i # k => SetToSeq(S)[i] # SetToSeq(S)[k]
<1>. DEFINE n == Cardinality(S)
<1>1. n \in Nat /\ ExistsBijection(1..n, S) BY FS_CardinalityType
<1>2. PICK f \in Bijection(1..n, S) : TRUE BY <1>1 DEF ExistsBijection
<1>3. f \in [1..n -> S] /\ IsInjective(f) BY <1>2 DEF Bijection, Injection, IsInjective
<1>4. SetToSeq(S) \in [1..n -> S] /\ IsInjective(SetToSeq(S)) BY <1>3 DEF SetToSeq
<1>5. SetToSeq(S) \in Seq(S) BY <1>1, <1>4
<1>. QED BY <1>4, <1>5 DEF IsInjective

-----------------------------------------------------------------------------
(* The metrics: the server's steps *)

LEMMA MetricsInitSound == MetricsInit => MetricsInv
<1>. SUFFICES ASSUME MetricsInit PROVE MetricsInv OBVIOUS
<1>. USE MetricsBounds DEF MetricsInit, Failed, NoPoll, NoTaskId, IdleSlot
<1>1. MetricsTypeOK
    <2>1. work \in [SlotIds -> SlotState] BY DEF SlotState, Tokens
    <2>2. tasks \in Seq(Tokens) /\ Len(tasks) <= MaxTasks OBVIOUS
    <2>3. recentJobs \in Seq(JobRecord) /\ Len(recentJobs) <= RecentMax OBVIOUS
    <2>4. overtaken \in BOOLEAN /\ split \subseteq TaskIds OBVIOUS
    <2>5. errors \in 0..GraceFrames /\ inbox \in 0..QueueMax /\ polls \in 0..MaxPolls
        /\ total \in Nat /\ counted \in Nat /\ activeJobs \subseteq JobRecord
        OBVIOUS
    <2>. QED BY <2>1, <2>2, <2>3, <2>4, <2>5 DEF MetricsTypeOK
<1>2. poll \in [slots : SlotReads, prom : CounterReads] BY DEF SlotReads, CounterReads
<1>3. \A s \in SlotIds : work[s].task = NoTaskId OBVIOUS
<1>4. AtHome([t \in 1..Len(tasks) |-> 0]) /\ [t \in 1..Len(tasks) |-> 0] \in [1..Len(tasks) -> SlotIds]
    BY <1>3 DEF AtHome, Shows
<1>5. RecordsSound /\ ReadIsOld /\ RecentAreOver BY DEF RecordsSound, ReadIsOld, RecentAreOver
<1>6. IsFiniteSet(activeJobs) BY FS_EmptySet
<1>. QED BY <1>1, <1>2, <1>3, <1>4, <1>5, <1>6 DEF MetricsInv

\* What the invariant says of the server, whose numbers are the same or more
\* after a step in which no task is lost.
LEMMA ServerTypes ==
    ASSUME MetricsInv
    PROVE  /\ work \in [SlotIds -> SlotState] /\ tasks \in Seq(Tokens)
           /\ Len(tasks) \in Nat /\ Len(tasks) <= MaxTasks
           /\ \A s \in SlotIds : work[s].task \in Nat /\ work[s].n \in Nat
           /\ \A t \in 1..Len(tasks) : tasks[t] \in Nat /\ tasks[t] <= MaxTokens
           /\ poll.slots \in SlotReads /\ poll.prom \in CounterReads
           /\ \A j \in activeJobs : j \in JobRecord
           /\ recentJobs \in Seq(JobRecord)
<1>. USE MetricsBounds
<1>1. work \in [SlotIds -> SlotState] /\ tasks \in Seq(Tokens) /\ Len(tasks) <= MaxTasks
    BY DEF MetricsInv, MetricsTypeOK
<1>2. \A s \in SlotIds : work[s].task \in Nat /\ work[s].n \in Nat
    BY <1>1 DEF SlotState, TaskIds, Tokens, NoTaskId
<1>3. \A t \in 1..Len(tasks) : tasks[t] \in Nat /\ tasks[t] <= MaxTokens BY <1>1 DEF Tokens
<1>. QED BY <1>1, <1>2, <1>3 DEF MetricsInv, MetricsTypeOK

\* A snapshot that was read has the type of the slots.
LEMMA SnapshotType ==
    ASSUME MetricsInv, poll.slots.is = "read"
    PROVE  /\ poll.slots.value \in [SlotIds -> SlotState]
           /\ \A s \in SlotIds : poll.slots.value[s].task \in Nat /\ poll.slots.value[s].n \in Nat
<1>1. poll.slots.value \in [SlotIds -> SlotState] BY ServerTypes, ReadsAre DEF SlotReads
<1>. QED BY <1>1, MetricsBounds DEF SlotState, TaskIds, Tokens, NoTaskId

\* What was sound stays sound when tasks only get more tokens.
LEMMA MoreIsSound ==
    ASSUME MetricsInv,
           Len(tasks) <= Len(tasks'), Len(tasks') \in Nat,
           \A t \in 1..Len(tasks) : tasks'[t] \in Nat /\ tasks[t] <= tasks'[t],
           UNCHANGED <<activeJobs, recentJobs>>
    PROVE  RecordsSound'
<1>1. \A j \in activeJobs : j \in JobRecord BY ServerTypes
<1>2. \A i \in DOMAIN recentJobs : recentJobs[i] \in JobRecord BY ServerTypes
<1>3. ASSUME NEW j \in JobRecord, Sound(j) PROVE Sound(j)'
    <2>1. j.task \in 1..Len(tasks) /\ j.baseline <= j.tokens /\ j.tokens <= tasks[j.task] BY <1>3 DEF Sound
    <2>2. j.tokens \in Nat /\ j.task \in Nat BY <1>3, MetricsBounds DEF JobRecord, Tokens, TaskIds
    <2>3. j.tokens <= tasks'[j.task] BY <2>1, <2>2, ServerTypes
    <2>4. j.task \in 1..Len(tasks') BY <2>1, <2>2, ServerTypes
    <2>. QED BY <2>1, <2>3, <2>4 DEF Sound
<1>. QED BY <1>1, <1>2, <1>3 DEF RecordsSound, MetricsInv

LEMMA TaskBeginsSound == ASSUME MetricsInv, NEW s \in SlotIds, TaskBegins(s) PROVE MetricsInv'
<1>. USE MetricsBounds DEF NoTaskId
<1>. DEFINE t == Len(tasks) + 1
<1>1. work[s].task = 0 /\ Len(tasks) < MaxTasks /\ tasks' = Append(tasks, 0)
    /\ UNCHANGED <<total, clientSide, overtaken>>
    BY DEF TaskBegins
<1>2. UNCHANGED <<poll, polls, frames, errors, activeJobs, recentJobs, inbox, credited, counted, lapse, split>>
    BY <1>1 DEF clientSide, history
<1>3. Len(tasks') = t /\ tasks'[t] = 0 /\ (\A u \in 1..Len(tasks) : tasks'[u] = tasks[u])
    /\ tasks' \in Seq(Tokens)
    BY <1>1, ServerTypes DEF Tokens
<1>4. work' = [work EXCEPT ![s] = [task |-> t, n |-> 0]] BY <1>3 DEF TaskBegins
<1>5. work'[s] = [task |-> t, n |-> 0] /\ (\A u \in SlotIds : u # s => work'[u] = work[u])
    BY <1>4, ServerTypes
<1>6. work' \in [SlotIds -> SlotState]
    <2>1. [task |-> t, n |-> 0] \in SlotState BY <1>1, ServerTypes DEF SlotState, TaskIds, Tokens
    <2>. QED BY <2>1, <1>4, ServerTypes
<1>7. t \in Nat /\ t \notin 1..Len(tasks) /\ 1..Len(tasks') = (1..Len(tasks)) \union {t}
    BY <1>3, ServerTypes
<1>. HIDE DEF t
<1>8. MetricsTypeOK' BY <1>1, <1>2, <1>3, <1>6, ServerTypes DEF MetricsTypeOK, MetricsInv, t
<1>9. \A u \in SlotIds : work'[u].task # NoTaskId => work'[u].n = tasks'[work'[u].task]
    <2>1. ASSUME NEW u \in SlotIds, u # s, work[u].task # 0 PROVE work[u].n = tasks'[work[u].task]
        <3>1. work[u].task \in 1..Len(tasks) /\ work[u].n = tasks[work[u].task]
            BY <2>1 DEF MetricsInv, AtHome, Shows
        <3>. QED BY <3>1, <1>3
    <2>. QED BY <2>1, <1>5, <1>3
<1>10. \E home \in [1..Len(tasks') -> SlotIds] : AtHome(home)'
    <2>1. PICK home \in [1..Len(tasks) -> SlotIds] : AtHome(home) BY DEF MetricsInv
    <2>. DEFINE next == [u \in 1..Len(tasks') |-> IF u = t THEN s ELSE home[u]]
    <2>2. next \in [1..Len(tasks') -> SlotIds] BY <2>1, <1>7
    <2>3. next[t] = s /\ \A u \in 1..Len(tasks) : u \in 1..Len(tasks') /\ next[u] = home[u] BY <1>7
    <2>. HIDE DEF next
    <2>4. Shows(work, home) BY <2>1 DEF AtHome
    <2>5. ASSUME NEW u \in SlotIds, work'[u].task # 0
          PROVE  /\ work'[u].task \in 1..Len(tasks') /\ next[work'[u].task] = u
                 /\ work'[u].n <= tasks'[work'[u].task]
        <3>1. CASE u = s BY <3>1, <1>3, <1>5, <1>7, <2>3
        <3>2. CASE u # s BY <3>2, <2>5, <1>3, <1>5, <2>3, <2>4 DEF Shows
        <3>. QED BY <3>1, <3>2
    <2>6. poll.slots.is = "read" => \A u \in SlotIds : poll.slots.value[u].task # 0 =>
              /\ poll.slots.value[u].task \in 1..Len(tasks') /\ next[poll.slots.value[u].task] = u
              /\ poll.slots.value[u].n <= tasks'[poll.slots.value[u].task]
        BY <2>1, <2>3, <1>3 DEF AtHome, Shows
    <2>7. \A j \in activeJobs : j.task \in 1..Len(tasks') /\ next[j.task] = j.slot
        BY <2>1, <2>3 DEF AtHome
    <2>8. frames # <<>> => \A u \in Busy(frames[1].slots) :
              /\ u \in SlotIds /\ frames[1].slots[u].n \in Nat
              /\ frames[1].slots[u].task \in 1..Len(tasks') /\ next[frames[1].slots[u].task] = u
        BY <2>1, <2>3 DEF AtHome
    <2>. QED BY <2>2, <2>5, <2>6, <2>7, <2>8, <1>2 DEF AtHome, Shows
<1>11. RecordsSound' BY <1>2, <1>3, <1>7, ServerTypes, MoreIsSound
<1>12. ReadIsOld'
    <2>1. \A j \in activeJobs : j.task # t /\ j.slot \in SlotIds
        BY <1>7, ServerTypes DEF MetricsInv, RecordsSound, Sound, JobRecord
    <2>2. \A j \in activeJobs : work'[j.slot].task = j.task => work[j.slot].task = j.task
        BY <2>1, <1>5
    <2>. QED BY <2>2, <1>2 DEF ReadIsOld, MetricsInv
<1>13. RecentAreOver'
    <2>1. RecentAreOver BY DEF MetricsInv
    <2>2. \A i \in DOMAIN recentJobs : recentJobs[i].task # t BY <1>7 DEF MetricsInv, RecordsSound, Sound
    <2>3. ASSUME NEW i \in DOMAIN recentJobs, recentJobs[i].task \notin split PROVE Over(recentJobs[i].task)'
        BY <2>1, <2>2, <2>3, <1>2, <1>5 DEF RecentAreOver, Over
    <2>. QED BY <2>1, <2>3, <1>2 DEF RecentAreOver
<1>. QED BY <1>2, <1>8, <1>9, <1>10, <1>11, <1>12, <1>13 DEF MetricsInv

LEMMA DecodesSound == ASSUME MetricsInv, NEW s \in SlotIds, Decodes(s) PROVE MetricsInv'
<1>. USE MetricsBounds DEF NoTaskId
<1>. DEFINE t == work[s].task
<1>1. t # 0 /\ work[s].n < MaxTokens
    /\ work' = [work EXCEPT ![s].n = @ + 1] /\ tasks' = [tasks EXCEPT ![t] = @ + 1]
    /\ UNCHANGED <<total, clientSide, overtaken>>
    BY DEF Decodes
<1>2. UNCHANGED <<poll, polls, frames, errors, activeJobs, recentJobs, inbox, credited, counted, lapse, split>>
    BY <1>1 DEF clientSide, history
<1>3. PICK home \in [1..Len(tasks) -> SlotIds] : AtHome(home) BY DEF MetricsInv
<1>4. t \in 1..Len(tasks) /\ work[s].n = tasks[t] /\ home[t] = s
    BY <1>1, <1>3 DEF MetricsInv, AtHome, Shows
<1>5. \A u \in SlotIds : work'[u].task = work[u].task /\ (u # s => work'[u] = work[u])
    BY <1>1, ServerTypes DEF SlotState
<1>6. work'[s].n = work[s].n + 1 BY <1>1, ServerTypes DEF SlotState
<1>7. Len(tasks') = Len(tasks) /\ tasks' \in Seq(Tokens)
    /\ tasks'[t] = tasks[t] + 1 /\ (\A u \in 1..Len(tasks) : u # t => tasks'[u] = tasks[u])
    <2>1. tasks[t] + 1 \in Tokens BY <1>1, <1>4, ServerTypes DEF Tokens
    <2>. QED BY <2>1, <1>1, <1>4, ServerTypes
<1>8. work' \in [SlotIds -> SlotState]
    <2>1. work[s].n + 1 \in Tokens BY <1>1, ServerTypes DEF Tokens
    <2>. QED BY <2>1, <1>1, ServerTypes DEF SlotState
<1>. HIDE DEF t
<1>9. MetricsTypeOK' BY <1>1, <1>2, <1>7, <1>8 DEF MetricsTypeOK, MetricsInv
<1>10. ASSUME NEW u \in SlotIds, u # s, work[u].task # 0
       PROVE  work[u].task # t /\ work[u].task \in 1..Len(tasks)
    BY <1>10, <1>3, <1>4 DEF AtHome, Shows
<1>11. \A u \in SlotIds : work'[u].task # NoTaskId => work'[u].n = tasks'[work'[u].task]
    <2>1. ASSUME NEW u \in SlotIds, u # s, work[u].task # 0 PROVE work[u].n = tasks'[work[u].task]
        BY <2>1, <1>7, <1>10 DEF MetricsInv
    <2>2. work'[s].n = tasks'[work'[s].task] BY <1>4, <1>5, <1>6, <1>7 DEF t
    <2>. QED BY <2>1, <2>2, <1>5
<1>12. \A u \in 1..Len(tasks) : tasks'[u] \in Nat /\ tasks[u] <= tasks'[u]
    BY <1>7, ServerTypes
<1>13. AtHome(home)'
    <2>1. ASSUME NEW u \in SlotIds, work'[u].task # 0
          PROVE  /\ work'[u].task \in 1..Len(tasks') /\ home[work'[u].task] = u
                 /\ work'[u].n <= tasks'[work'[u].task]
        <3>1. work'[u].task \in 1..Len(tasks) /\ home[work'[u].task] = u
            BY <2>1, <1>3, <1>5 DEF AtHome, Shows
        <3>2. work'[u].n \in Nat BY <1>8 DEF SlotState, Tokens
        <3>. QED BY <2>1, <3>1, <3>2, <1>7, <1>11
    <2>2. ASSUME poll.slots.is = "read", NEW u \in SlotIds, poll.slots.value[u].task # 0
          PROVE  /\ poll.slots.value[u].task \in 1..Len(tasks') /\ home[poll.slots.value[u].task] = u
                 /\ poll.slots.value[u].n <= tasks'[poll.slots.value[u].task]
        <3>1. /\ poll.slots.value[u].task \in 1..Len(tasks) /\ home[poll.slots.value[u].task] = u
              /\ poll.slots.value[u].n <= tasks[poll.slots.value[u].task]
            BY <2>2, <1>3 DEF AtHome, Shows
        <3>2. poll.slots.value[u].n \in Nat BY <2>2, SnapshotType
        <3>3. \A k \in 1..Len(tasks), n \in Nat : n <= tasks[k] => n <= tasks'[k] BY <1>12, ServerTypes
        <3>. QED BY <3>1, <3>2, <3>3, <1>7
    <2>. QED BY <2>1, <2>2, <1>2, <1>3, <1>7 DEF AtHome, Shows
<1>14. RecordsSound' BY <1>2, <1>7, <1>12, ServerTypes, MoreIsSound
<1>15. ReadIsOld'
    <2>1. \A j \in activeJobs : j.slot \in SlotIds BY ServerTypes DEF JobRecord
    <2>. QED BY <2>1, <1>2, <1>5 DEF ReadIsOld, MetricsInv
<1>16. RecentAreOver' BY <1>1, <1>2, <1>5 DEF RecentAreOver, Over, MetricsInv
<1>. QED BY <1>2, <1>3, <1>7, <1>9, <1>11, <1>13, <1>14, <1>15, <1>16 DEF MetricsInv

LEMMA TaskEndsSound == ASSUME MetricsInv, NEW s \in SlotIds, TaskEnds(s) PROVE MetricsInv'
<1>. USE MetricsBounds DEF NoTaskId
<1>1. work[s].task # 0 /\ work' = [work EXCEPT ![s] = IdleSlot]
    /\ total' = total + work[s].n /\ UNCHANGED <<tasks, clientSide>>
    /\ overtaken' = (overtaken \/ (poll.slots = NoRead /\ poll.prom.is = "read"))
    BY DEF TaskEnds
<1>2. UNCHANGED <<poll, polls, frames, errors, activeJobs, recentJobs, inbox, credited, counted, lapse, split>>
    BY <1>1 DEF clientSide, history
<1>3. \A u \in SlotIds : work'[u] = IF u = s THEN IdleSlot ELSE work[u] BY <1>1, ServerTypes
<1>4. IdleSlot.task = 0 /\ IdleSlot \in SlotState BY DEF IdleSlot, SlotState, Tokens
<1>5. MetricsTypeOK'
    <2>1. work' \in [SlotIds -> SlotState] BY <1>1, <1>4, ServerTypes
    <2>2. total' \in Nat BY <1>1, ServerTypes DEF MetricsInv, MetricsTypeOK
    <2>3. overtaken' \in BOOLEAN BY <1>1 DEF MetricsInv, MetricsTypeOK
    <2>. QED BY <2>1, <2>2, <2>3, <1>1, <1>2 DEF MetricsInv, MetricsTypeOK
<1>6. \A u \in SlotIds : work'[u].task # NoTaskId => work'[u] = work[u] BY <1>3, <1>4
<1>7. PICK home \in [1..Len(tasks) -> SlotIds] : AtHome(home) BY DEF MetricsInv
<1>8. AtHome(home)' BY <1>1, <1>2, <1>6, <1>7 DEF AtHome, Shows
<1>9. RecordsSound' BY <1>1, <1>2 DEF MetricsInv, RecordsSound, Sound
<1>10. ReadIsOld'
    <2>1. \A j \in activeJobs : j.slot \in SlotIds /\ j.task # 0 BY ServerTypes DEF JobRecord, TaskIds
    <2>. QED BY <2>1, <1>2, <1>6 DEF ReadIsOld, MetricsInv
<1>11. RecentAreOver'
    <2>1. RecentAreOver BY DEF MetricsInv
    <2>2. ASSUME NEW i \in DOMAIN recentJobs PROVE recentJobs[i].task # 0
        <3>1. recentJobs[i] \in JobRecord BY ServerTypes
        <3>. QED BY <3>1 DEF JobRecord, TaskIds
    <2>3. ASSUME NEW i \in DOMAIN recentJobs, recentJobs[i].task \notin split PROVE Over(recentJobs[i].task)'
        BY <2>1, <2>2, <2>3, <1>2, <1>3, <1>4 DEF RecentAreOver, Over
    <2>. QED BY <2>1, <2>3, <1>2 DEF RecentAreOver
<1>. QED BY <1>1, <1>2, <1>5, <1>6, <1>7, <1>8, <1>9, <1>10, <1>11 DEF MetricsInv

-----------------------------------------------------------------------------
(* The metrics: the steps of a poll *)

\* A read that answers shows what there is.
LEMMA ReadingSound ==
    ASSUME MetricsInv, MetricsTypeOK', poll' \in [slots : SlotReads, prom : CounterReads],
           UNCHANGED <<serverSide, frames, activeJobs, recentJobs, split>>,
           poll'.slots.is = "read" => poll'.slots = poll.slots \/ poll'.slots.value = work
    PROVE  MetricsInv'
<1>1. UNCHANGED <<work, tasks, frames, activeJobs, recentJobs, split>> BY DEF serverSide
<1>2. PICK home \in [1..Len(tasks) -> SlotIds] : AtHome(home) BY DEF MetricsInv
<1>3. AtHome(home)' BY <1>1, <1>2 DEF AtHome, Shows
<1>4. RecordsSound' BY <1>1 DEF MetricsInv, RecordsSound, Sound
<1>5. ReadIsOld' BY <1>1 DEF MetricsInv, ReadIsOld
<1>6. RecentAreOver' BY <1>1 DEF MetricsInv, RecentAreOver, Over
<1>. QED BY <1>1, <1>2, <1>3, <1>4, <1>5, <1>6 DEF MetricsInv

LEMMA PollBeginsSound == ASSUME MetricsInv, PollBegins PROVE MetricsInv'
<1>1. polls < MaxPolls /\ poll' = [slots |-> NoRead, prom |-> NoRead] /\ polls' = polls + 1
    /\ UNCHANGED <<serverSide, frames, errors, activeJobs, recentJobs, inbox, history, overtaken>>
    BY DEF PollBegins
<1>2. MetricsTypeOK' /\ UNCHANGED split BY <1>1, MetricsBounds DEF MetricsInv, MetricsTypeOK, serverSide, history
<1>3. poll' \in [slots : SlotReads, prom : CounterReads] BY <1>1 DEF SlotReads, CounterReads
<1>4. poll'.slots.is # "read" BY <1>1 DEF NoRead
<1>. QED BY <1>1, <1>2, <1>3, <1>4, ReadingSound

LEMMA SlotsReadSound == ASSUME MetricsInv, NEW ok \in BOOLEAN, SlotsRead(ok) PROVE MetricsInv'
<1>. DEFINE r == IF ok THEN [is |-> "read", value |-> work] ELSE Failed
<1>1. poll' = [poll EXCEPT !.slots = r]
    /\ UNCHANGED <<serverSide, polls, frames, errors, activeJobs, recentJobs, inbox, history, overtaken>>
    BY DEF SlotsRead
<1>2. MetricsTypeOK' /\ UNCHANGED split BY <1>1 DEF MetricsInv, MetricsTypeOK, serverSide, history
<1>3. r \in SlotReads BY ServerTypes DEF SlotReads
<1>4. r.is = "read" => r.value = work BY DEF Failed
<1>. HIDE DEF r
<1>5. poll'.slots = r /\ poll' \in [slots : SlotReads, prom : CounterReads]
    BY <1>1, <1>3 DEF MetricsInv
<1>. QED BY <1>1, <1>2, <1>4, <1>5, ReadingSound

LEMMA CountersReadSound == ASSUME MetricsInv, NEW ok \in BOOLEAN, CountersRead(ok) PROVE MetricsInv'
<1>. DEFINE r == IF ok THEN [is |-> "read", value |-> total] ELSE Failed
<1>1. poll' = [poll EXCEPT !.prom = r]
    /\ UNCHANGED <<serverSide, polls, frames, errors, activeJobs, recentJobs, inbox, history, overtaken>>
    BY DEF CountersRead
<1>2. MetricsTypeOK' /\ UNCHANGED split BY <1>1 DEF MetricsInv, MetricsTypeOK, serverSide, history
<1>3. r \in CounterReads BY DEF CounterReads, MetricsInv, MetricsTypeOK
<1>. HIDE DEF r
<1>4. poll'.slots = poll.slots /\ poll' \in [slots : SlotReads, prom : CounterReads]
    BY <1>1, <1>3 DEF MetricsInv
<1>. QED BY <1>1, <1>2, <1>4, ReadingSound

LEMMA FrameTakenSound == ASSUME MetricsInv, FrameTaken PROVE MetricsInv'
<1>1. inbox > 0 /\ inbox' = inbox - 1
    /\ UNCHANGED <<serverSide, poll, polls, frames, errors, activeJobs, recentJobs, history, overtaken>>
    BY DEF FrameTaken
<1>2. MetricsTypeOK' /\ UNCHANGED split BY <1>1, MetricsBounds DEF MetricsInv, MetricsTypeOK, serverSide, history
<1>. QED BY <1>1, <1>2, ReadingSound DEF MetricsInv

-----------------------------------------------------------------------------
(* The metrics: a frame *)

\* What a frame's slots show: those of the read, or none.
LEMMA FrameShows ==
    ASSUME MetricsInv, NEW home \in [1..Len(tasks) -> SlotIds], AtHome(home),
           NEW v, v = Slots(poll.slots), NEW s \in Busy(v)
    PROVE  /\ poll.slots.is = "read" /\ v = poll.slots.value /\ s \in SlotIds
           /\ v[s] \in SlotState /\ v[s].task # 0
           /\ v[s].task \in 1..Len(tasks) /\ home[v[s].task] = s
           /\ v[s].n \in Nat /\ v[s].n <= tasks[v[s].task]
<1>1. poll.slots.is = "read" BY DEF Slots, Busy
<1>2. v = poll.slots.value /\ DOMAIN v = SlotIds BY <1>1, SnapshotType DEF Slots
<1>3. s \in SlotIds /\ v[s].task # 0 /\ v[s] \in SlotState BY <1>1, <1>2, SnapshotType DEF Busy, NoTaskId
<1>. QED BY <1>1, <1>2, <1>3, SnapshotType DEF AtHome, Shows, NoTaskId

\* The record of a busy slot is of its task, and no more than true.
LEMMA JobOfIs ==
    ASSUME MetricsInv, NEW home \in [1..Len(tasks) -> SlotIds], AtHome(home),
           NEW v, v = Slots(poll.slots), NEW s \in Busy(v)
    PROVE  /\ JobOf(s, v) \in JobRecord /\ Sound(JobOf(s, v))
           /\ JobOf(s, v).slot = s /\ JobOf(s, v).task = v[s].task
<1>. DEFINE n == v[s].n
            t == v[s].task
<1>1. s \in SlotIds /\ t \in 1..Len(tasks) /\ t \in TaskIds /\ n \in Tokens /\ n \in Nat /\ n <= tasks[t]
    BY FrameShows DEF SlotState, NoTaskId
<1>2. CASE JobsOf(s, t) = {}
    <2>1. JobOf(s, v) = [slot |-> s, task |-> t, tokens |-> n, baseline |-> n, begun |-> n > 0]
        BY <1>2 DEF JobOf
    <2>2. (n > 0) \in BOOLEAN BY <1>1
    <2>. HIDE DEF n, t
    <2>3. JobOf(s, v) \in JobRecord BY <1>1, <2>1, <2>2 DEF JobRecord
    <2>4. /\ JobOf(s, v).slot = s /\ JobOf(s, v).task = t
          /\ JobOf(s, v).tokens = n /\ JobOf(s, v).baseline = n
        BY <2>1
    <2>5. Sound(JobOf(s, v)) BY <1>1, <2>4 DEF Sound
    <2>. QED BY <2>3, <2>4, <2>5 DEF t
<1>3. CASE JobsOf(s, t) # {}
    <2>. DEFINE j == CHOOSE j \in JobsOf(s, t) : TRUE
                more == IF n > j.tokens THEN n ELSE j.tokens
                base == IF ~j.begun THEN n ELSE j.baseline
                has == j.begun \/ n > 0
    <2>1. j \in JobsOf(s, t) BY <1>3
    <2>2. JobOf(s, v) = [j EXCEPT !.tokens = IF n > @ THEN n ELSE @,
                                  !.baseline = IF ~j.begun THEN n ELSE @,
                                  !.begun = j.begun \/ n > 0]
        BY <1>3 DEF JobOf
    <2>. HIDE DEF j, n, t
    <2>3. j \in activeJobs /\ j \in JobRecord /\ j.slot = s /\ j.task = t
        BY <2>1, ServerTypes DEF JobsOf
    <2>4. j.tokens \in Tokens /\ j.baseline \in Tokens /\ j.begun \in BOOLEAN BY <2>3 DEF JobRecord
    <2>5. j.baseline <= j.tokens /\ j.tokens <= tasks[t] BY <2>3 DEF MetricsInv, RecordsSound, Sound
    <2>6. JobOf(s, v) = [slot |-> s, task |-> t, tokens |-> more, baseline |-> base, begun |-> has]
        BY <2>2, <2>3 DEF JobRecord
    <2>7. more \in Tokens /\ base \in Tokens /\ base <= more /\ more <= tasks[t]
        BY <1>1, <2>4, <2>5, MetricsBounds DEF Tokens
    <2>8. has \in BOOLEAN BY <2>4
    <2>. HIDE DEF more, base, has
    <2>9. /\ JobOf(s, v).slot = s /\ JobOf(s, v).task = t
          /\ JobOf(s, v).tokens = more /\ JobOf(s, v).baseline = base
        BY <2>6
    <2>10. JobOf(s, v) \in JobRecord BY <1>1, <2>6, <2>7, <2>8 DEF JobRecord
    <2>11. Sound(JobOf(s, v)) BY <1>1, <2>7, <2>9 DEF Sound
    <2>. QED BY <2>9, <2>10, <2>11 DEF t
<1>. QED BY <1>2, <1>3

LEMMA CounterType == MetricsInv => Counter(poll.prom) \in Nat
<1>. SUFFICES ASSUME MetricsInv PROVE Counter(poll.prom) \in Nat OBVIOUS
<1>1. poll.prom \in CounterReads BY ServerTypes
<1>2. poll.prom.is = "read" => poll.prom.value \in Nat BY <1>1, ReadsAre DEF CounterReads
<1>. QED BY <1>2 DEF Counter

\* What the counter puts in a rate is a number.
LEMMA CounterRate ==
    ASSUME MetricsInv, NEW slots, frames # <<>>,
           Rate(frames[1], slots, poll.prom).by = "counter"
    PROVE  Rate(frames[1], slots, poll.prom).tokens \in Nat
<1>1. Counter(poll.prom) \in Nat BY CounterType
<1>2. frames[1].counter \in Nat BY DEF MetricsInv
<1>3. Rate(frames[1], slots, poll.prom) =
          [by |-> "counter", tokens |-> Counter(poll.prom) - frames[1].counter]
      /\ Counter(poll.prom) > frames[1].counter
    BY DEF Rate, NoRate
<1>. QED BY <1>1, <1>2, <1>3

LEMMA FrameMadeSound == ASSUME MetricsInv, NEW soon \in BOOLEAN, FrameMade(soon) PROVE MetricsInv'
<1>. USE MetricsBounds
<1>1. PICK v : v = Slots(poll.slots) OBVIOUS
<1>2. PICK rate : rate = IF frames = <<>> \/ soon THEN NoRate ELSE Rate(frames[1], v, poll.prom) OBVIOUS
<1>3. PICK failed : failed = (Failed \in {poll.slots, poll.prom}) OBVIOUS
<1>4. PICK finished : finished = Finished(v) OBVIOUS
<1>5. /\ NoRead \notin {poll.slots, poll.prom}
      /\ errors' = IF ~failed THEN 0 ELSE IF errors < GraceFrames THEN errors + 1 ELSE errors
      /\ activeJobs' = {JobOf(s, v) : s \in Busy(v)}
      /\ recentJobs' = Kept(recentJobs \o SetToSeq(finished), RecentMax)
      /\ inbox' = IF inbox < QueueMax THEN inbox + 1 ELSE inbox
      /\ counted' = 0 \/ counted' = counted + IF rate.by = "counter" THEN rate.tokens ELSE 0
      /\ split' = split \union IF poll.slots = Failed THEN {j.task : j \in activeJobs} ELSE {}
      /\ overtaken' = FALSE /\ poll' = NoPoll
      /\ UNCHANGED <<serverSide, polls>>
    BY <1>1, <1>2, <1>3, <1>4 DEF FrameMade
<1>6. frames'[1].counter = Counter(poll.prom) /\ frames'[1].slots = v BY <1>1 DEF FrameMade
<1>7. UNCHANGED <<work, tasks, total, polls>> BY <1>5 DEF serverSide
<1>8. PICK home \in [1..Len(tasks) -> SlotIds] : AtHome(home) BY DEF MetricsInv
<1>9. finished \subseteq activeJobs BY <1>4 DEF Finished
<1>10. ASSUME NEW s \in Busy(v)
       PROVE  /\ JobOf(s, v) \in JobRecord /\ Sound(JobOf(s, v))
              /\ JobOf(s, v).slot = s /\ JobOf(s, v).task = v[s].task
              /\ home[v[s].task] = s /\ v[s].task \in 1..Len(tasks)
    BY <1>1, <1>8, JobOfIs, FrameShows
<1>11. IsFiniteSet(finished) BY <1>9, FS_Subset DEF MetricsInv
<1>. DEFINE q == SetToSeq(finished)
            all == recentJobs \o q
<1>12. q \in Seq(finished) /\ \A i, k \in DOMAIN q : i # k => q[i] # q[k] BY <1>11, SetAsSequence
<1>13. q \in Seq(JobRecord) /\ recentJobs \in Seq(JobRecord)
    <2>1. finished \subseteq JobRecord BY <1>9, ServerTypes
    <2>. QED BY <2>1, <1>12, ServerTypes
<1>. HIDE DEF q
<1>14. /\ all \in Seq(JobRecord) /\ Len(all) = Len(recentJobs) + Len(q)
       /\ \A i \in 1..Len(all) : all[i] = IF i <= Len(recentJobs) THEN recentJobs[i] ELSE q[i - Len(recentJobs)]
    BY <1>13
<1>15. \A i \in DOMAIN q : q[i] \in finished BY <1>12
<1>28. ASSUME NEW i \in 1..Len(all)
       PROVE  \/ i <= Len(recentJobs) /\ i \in DOMAIN recentJobs /\ all[i] = recentJobs[i]
              \/ /\ ~(i <= Len(recentJobs)) /\ all[i] \in finished
                 /\ i - Len(recentJobs) \in DOMAIN q /\ all[i] = q[i - Len(recentJobs)]
    <2>1. Len(recentJobs) \in Nat /\ Len(q) \in Nat /\ i \in Nat /\ i >= 1 BY <1>13, <1>14
    <2>2. CASE i <= Len(recentJobs) BY <2>1, <2>2, <1>13, <1>14
    <2>3. CASE ~(i <= Len(recentJobs))
        <3>1. i - Len(recentJobs) \in DOMAIN q BY <2>1, <2>3, <1>13, <1>14
        <3>2. all[i] = q[i - Len(recentJobs)] BY <2>3, <1>14
        <3>. QED BY <2>3, <3>1, <3>2, <1>15
    <2>. QED BY <2>2, <2>3
<1>. HIDE DEF all
<1>16. recentJobs' \in Seq(JobRecord) /\ Len(recentJobs') <= RecentMax
    BY <1>5, <1>14, KeptIsTheEnd DEF all, q
<1>27. recentJobs' = Kept(all, RecentMax) BY <1>5 DEF all, q
<1>17. PICK d \in Nat : /\ d + Len(recentJobs') = Len(all)
                        /\ \A i \in DOMAIN recentJobs' : recentJobs'[i] = all[i + d]
    <2>1. \E d \in Nat : /\ d + Len(Kept(all, RecentMax)) = Len(all)
                       /\ \A i \in DOMAIN Kept(all, RecentMax) : Kept(all, RecentMax)[i] = all[i + d]
        <3>1. all \in Seq(JobRecord) /\ RecentMax \in Nat BY <1>14
        <3>. QED BY ONLY <3>1, KeptIsTheEnd, Zenon
    <2>. QED BY <2>1, <1>27
<1>18. \A i \in DOMAIN recentJobs' : i + d \in 1..Len(all) BY <1>14, <1>16, <1>17
<1>19. MetricsTypeOK'
    <2>1. activeJobs' \subseteq JobRecord BY <1>5, <1>10
    <2>2. counted' \in Nat
        <3>1. counted \in Nat BY DEF MetricsInv, MetricsTypeOK
        <3>2. rate.by = "counter" => rate.tokens \in Nat BY <1>2, CounterRate DEF NoRate
        <3>. QED BY <1>5, <3>1, <3>2
    <2>3. errors' \in 0..GraceFrames BY <1>5 DEF MetricsInv, MetricsTypeOK
    <2>4. inbox' \in 0..QueueMax BY <1>5 DEF MetricsInv, MetricsTypeOK
    <2>5. overtaken' \in BOOLEAN BY <1>5
    <2>6. split' \subseteq TaskIds
        <3>1. \A j \in activeJobs : j.task \in TaskIds BY ServerTypes DEF JobRecord
        <3>. QED BY <3>1, <1>5 DEF MetricsInv, MetricsTypeOK
    <2>. QED BY <2>1, <2>2, <2>3, <2>4, <2>5, <2>6, <1>7, <1>16 DEF MetricsInv, MetricsTypeOK
<1>20. poll' \in [slots : SlotReads, prom : CounterReads] /\ poll'.slots.is # "read"
    BY <1>5 DEF NoPoll, Failed, SlotReads, CounterReads
<1>21. frames'[1].counter \in Nat
    BY <1>6, CounterType
<1>22. AtHome(home)'
    <2>1. \A s \in Busy(v) : /\ s \in SlotIds /\ v[s].n \in Nat /\ v[s].task \in 1..Len(tasks)
                            /\ home[v[s].task] = s
        BY <1>1, <1>8, FrameShows
    <2>2. \A j \in activeJobs' : j.task \in 1..Len(tasks) /\ home[j.task] = j.slot BY <1>5, <1>10
    <2>. QED BY <2>1, <2>2, <1>6, <1>7, <1>8, <1>20 DEF AtHome, Shows
<1>23. IsFiniteSet(activeJobs')
    <2>1. IsFiniteSet(Busy(v))
        <3>1. Busy(v) \subseteq SlotIds BY <1>1, <1>8, FrameShows
        <3>. QED BY <3>1, FS_Subset, MetricsAssumption
    <2>2. [s \in Busy(v) |-> JobOf(s, v)] \in Surjection(Busy(v), activeJobs')
        BY <1>5 DEF Surjection
    <2>. QED BY <2>1, <2>2, FS_Surjection
<1>24. RecordsSound'
    <2>1. \A j \in activeJobs' : Sound(j)' BY <1>5, <1>7, <1>10 DEF Sound
    <2>2. \A j, k \in activeJobs' : j.task = k.task => j = k
        <3>1. ASSUME NEW j \in activeJobs', NEW k \in activeJobs', j.task = k.task PROVE j = k
            <4>1. PICK a \in Busy(v) : j = JobOf(a, v) BY <1>5
            <4>2. PICK b \in Busy(v) : k = JobOf(b, v) BY <1>5
            <4>3. a = b BY <4>1, <4>2, <3>1, <1>10
            <4>. QED BY <4>1, <4>2, <4>3
        <3>. QED BY <3>1
    <2>3. \A i \in 1..Len(all) : Sound(all[i])
        <3>1. \A i \in DOMAIN recentJobs : Sound(recentJobs[i]) BY DEF MetricsInv, RecordsSound
        <3>2. \A j \in finished : Sound(j) BY <1>9 DEF MetricsInv, RecordsSound
        <3>. QED BY <3>1, <3>2, <1>28
    <2>4. \A i \in DOMAIN recentJobs' : Sound(recentJobs[i])' BY <2>3, <1>7, <1>17, <1>18 DEF Sound
    <2>. QED BY <2>1, <2>2, <2>4 DEF RecordsSound
<1>25. ReadIsOld' BY <1>20 DEF ReadIsOld
<1>26. RecentAreOver'
    <2>2. RecentAreOver /\ split \subseteq split' BY <1>5 DEF MetricsInv
    <2>3. poll.slots.is = "read" \/ (poll.slots.is = "failed" /\ poll.slots = Failed)
        BY <1>5, ServerTypes, ReadsAre DEF SlotReads
    <2>4. poll.slots.is = "read" => v = poll.slots.value /\ DOMAIN v = SlotIds BY <1>1, SnapshotType DEF Slots
    \* A record that is finished: of a task that is over, or was split.
    <2>5. ASSUME NEW j \in finished, j.task \notin split'
          PROVE  /\ poll.slots.is = "read"
                 /\ \A s \in SlotIds : work[s].task # j.task /\ v[s].task # j.task
        <3>1. j \in activeJobs /\ j \in JobRecord BY <1>9, ServerTypes
        <3>2. j.slot \in SlotIds /\ j.task \in 1..Len(tasks) /\ j.task # 0 /\ home[j.task] = j.slot
            BY <3>1, <1>8 DEF JobRecord, TaskIds, AtHome
        <3>6. poll.slots.is = "read" BY <2>3, <2>5, <3>1, <1>5
        <3>3. v[j.slot].task # j.task
            BY <3>2, <3>6, <1>4, <2>4 DEF Finished, Busy, NoTaskId
        <3>4. ASSUME NEW s \in SlotIds PROVE work[s].task = j.task => s = j.slot
            BY <3>2, <1>8 DEF AtHome, Shows, NoTaskId
        <3>5. ASSUME NEW s \in SlotIds PROVE v[s].task = j.task => s = j.slot
            BY <3>2, <3>6, <1>8, <2>4 DEF AtHome, Shows, NoTaskId
        <3>. QED BY <3>1, <3>3, <3>4, <3>5, <3>6, <2>4 DEF MetricsInv, ReadIsOld
    <2>6. ASSUME NEW i \in 1..Len(all), all[i].task \notin split'
          PROVE  \A s \in SlotIds : /\ work[s].task # all[i].task
                                    /\ poll.slots.is = "read" => v[s].task # all[i].task
        <3>1. CASE i <= Len(recentJobs)
            <4>1. i \in DOMAIN recentJobs /\ all[i] = recentJobs[i] BY <3>1, <1>28
            <4>2. Over(recentJobs[i].task) BY <4>1, <2>2, <2>6 DEF RecentAreOver
            <4>. QED BY <4>1, <4>2, <2>4 DEF Over
        <3>2. CASE ~(i <= Len(recentJobs))
            <4>1. all[i] \in finished BY <3>2, <1>28
            <4>. QED BY <4>1, <2>5, <2>6
        <3>. QED BY <3>1, <3>2
    <2>7. ASSUME NEW i \in 1..Len(all), NEW k \in 1..Len(all), i < k, all[i].task \notin split'
          PROVE  all[i].task # all[k].task
        <3>1. CASE k <= Len(recentJobs)
            <4>1. i \in DOMAIN recentJobs /\ k \in DOMAIN recentJobs
                  /\ all[i] = recentJobs[i] /\ all[k] = recentJobs[k]
                BY <2>7, <3>1, <1>13, <1>28
            <4>. QED BY <4>1, <2>2, <2>7 DEF RecentAreOver
        <3>2. CASE i <= Len(recentJobs) /\ ~(k <= Len(recentJobs))
            <4>1. i \in DOMAIN recentJobs /\ all[i] = recentJobs[i] BY <3>2, <1>28
            <4>2. all[k] \in finished BY <3>2, <1>28
            <4>3. Over(all[i].task) BY <4>1, <2>2, <2>7 DEF RecentAreOver
            <4>. QED BY <4>2, <4>3, <1>9 DEF Over
        <3>3. CASE ~(i <= Len(recentJobs))
            <4>. DEFINE a == i - Len(recentJobs)
                        b == k - Len(recentJobs)
            <4>1. a \in DOMAIN q /\ b \in DOMAIN q /\ a # b /\ all[i] = q[a] /\ all[k] = q[b]
                BY <2>7, <3>3, <1>13, <1>28
            <4>. HIDE DEF a, b
            <4>2. q[a] # q[b] /\ q[a] \in activeJobs /\ q[b] \in activeJobs
                BY <4>1, <1>9, <1>12, <1>15
            <4>. QED BY <4>1, <4>2 DEF MetricsInv, RecordsSound
        <3>. QED BY <3>1, <3>2, <3>3, <2>7, <1>13
    <2>8. ASSUME NEW i \in DOMAIN recentJobs', recentJobs'[i].task \notin split'
          PROVE  Over(recentJobs[i].task)'
        <3>1. recentJobs'[i] = all[i + d] /\ i + d \in 1..Len(all) BY <1>17, <1>18
        <3>2. \A j \in activeJobs' : j.task # all[i + d].task
            <4>1. ASSUME NEW s \in Busy(v) PROVE JobOf(s, v).task # all[i + d].task
                <5>1. s \in SlotIds /\ poll.slots.is = "read" BY <1>1, <1>8, FrameShows
                <5>. QED BY <5>1, <3>1, <2>6, <2>8, <1>10
            <4>. QED BY <4>1, <1>5
        <3>. QED BY <3>1, <3>2, <2>6, <2>8, <1>7, <1>20 DEF Over
    <2>9. ASSUME NEW i \in DOMAIN recentJobs', NEW k \in DOMAIN recentJobs', i # k,
                 recentJobs'[i].task \notin split'
          PROVE  recentJobs'[i].task # recentJobs'[k].task
        <3>1. recentJobs'[i] = all[i + d] /\ i + d \in 1..Len(all) BY <1>17, <1>18
        <3>2. recentJobs'[k] = all[k + d] /\ k + d \in 1..Len(all) BY <1>17, <1>18
        <3>3. i + d < k + d \/ k + d < i + d BY <2>9, <1>16
        <3>. QED BY <3>1, <3>2, <3>3, <2>7, <2>9
    <2>. QED BY <2>8, <2>9 DEF RecentAreOver
<1>. QED BY <1>7, <1>8, <1>19, <1>20, <1>21, <1>22, <1>23, <1>24, <1>25, <1>26 DEF MetricsInv

-----------------------------------------------------------------------------
(* The metrics: the invariant *)

LEMMA MetricsStep == MetricsInv /\ [MetricsNext]_metricsVars => MetricsInv'
<1>. SUFFICES ASSUME MetricsInv, [MetricsNext]_metricsVars PROVE MetricsInv' OBVIOUS
<1>1. ASSUME NEW s \in SlotIds, TaskBegins(s) PROVE MetricsInv' BY <1>1, TaskBeginsSound
<1>2. ASSUME NEW s \in SlotIds, Decodes(s) PROVE MetricsInv' BY <1>2, DecodesSound
<1>3. ASSUME NEW s \in SlotIds, TaskEnds(s) PROVE MetricsInv' BY <1>3, TaskEndsSound
<1>4. CASE PollBegins BY <1>4, PollBeginsSound
<1>5. CASE FrameTaken BY <1>5, FrameTakenSound
<1>6. ASSUME NEW b \in BOOLEAN, SlotsRead(b) PROVE MetricsInv' BY <1>6, SlotsReadSound
<1>7. ASSUME NEW b \in BOOLEAN, CountersRead(b) PROVE MetricsInv' BY <1>7, CountersReadSound
<1>8. ASSUME NEW b \in BOOLEAN, FrameMade(b) PROVE MetricsInv' BY <1>8, FrameMadeSound
<1>9. CASE UNCHANGED metricsVars
    <2>1. UNCHANGED <<serverSide, frames, activeJobs, recentJobs, split, poll>> /\ MetricsTypeOK'
        BY <1>9 DEF metricsVars, MetricsInv, MetricsTypeOK, serverSide, history
    <2>. QED BY <2>1, ReadingSound DEF MetricsInv
<1>. QED BY <1>1, <1>2, <1>3, <1>4, <1>5, <1>6, <1>7, <1>8, <1>9 DEF MetricsNext

LEMMA MetricsInvIsEnough == MetricsInv => MetricsTypeOK /\ RecordsAreTrue
<1>. SUFFICES ASSUME MetricsInv PROVE MetricsTypeOK /\ RecordsAreTrue OBVIOUS
<1>1. \A j \in activeJobs \union ToSet(recentJobs) : Sound(j) BY DEF MetricsInv, RecordsSound, ToSet
<1>2. RecentAreOver BY DEF MetricsInv
<1>. QED BY <1>1, <1>2 DEF MetricsInv, RecordsAreTrue, Sound, RecentAreOver, Over


-----------------------------------------------------------------------------
(* The rates: sums of tasks *)

LEMMA TasksAddUp ==
    ASSUME MetricsInv, NEW X \in SUBSET (1..Len(tasks))
    PROVE  /\ IsFiniteSet(X) /\ Sum(tasks, X) \in Nat
           /\ \A t \in X : tasks[t] \in Nat /\ t \in TaskIds
           /\ \A other : (\A t \in X : other[t] = tasks[t]) => Sum(other, X) = Sum(tasks, X)
<1>1. IsFiniteSet(1..Len(tasks)) BY ServerTypes, FS_Interval
<1>2. IsFiniteSet(X) BY <1>1, FS_Subset
<1>3. \A t \in X : tasks[t] \in Nat /\ t \in TaskIds BY ServerTypes, MetricsBounds DEF TaskIds
<1>4. Sum(tasks, X) \in Nat BY <1>2, <1>3, SumNat
<1>5. ASSUME NEW other, \A t \in X : other[t] = tasks[t] PROVE Sum(other, X) = Sum(tasks, X)
    <2>1. \A t \in X : tasks[t] \in Int /\ tasks[t] = other[t] BY <1>3, <1>5
    <2>. QED BY <1>2, <2>1, SumSame
<1>. QED BY <1>2, <1>3, <1>4, <1>5

LEMMA EndedType == EndedTasks \in SUBSET (1..Len(tasks))
BY DEF EndedTasks

LEMMA RatesInitSound == MetricsInit => RatesInv
<1>. SUFFICES ASSUME MetricsInit PROVE RatesInv OBVIOUS
<1>. USE MetricsBounds DEF MetricsInit, Failed, NoPoll
<1>1. credited \in [TaskIds -> Nat] /\ \A t \in TaskIds : credited[t] = 0 OBVIOUS
<1>5. lapse.credited = credited /\ lapse.counter = 0 OBVIOUS
<1>2. CreditsSound BY <1>1, <1>5 DEF CreditsSound, TaskIds
<1>3. EndedTasks = {} BY DEF EndedTasks
<1>4. CountedApart({}, {}) BY <1>1, <1>5, SumOfNone DEF CountedApart
<1>. QED BY <1>2, <1>3, <1>4, SumOfNone DEF RatesInv, Apart

-----------------------------------------------------------------------------
(* The rates: the server's steps *)

\* A step of the server in which no task ends, and none that is over changes.
LEMMA RatesServer ==
    ASSUME MetricsInv, RatesInv, UNCHANGED <<clientSide, overtaken, total>>,
           Len(tasks') \in Nat, Len(tasks) <= Len(tasks'),
           \A t \in 1..Len(tasks') : tasks'[t] \in Nat,
           \A t \in 1..Len(tasks) : tasks[t] <= tasks'[t],
           EndedTasks' = EndedTasks, \A t \in EndedTasks : tasks'[t] = tasks[t]
    PROVE  RatesInv'
<1>1. UNCHANGED <<poll, frames, credited, counted, lapse>> BY DEF clientSide, history
<1>2. \A X \in SUBSET EndedTasks : Sum(tasks', X) = Sum(tasks, X) BY TasksAddUp, EndedType
<1>3. CreditsSound'
    <2>1. ASSUME NEW t \in TaskIds PROVE credited[t] <= IF t <= Len(tasks') THEN tasks'[t] ELSE 0
        <3>1. t \in Nat /\ t >= 1 /\ credited[t] \in Nat
            BY MetricsBounds DEF TaskIds, RatesInv, CreditsSound
        <3>2. credited[t] <= IF t <= Len(tasks) THEN tasks[t] ELSE 0 BY DEF RatesInv, CreditsSound
        <3>3. CASE t <= Len(tasks)
            <4>1. t \in 1..Len(tasks) /\ t \in 1..Len(tasks') BY <3>1, <3>3, ServerTypes
            <4>2. tasks[t] \in Nat /\ tasks'[t] \in Nat /\ tasks[t] <= tasks'[t] BY <4>1, ServerTypes
            <4>. QED BY <3>1, <3>2, <3>3, <4>1, <4>2
        <3>4. CASE ~(t <= Len(tasks))
            <4>1. credited[t] = 0 BY <3>1, <3>2, <3>4
            <4>2. t <= Len(tasks') => tasks'[t] \in Nat BY <3>1
            <4>. QED BY <4>1, <4>2
        <3>. QED BY <3>3, <3>4
    <2>. QED BY <2>1, <1>1 DEF RatesInv, CreditsSound, Covers
<1>4. (total = Sum(tasks, EndedTasks))' BY <1>2 DEF RatesInv
<1>5. Apart'
    <2>1. PICK before \in SUBSET EndedTasks : \E those \in SUBSET before :
              /\ CountedApart(before, those)
              /\ poll.prom.is = "read" => \E now \in SUBSET EndedTasks : CountersAre(before, now)
        BY DEF RatesInv, Apart
    <2>5. PICK those \in SUBSET before :
              /\ CountedApart(before, those)
              /\ poll.prom.is = "read" => \E now \in SUBSET EndedTasks : CountersAre(before, now)
        BY <2>1
    <2>2. LastShown' = LastShown BY <1>1 DEF LastShown
    <2>3. CountedApart(before, those)' BY <1>1, <1>2, <2>5, <2>2 DEF CountedApart
    <2>4. ASSUME NEW now \in SUBSET EndedTasks, CountersAre(before, now) PROVE CountersAre(before, now)'
        BY <1>1, <1>2, <2>2, <2>4 DEF CountersAre
    <2>. QED BY <1>1, <2>5, <2>3, <2>4 DEF Apart
<1>. QED BY <1>3, <1>4, <1>5 DEF RatesInv

LEMMA RatesTaskBegins ==
    ASSUME MetricsInv, RatesInv, MetricsInv', NEW s \in SlotIds, TaskBegins(s) PROVE RatesInv'
<1>. DEFINE t == Len(tasks) + 1
<1>1. tasks' = Append(tasks, 0) /\ work[s].task = 0 /\ UNCHANGED <<total, clientSide, overtaken>>
    BY DEF TaskBegins, NoTaskId
<1>2. Len(tasks') = t /\ tasks'[t] = 0 /\ (\A u \in 1..Len(tasks) : tasks'[u] = tasks[u])
    /\ 1..Len(tasks') = (1..Len(tasks)) \union {t}
    BY <1>1, ServerTypes
<1>3. work' = [work EXCEPT ![s] = [task |-> t, n |-> 0]] BY <1>2 DEF TaskBegins
<1>4. work'[s].task = t /\ (\A u \in SlotIds : u # s => work'[u] = work[u]) BY <1>3, ServerTypes
<1>5. t \in Nat /\ \A u \in 1..Len(tasks) : u # t /\ u # 0 /\ tasks[u] \in Nat BY ServerTypes
<1>. HIDE DEF t
<1>6. EndedTasks' = EndedTasks BY <1>1, <1>2, <1>4, <1>5 DEF EndedTasks
<1>7. \A u \in 1..Len(tasks') : tasks'[u] \in Nat BY <1>2, <1>5
<1>8. \A u \in 1..Len(tasks) : tasks[u] <= tasks'[u] BY <1>2, <1>5
<1>9. Len(tasks) <= Len(tasks') /\ Len(tasks') \in Nat BY <1>2, ServerTypes DEF t
<1>10. \A u \in EndedTasks : tasks'[u] = tasks[u] BY <1>2, EndedType
<1>. QED BY <1>1, <1>6, <1>7, <1>8, <1>9, <1>10, RatesServer

LEMMA RatesDecodes ==
    ASSUME MetricsInv, RatesInv, MetricsInv', NEW s \in SlotIds, Decodes(s) PROVE RatesInv'
<1>. DEFINE t == work[s].task
<1>1. t # 0 /\ work' = [work EXCEPT ![s].n = @ + 1] /\ tasks' = [tasks EXCEPT ![t] = @ + 1]
    /\ UNCHANGED <<total, clientSide, overtaken>>
    BY DEF Decodes, NoTaskId
<1>2. t \in 1..Len(tasks) BY <1>1 DEF MetricsInv, AtHome, Shows, NoTaskId
<1>3. \A u \in SlotIds : work'[u].task = work[u].task BY <1>1, ServerTypes DEF SlotState
<1>4. Len(tasks') = Len(tasks) /\ tasks'[t] = tasks[t] + 1
    /\ (\A u \in 1..Len(tasks) : u # t => tasks'[u] = tasks[u]) /\ Len(tasks) \in Nat
    BY <1>1, <1>2, ServerTypes
<1>5. t \notin EndedTasks BY DEF EndedTasks
<1>. HIDE DEF t
<1>6. EndedTasks' = EndedTasks BY <1>3, <1>4 DEF EndedTasks
<1>7. \A u \in 1..Len(tasks) : tasks'[u] \in Nat /\ tasks[u] <= tasks'[u]
    BY <1>2, <1>4, ServerTypes
<1>8. \A u \in EndedTasks : tasks'[u] = tasks[u] BY <1>4, <1>5, EndedType
<1>9. \A u \in 1..Len(tasks') : tasks'[u] \in Nat BY <1>4, <1>7
<1>10. \A u \in 1..Len(tasks) : tasks[u] <= tasks'[u] BY <1>7
<1>. QED BY <1>1, <1>4, <1>6, <1>8, <1>9, <1>10, RatesServer

LEMMA RatesTaskEnds ==
    ASSUME MetricsInv, RatesInv, MetricsInv', NEW s \in SlotIds, TaskEnds(s) PROVE RatesInv'
<1>. DEFINE t == work[s].task
<1>1. t # 0 /\ work' = [work EXCEPT ![s] = IdleSlot] /\ total' = total + work[s].n
    /\ UNCHANGED <<tasks, clientSide>>
    /\ overtaken' = (overtaken \/ (poll.slots = NoRead /\ poll.prom.is = "read"))
    BY DEF TaskEnds, NoTaskId
<1>2. UNCHANGED <<poll, frames, credited, counted, lapse>> BY <1>1 DEF clientSide, history
<1>3. PICK home \in [1..Len(tasks) -> SlotIds] : AtHome(home) BY DEF MetricsInv
<1>4. t \in 1..Len(tasks) /\ work[s].n = tasks[t] /\ home[t] = s
    BY <1>1, <1>3 DEF MetricsInv, AtHome, Shows, NoTaskId
<1>5. \A u \in SlotIds : work'[u].task = IF u = s THEN 0 ELSE work[u].task
    BY <1>1, ServerTypes DEF IdleSlot, NoTaskId
<1>6. t \notin EndedTasks BY DEF EndedTasks
<1>7. \A u \in SlotIds : work[u].task = t => u = s BY <1>1, <1>3, <1>4 DEF AtHome, Shows, NoTaskId
<1>8. \A u \in SlotIds : work'[u].task # t BY <1>1, <1>5, <1>7
<1>. HIDE DEF t
<1>9. EndedTasks' = EndedTasks \union {t}
    <2>1. \A k \in 1..Len(tasks) : k # 0 BY ServerTypes
    <2>2. ASSUME NEW k \in 1..Len(tasks), k # t
          PROVE  (\A u \in SlotIds : work'[u].task # k) <=> (\A u \in SlotIds : work[u].task # k)
        BY <2>1, <2>2, <1>5 DEF t
    <2>. QED BY <2>2, <1>1, <1>4, <1>8 DEF EndedTasks
<1>10. Sum(tasks, EndedTasks \union {t}) = Sum(tasks, EndedTasks) + tasks[t]
    <2>. DEFINE X == EndedTasks \union {t}
    <2>1. X \in SUBSET (1..Len(tasks)) BY <1>4, EndedType
    <2>2. IsFiniteSet(X) /\ \A k \in X : tasks[k] \in Int BY <2>1, TasksAddUp
    <2>3. t \in X /\ X \ {t} = EndedTasks BY <1>6
    <2>4. Sum(tasks, X) = tasks[t] + Sum(tasks, X \ {t}) BY <2>2, <2>3, SumWithout
    <2>5. Sum(tasks, EndedTasks) \in Int /\ tasks[t] \in Int BY <1>4, TasksAddUp, EndedType, ServerTypes
    <2>6. Sum(tasks, X \ {t}) = Sum(tasks, EndedTasks) BY <2>3
    <2>. HIDE DEF X
    <2>7. Sum(tasks, X) = Sum(tasks, EndedTasks) + tasks[t] BY <2>4, <2>5, <2>6
    <2>. QED BY <2>7 DEF X
<1>11. (total = Sum(tasks, EndedTasks))' BY <1>1, <1>4, <1>9, <1>10 DEF RatesInv
<1>12. CreditsSound' BY <1>1, <1>2 DEF RatesInv, CreditsSound, Covers
<1>13. Apart'
    <2>2. PICK before \in SUBSET EndedTasks : \E those \in SUBSET before :
              /\ CountedApart(before, those)
              /\ poll.prom.is = "read" => \E now \in SUBSET EndedTasks : CountersAre(before, now)
        BY DEF RatesInv, Apart
    <2>7. PICK those \in SUBSET before :
              /\ CountedApart(before, those)
              /\ poll.prom.is = "read" => \E now \in SUBSET EndedTasks : CountersAre(before, now)
        BY <2>2
    <2>3. LastShown' = LastShown BY <1>2 DEF LastShown
    <2>4. CountedApart(before, those)' BY <1>1, <1>2, <1>9, <2>7, <2>3 DEF CountedApart
    <2>5. poll.prom.is = "read" /\ ~overtaken' => ~overtaken /\ poll.slots.is # "pending"
        BY <1>1, ServerTypes, ReadsAre DEF SlotReads
    <2>6. ASSUME poll.prom.is = "read", NEW now \in SUBSET EndedTasks, CountersAre(before, now)
          PROVE  CountersAre(before, now)'
        BY <1>1, <1>2, <1>9, <2>3, <2>5, <2>6 DEF CountersAre
    <2>8. (poll.prom.is = "read" => \E now \in SUBSET EndedTasks : CountersAre(before, now))'
        <3>. SUFFICES ASSUME poll.prom.is = "read"
                      PROVE  \E now \in SUBSET EndedTasks' : CountersAre(before, now)'
            BY <1>2
        <3>1. PICK now \in SUBSET EndedTasks : CountersAre(before, now) BY <2>7
        <3>2. now \in SUBSET EndedTasks' BY <1>9
        <3>. QED BY <3>1, <3>2, <2>6
    <2>9. before \in SUBSET EndedTasks' BY <1>9
    <2>. QED BY <2>4, <2>8, <2>9 DEF Apart
<1>. QED BY <1>11, <1>12, <1>13 DEF RatesInv

-----------------------------------------------------------------------------
(* The rates: the steps of a poll *)

LEMMA RatesPollBegins ==
    ASSUME MetricsInv, RatesInv, MetricsInv', PollBegins \/ FrameTaken \/ UNCHANGED metricsVars PROVE RatesInv'
<1>1. UNCHANGED <<work, tasks, total, frames, credited, counted, lapse, overtaken>>
    BY DEF PollBegins, FrameTaken, serverSide, metricsVars, history
<1>2. poll' = poll \/ (poll'.slots.is = "pending" /\ poll'.prom.is = "pending")
    BY DEF PollBegins, FrameTaken, metricsVars, NoRead
<1>3. CreditsSound' BY <1>1, <1>2 DEF RatesInv, CreditsSound, Covers
<1>4. EndedTasks' = EndedTasks /\ LastShown' = LastShown BY <1>1 DEF EndedTasks, LastShown
<1>5. Apart'
    <2>1. PICK before \in SUBSET EndedTasks : \E those \in SUBSET before :
              /\ CountedApart(before, those)
              /\ poll.prom.is = "read" => \E now \in SUBSET EndedTasks : CountersAre(before, now)
        BY DEF RatesInv, Apart
    <2>2. PICK those \in SUBSET before :
              /\ CountedApart(before, those)
              /\ poll.prom.is = "read" => \E now \in SUBSET EndedTasks : CountersAre(before, now)
        BY <2>1
    <2>3. CountedApart(before, those)' BY <1>1, <1>2, <1>4, <2>2 DEF CountedApart
    <2>4. (poll.prom.is = "read" => \E now \in SUBSET EndedTasks : CountersAre(before, now))'
        BY <1>1, <1>2, <1>4, <2>2 DEF CountersAre
    <2>. QED BY <1>4, <2>3, <2>4 DEF Apart
<1>. QED BY <1>1, <1>3, <1>4, <1>5 DEF RatesInv

LEMMA RatesSlotsRead ==
    ASSUME MetricsInv, RatesInv, MetricsInv', NEW ok \in BOOLEAN, SlotsRead(ok) PROVE RatesInv'
<1>1. UNCHANGED <<work, tasks, total, frames, credited, counted, lapse, overtaken>> /\ poll.slots = NoRead
    BY DEF SlotsRead, serverSide, history
<1>2. poll'.prom = poll.prom /\ (poll'.slots.is = "read" => poll'.slots.value = work)
    /\ poll'.slots.is # "pending"
    BY DEF SlotsRead, Failed, MetricsInv
<1>3. poll.slots.is = "pending" BY <1>1 DEF NoRead
<1>4. Busy(work) = {s \in SlotIds : work[s].task # 0} BY ServerTypes DEF Busy, NoTaskId
<1>5. CreditsSound'
    <2>1. ASSUME NEW s \in Busy(work) PROVE credited[work[s].task] <= work[s].n
        <3>1. work[s].task \in 1..Len(tasks) /\ work[s].n = tasks[work[s].task]
            BY <1>4 DEF MetricsInv, AtHome, Shows, NoTaskId
        <3>2. work[s].task \in TaskIds BY <3>1, ServerTypes, MetricsBounds DEF TaskIds
        <3>. QED BY <3>1, <3>2, ServerTypes DEF RatesInv, CreditsSound
    <2>. QED BY <2>1, <1>1, <1>2 DEF RatesInv, CreditsSound, Covers
<1>6. EndedTasks' = EndedTasks /\ LastShown' = LastShown BY <1>1 DEF EndedTasks, LastShown
<1>7. LastShown \subseteq Shown(work) \union EndedTasks
    <2>1. LastShown \subseteq 1..Len(tasks) BY DEF LastShown, Shown, MetricsInv, AtHome
    <2>2. ASSUME NEW t \in 1..Len(tasks), t \notin EndedTasks PROVE t \in Shown(work)
        <3>1. PICK s \in SlotIds : work[s].task = t BY <2>2 DEF EndedTasks
        <3>2. t # 0 BY ServerTypes
        <3>. QED BY <3>1, <3>2, <1>4 DEF Shown
    <2>. QED BY <2>1, <2>2
<1>8. Shown(work) \intersect EndedTasks = {} BY <1>4 DEF Shown, EndedTasks
<1>9. Apart'
    <2>1. PICK before \in SUBSET EndedTasks : \E those \in SUBSET before :
              /\ CountedApart(before, those)
              /\ poll.prom.is = "read" => \E now \in SUBSET EndedTasks : CountersAre(before, now)
        BY DEF RatesInv, Apart
    <2>2. PICK those \in SUBSET before :
              /\ CountedApart(before, those)
              /\ poll.prom.is = "read" => \E now \in SUBSET EndedTasks : CountersAre(before, now)
        BY <2>1
    <2>3. Shown(work) \intersect before = {} BY <1>8
    <2>4. CountedApart(before, those)' BY <1>1, <1>2, <1>6, <1>7, <2>2, <2>3 DEF CountedApart
    <2>5. ASSUME NEW now \in SUBSET EndedTasks, CountersAre(before, now) PROVE CountersAre(before, now)'
        <3>1. ~overtaken => now = EndedTasks BY <1>3, <2>5 DEF CountersAre
        <3>. QED BY <1>1, <1>2, <1>6, <1>7, <2>5, <3>1 DEF CountersAre
    <2>6. (poll.prom.is = "read" => \E now \in SUBSET EndedTasks : CountersAre(before, now))'
        BY <1>2, <1>6, <2>2, <2>5
    <2>. QED BY <1>6, <2>4, <2>6 DEF Apart
<1>. QED BY <1>1, <1>5, <1>6, <1>9 DEF RatesInv

LEMMA RatesCountersRead ==
    ASSUME MetricsInv, RatesInv, MetricsInv', NEW ok \in BOOLEAN, CountersRead(ok) PROVE RatesInv'
<1>1. UNCHANGED <<work, tasks, total, frames, credited, counted, lapse, overtaken>>
    BY DEF CountersRead, serverSide, history
<1>2. poll'.slots = poll.slots /\ (poll'.prom.is = "read" => poll'.prom.value = total)
    BY DEF CountersRead, Failed, MetricsInv
<1>3. CreditsSound' BY <1>1, <1>2 DEF RatesInv, CreditsSound, Covers
<1>4. EndedTasks' = EndedTasks /\ LastShown' = LastShown BY <1>1 DEF EndedTasks, LastShown
<1>5. Apart'
    <2>1. PICK before \in SUBSET EndedTasks : \E those \in SUBSET before : CountedApart(before, those)
        BY DEF RatesInv, Apart
    <2>2. PICK those \in SUBSET before : CountedApart(before, those) BY <2>1
    <2>3. CountedApart(before, those)' BY <1>1, <1>2, <1>4, <2>2 DEF CountedApart
    <2>4. poll'.prom.is = "read" => CountersAre(before, EndedTasks)'
        BY <1>1, <1>2, <1>4, <2>2 DEF CountersAre, CountedApart, RatesInv
    <2>. QED BY <1>4, <2>3, <2>4 DEF Apart
<1>. QED BY <1>1, <1>3, <1>4, <1>5 DEF RatesInv

-----------------------------------------------------------------------------
(* The rates: a frame *)

\* The progress of some slots, as a sum.
LEMMA ProgressIs ==
    ASSUME NEW prev, NEW slots, NEW S, IsFiniteSet(S)
    PROVE  Progress(prev, slots, S) = Sum([s \in S |-> slots[s].n - prev[s].n], S)
<1>. DEFINE g == [s \in S |-> slots[s].n - prev[s].n]
            P(it) == it = [s \in SUBSET S |->
                            IF s = {} THEN 0
                            ELSE (slots[First(s)].n - prev[First(s)].n) + it[s \ {First(s)}]]
            the == CHOOSE it : P(it)
<1>1. ASSUME NEW it PROVE P(it) <=> IsSum(it, g, S)
    <2>1. ASSUME NEW s \in SUBSET S, s # {} PROVE g[First(s)] = slots[First(s)].n - prev[First(s)].n
        <3>1. First(s) \in S BY <2>1, FirstIsIn
        <3>. QED BY <3>1
    <2>. HIDE DEF g
    <2>. QED BY <2>1 DEF IsSum
<1>2. \E it : P(it) BY <1>1, SumsAre
<1>3. P(the) BY <1>2
<1>4. Progress(prev, slots, S) = the[S]
    BY DEF Progress, MapThenSumSet, MapThenFoldSet, First
<1>. HIDE DEF P, the
<1>5. IsSum(the, g, S) BY <1>1, <1>3
<1>. HIDE DEF g
<1>6. the[S] = Sum(g, S) BY <1>5, SumIsSum
<1>. QED BY <1>4, <1>6 DEF g

LEMMA ProgressOfNone == ASSUME NEW prev, NEW slots PROVE Progress(prev, slots, {}) = 0
BY ProgressIs, FS_EmptySet, SumOfNone

LEMMA ProgressOfOne ==
    ASSUME NEW prev, NEW slots, NEW x, slots[x].n \in Nat, prev[x].n \in Nat
    PROVE  Progress(prev, slots, {x}) = slots[x].n - prev[x].n
<1>. DEFINE g == [s \in {x} |-> slots[s].n - prev[s].n]
<1>8. IsFiniteSet({x}) BY FS_Singleton
<1>2. Progress(prev, slots, {x}) = Sum(g, {x}) BY <1>8, ProgressIs, Zenon
<1>3. g[x] = slots[x].n - prev[x].n OBVIOUS
<1>. HIDE DEF g
<1>4. Sum(g, {x}) = g[First({x})] + Sum(g, {x} \ {First({x})}) BY SumUnfolds, FS_Singleton
<1>5. First({x}) = x BY FirstIsIn
<1>6. {x} \ {First({x})} = {} BY <1>5
<1>7. Sum(g, {x} \ {First({x})}) = 0 BY <1>6, SumOfNone
<1>9. g[First({x})] = slots[x].n - prev[x].n BY <1>3, <1>5
<1>10. slots[x].n - prev[x].n \in Int OBVIOUS
<1>11. Sum(g, {x}) = slots[x].n - prev[x].n BY <1>4, <1>7, <1>9, <1>10
<1>. QED BY <1>2, <1>11

\* A frame credits a task with the progress of its slot, or not at all.
EarnedBy(p, prev, slots, t) ==
    \/ p = 0
    \/ \E s \in Counted(prev, slots) : slots[s].task = t /\ p = slots[s].n - prev[s].n

LEMMA CreditIs ==
    ASSUME MetricsInv, NEW home \in [1..Len(tasks) -> SlotIds], AtHome(home),
           NEW v, v = Slots(poll.slots), frames # <<>>, NEW t,
           NEW among, among = {s \in Counted(frames[1].slots, v) : v[s].task = t}
    PROVE  EarnedBy(Progress(frames[1].slots, v, among), frames[1].slots, v, t)
<1>4. PICK F : F = frames[1].slots OBVIOUS
<1>1. ASSUME NEW s \in Counted(F, v)
      PROVE  s \in Busy(F) /\ s \in Busy(v) /\ F[s].task = v[s].task /\ home[v[s].task] = s
             /\ v[s].n \in Nat /\ F[s].n \in Nat
    <2>1. s \in Busy(F) /\ s \in Busy(v) /\ F[s].task = v[s].task BY DEF Counted
    <2>. QED BY <2>1, <1>4, FrameShows DEF AtHome
<1>2. CASE among = {}
    <2>1. Progress(F, v, {}) = 0 BY ProgressOfNone
    <2>. QED BY <1>2, <1>4, <2>1 DEF EarnedBy
<1>3. CASE among # {}
    <2>1. PICK s \in among : TRUE BY <1>3
    <2>2. s \in Counted(F, v) /\ v[s].task = t BY <1>4
    <2>3. among = {s} BY <1>1, <1>4, <2>2
    <2>4. v[s].n \in Nat /\ F[s].n \in Nat BY <1>1, <2>2
    <2>5. Progress(F, v, {s}) = v[s].n - F[s].n BY ONLY <2>4, ProgressOfOne
    <2>. QED BY <1>4, <2>2, <2>3, <2>5 DEF EarnedBy
<1>. QED BY <1>2, <1>3

LEMMA RatesFrameMade ==
    ASSUME MetricsInv, RatesInv, MetricsInv', NEW soon \in BOOLEAN, FrameMade(soon) PROVE RatesInv'
<1>1. PICK v : v = Slots(poll.slots) OBVIOUS
<1>2. PICK rate : rate = IF frames = <<>> \/ soon THEN NoRate ELSE Rate(frames[1], v, poll.prom) OBVIOUS
<1>3. PICK home \in [1..Len(tasks) -> SlotIds] : AtHome(home) BY DEF MetricsInv
<1>4. /\ NoRead \notin {poll.slots, poll.prom}
      /\ credited' = [t \in TaskIds |->
                         IF rate.by # "slots" THEN credited[t]
                         ELSE credited[t] + Progress(frames[1].slots, v,
                                {s \in Counted(frames[1].slots, v) : v[s].task = t})]
      /\ poll' = NoPoll
      /\ UNCHANGED <<work, tasks, total>>
    BY <1>1, <1>2 DEF FrameMade, serverSide
<1>16. PICK broken : broken = (Failed \in {poll.slots, poll.prom} \/ overtaken) OBVIOUS
<1>17. IF broken
       THEN lapse' = [credited |-> credited', counter |-> Counter(poll.prom)] /\ counted' = 0
       ELSE counted' = counted + (IF rate.by = "counter" THEN rate.tokens ELSE 0) /\ UNCHANGED lapse
    BY <1>1, <1>2, <1>16 DEF FrameMade
<1>5. frames' # <<>> /\ frames'[1].counter = Counter(poll.prom) /\ frames'[1].slots = v
    BY <1>1 DEF FrameMade
<1>6. poll'.slots.is # "read" /\ poll'.prom.is # "read" BY <1>4 DEF NoPoll, Failed
<1>7. rate.by = "slots" => frames # <<>> BY <1>2 DEF NoRate
<1>8. credited \in [TaskIds -> Nat] BY DEF RatesInv, CreditsSound
\* What a task is credited with.
<1>9. ASSUME NEW t \in TaskIds
      PROVE  \/ credited'[t] = credited[t]
             \/ /\ frames # <<>>
                /\ \E s \in Counted(frames[1].slots, v) :
                       v[s].task = t /\ credited'[t] = credited[t] + (v[s].n - frames[1].slots[s].n)
    <2>1. credited[t] \in Nat BY <1>8
    <2>2. CASE rate.by # "slots" BY <2>2, <1>4
    <2>3. CASE rate.by = "slots"
        <3>6. PICK among : among = {s \in Counted(frames[1].slots, v) : v[s].task = t} OBVIOUS
        <3>. DEFINE p == Progress(frames[1].slots, v, among)
        <3>1. credited'[t] = credited[t] + p BY <2>3, <3>6, <1>4
        <3>5. frames # <<>> BY <2>3, <1>7
        <3>2. \/ p = 0
              \/ \E s \in Counted(frames[1].slots, v) : v[s].task = t /\ p = v[s].n - frames[1].slots[s].n
            <4>1. AtHome(home) /\ v = Slots(poll.slots) BY <1>1, <1>3
            <4>2. EarnedBy(Progress(frames[1].slots, v, among), frames[1].slots, v, t)
                BY <3>5, <3>6, <4>1, CreditIs
            <4>. QED BY <4>2 DEF EarnedBy
        <3>. HIDE DEF p
        <3>3. CASE p = 0 BY <2>1, <3>1, <3>3
        <3>4. CASE p # 0
            <4>1. PICK s \in Counted(frames[1].slots, v) :
                      v[s].task = t /\ p = v[s].n - frames[1].slots[s].n
                BY <3>2, <3>4
            <4>. QED BY <3>1, <4>1, <2>3, <1>7
        <3>. QED BY <3>3, <3>4
    <2>. QED BY <2>2, <2>3
<1>10. ASSUME frames # <<>>, NEW s \in Counted(frames[1].slots, v)
       PROVE  /\ s \in Busy(frames[1].slots) /\ s \in Busy(v)
              /\ frames[1].slots[s].task = v[s].task /\ home[v[s].task] = s
              /\ v[s].n \in Nat /\ frames[1].slots[s].n \in Nat
              /\ v[s].n >= frames[1].slots[s].n /\ v[s].n <= tasks[v[s].task]
              /\ v[s].task \in 1..Len(tasks)
              /\ credited[v[s].task] <= frames[1].slots[s].n
    <2>1. s \in Busy(frames[1].slots) /\ s \in Busy(v) /\ frames[1].slots[s].task = v[s].task
          /\ v[s].n >= frames[1].slots[s].n
        BY <1>10 DEF Counted
    <2>2. credited[frames[1].slots[s].task] <= frames[1].slots[s].n
        BY <1>10, <2>1 DEF RatesInv, CreditsSound, Covers
    <2>3. frames[1].slots[s].n \in Nat BY <1>3, <1>10, <2>1 DEF AtHome
    <2>. QED BY <1>1, <1>3, <2>1, <2>2, <2>3, FrameShows
\* No more than it has got, and no more than its slot shows.
<1>11. ASSUME NEW t \in TaskIds
       PROVE  /\ credited'[t] \in Nat /\ credited[t] <= credited'[t]
              /\ credited'[t] <= IF t <= Len(tasks) THEN tasks[t] ELSE 0
              /\ \A u \in Busy(v) : v[u].task = t => credited'[t] <= v[u].n
    <2>1. credited[t] \in Nat /\ credited[t] <= (IF t <= Len(tasks) THEN tasks[t] ELSE 0)
        BY DEF RatesInv, CreditsSound
    <2>2. CASE credited'[t] = credited[t]
        <3>1. ASSUME NEW u \in Busy(v), v[u].task = t PROVE credited[t] <= v[u].n
            <4>1. poll.slots.is = "read" /\ v = poll.slots.value BY <1>1, <1>3, FrameShows
            <4>. QED BY <3>1, <4>1 DEF RatesInv, CreditsSound, Covers
        <3>. QED BY <2>1, <2>2, <3>1
    <2>3. CASE credited'[t] # credited[t]
        <3>1. frames # <<>> BY <2>3, <1>9
        <3>2. PICK s \in Counted(frames[1].slots, v) :
                  v[s].task = t /\ credited'[t] = credited[t] + (v[s].n - frames[1].slots[s].n)
            BY <2>3, <1>9
        <3>. DEFINE new == v[s].n
                    old == frames[1].slots[s].n
        <3>3. new \in Nat /\ old \in Nat /\ new >= old /\ credited[t] <= old
              /\ new <= tasks[t] /\ t \in 1..Len(tasks) /\ home[t] = s
            BY <3>1, <3>2, <1>10
        <3>4. credited'[t] = credited[t] + (new - old) BY <3>2
        <3>5. \A u \in Busy(v) : v[u].task = t => v[u].n = new BY <3>3, <1>1, <1>3, FrameShows
        <3>. HIDE DEF new, old
        <3>6. credited'[t] \in Nat /\ credited'[t] <= new /\ credited[t] <= credited'[t] BY <2>1, <3>3, <3>4
        <3>7. tasks[t] \in Nat /\ Len(tasks) \in Nat BY <3>3, ServerTypes
        <3>8. credited'[t] <= tasks[t] /\ t <= Len(tasks) BY <3>3, <3>6, <3>7
        <3>. QED BY <3>5, <3>6, <3>8
    <2>. QED BY <2>2, <2>3
<1>12. CreditsSound'
    <2>1. credited' \in [TaskIds -> Nat]
        <3>1. credited' = [t \in TaskIds |-> credited'[t]] BY <1>4
        <3>. QED BY <3>1, <1>11
    <2>2. ASSUME NEW u \in Busy(v) PROVE credited'[v[u].task] <= v[u].n
        <3>1. v[u].task \in TaskIds
            BY <1>1, <1>3, FrameShows, ServerTypes, MetricsBounds DEF TaskIds
        <3>. QED BY <3>1, <1>11
    <2>3. \/ lapse'.credited = lapse.credited
          \/ lapse'.credited = credited'
        BY ONLY <1>17
    <2>4. lapse'.credited \in [TaskIds -> Nat] BY <2>1, <2>3 DEF RatesInv, CreditsSound
    <2>5. ASSUME NEW t \in TaskIds PROVE lapse'.credited[t] <= credited'[t]
        <3>1. credited'[t] \in Nat /\ credited[t] \in Nat /\ credited[t] <= credited'[t] BY <1>8, <1>11
        <3>2. lapse.credited[t] \in Nat /\ lapse.credited[t] <= credited[t] BY DEF RatesInv, CreditsSound
        <3>. QED BY <2>3, <3>1, <3>2
    <2>. QED BY <2>1, <2>2, <2>4, <2>5, <1>4, <1>5, <1>6, <1>11 DEF CreditsSound, Covers
<1>13. EndedTasks' = EndedTasks /\ LastShown' = Shown(v) BY <1>4, <1>5 DEF EndedTasks, LastShown, Shown, Busy
\* A poll that went wrong: its counter is all that is known to be counted.
<1>15. ASSUME broken PROVE Apart'
    <2>1. PICK all \in SUBSET EndedTasks : Counter(poll.prom) = Sum(tasks, all)
        <3>1. CASE poll.prom.is = "read"
            <4>1. PICK before \in SUBSET EndedTasks : \E now \in SUBSET EndedTasks : CountersAre(before, now)
                BY <3>1 DEF RatesInv, Apart
            <4>. QED BY <3>1, <4>1 DEF CountersAre, Counter
        <3>2. CASE poll.prom.is # "read"
            <4>1. Counter(poll.prom) = Sum(tasks, {}) BY <3>2, SumOfNone DEF Counter
            <4>. QED BY <4>1
        <3>. QED BY <3>1, <3>2
    <2>2. lapse'.credited = credited' /\ lapse'.counter = Counter(poll.prom) /\ counted' = 0 BY ONLY <1>15, <1>17
    <2>3. Sum(tasks, all) \in Nat
        <3>1. all \in SUBSET (1..Len(tasks)) BY EndedType
        <3>. QED BY <3>1, TasksAddUp
    <2>4. lapse'.counter \in Nat /\ lapse'.counter + counted' = Sum(tasks, all) BY <2>1, <2>2, <2>3
    <2>5. \A t \in TaskIds : ~(credited'[t] > lapse'.credited[t]) BY <2>2, <1>11
    <2>6. frames'[1].counter = Sum(tasks', all) /\ lapse'.counter + counted' = Sum(tasks', all)
        BY <2>1, <2>4, <1>4, <1>5
    <2>7. CountedApart(all, all)' BY <2>2, <2>4, <2>5, <2>6, <1>6 DEF CountedApart
    <2>. QED BY <2>7, <1>6, <1>13 DEF Apart
<1>14. ASSUME ~broken PROVE Apart'
    <2>1. /\ ~overtaken /\ Failed \notin {poll.slots, poll.prom} /\ lapse' = lapse
          /\ counted' = counted + (IF rate.by = "counter" THEN rate.tokens ELSE 0)
        BY <1>14, <1>16, <1>17
    <2>2. poll.slots.is = "read" /\ poll.prom.is = "read"
        BY <2>1, <1>4, ServerTypes, ReadsAre DEF SlotReads, CounterReads
    <2>3. v = poll.slots.value /\ Counter(poll.prom) = poll.prom.value BY <1>1, <2>2 DEF Slots, Counter
    <2>4. PICK before \in SUBSET EndedTasks : \E those \in SUBSET before :
              /\ CountedApart(before, those)
              /\ poll.prom.is = "read" => \E now \in SUBSET EndedTasks : CountersAre(before, now)
        BY DEF RatesInv, Apart
    <2>5. PICK those \in SUBSET before :
              /\ CountedApart(before, those)
              /\ poll.prom.is = "read" => \E now \in SUBSET EndedTasks : CountersAre(before, now)
        BY <2>4
    <2>6. PICK now \in SUBSET EndedTasks : CountersAre(before, now) BY <2>2, <2>5
    <2>7. before \subseteq now /\ poll.prom.value = Sum(tasks, now) /\ LastShown \subseteq Shown(v) \union now
        BY <2>1, <2>2, <2>3, <2>6 DEF CountersAre
    <2>8. PICK next : next = IF rate.by = "counter" THEN those \union (now \ before) ELSE those OBVIOUS
    <2>9. next \in SUBSET now BY <2>7, <2>8
    <2>10. Shown(v) \intersect before = {} BY <2>2, <2>3, <2>5 DEF CountedApart
    <2>11. lapse.counter + counted = Sum(tasks, those) /\ lapse.counter \in Nat BY <2>5 DEF CountedApart
    <2>14. counted \in Nat /\ lapse'.credited = lapse.credited /\ lapse'.counter = lapse.counter
        BY <2>1 DEF MetricsInv, MetricsTypeOK
    <2>12. CASE rate.by = "counter"
        <3>1. frames # <<>> /\ Rate(frames[1], v, poll.prom) = rate BY <2>12, <1>2 DEF NoRate
        <3>2. Busy(frames[1].slots) \union Busy(v) = {}
              /\ rate.tokens = Counter(poll.prom) - frames[1].counter
            BY <2>12, <3>1 DEF Rate, NoRate
        <3>3. LastShown = {} BY <3>1, <3>2 DEF LastShown, Shown
        <3>4. frames[1].counter = Sum(tasks, before) BY <2>5, <3>1 DEF CountedApart
        <3>5. credited' = credited
            <4>1. credited' = [t \in TaskIds |-> credited[t]] BY <2>12, <1>4
            <4>. QED BY <4>1, <1>8
        <3>6. ASSUME NEW t \in now \ before PROVE credited[t] = lapse.credited[t]
            <4>1. t \in TaskIds BY EndedType, TasksAddUp
            <4>2. ~(credited[t] > lapse.credited[t]) BY <4>1, <2>5, <3>3 DEF CountedApart
            <4>3. /\ credited[t] \in Nat /\ lapse.credited[t] \in Nat
                  /\ lapse.credited[t] <= credited[t]
                BY <4>1 DEF RatesInv, CreditsSound
            <4>. QED BY <4>2, <4>3
        <3>7. \A t \in next : credited'[t] = lapse'.credited[t]
            BY <2>5, <2>8, <2>12, <2>14, <3>5, <3>6 DEF CountedApart
        <3>8. lapse'.counter + counted' = Sum(tasks, next)
            <4>. DEFINE new == now \ before
            <4>1. now \in SUBSET (1..Len(tasks)) /\ before \in SUBSET (1..Len(tasks))
                  /\ new \in SUBSET (1..Len(tasks)) /\ those \in SUBSET (1..Len(tasks))
                  /\ next \in SUBSET (1..Len(tasks))
                BY EndedType, <2>7, <2>9
            <4>2. Sum(tasks, now) = Sum(tasks, before) + Sum(tasks, new)
                <5>1. now = before \union new /\ before \intersect new = {} BY <2>7
                <5>2. \A t \in before \union new : tasks[t] \in Int
                    <6>. HIDE DEF new
                    <6>1. (\A t \in before : tasks[t] \in Nat) /\ (\A t \in new : tasks[t] \in Nat)
                        BY <4>1, TasksAddUp
                    <6>. QED BY <6>1
                <5>3. IsFiniteSet(before) /\ IsFiniteSet(new) BY <4>1, TasksAddUp
                <5>. HIDE DEF new
                <5>4. Sum(tasks, before \union new) = Sum(tasks, before) + Sum(tasks, new)
                    BY <5>1, <5>2, <5>3, SumOfUnion
                <5>. QED BY <5>1, <5>4
            <4>3. Sum(tasks, next) = Sum(tasks, those) + Sum(tasks, new)
                <5>1. next = those \union new /\ those \intersect new = {} BY <2>8, <2>12
                <5>2. \A t \in those \union new : tasks[t] \in Int BY <4>1, TasksAddUp
                <5>3. IsFiniteSet(those) /\ IsFiniteSet(new) BY <4>1, TasksAddUp
                <5>. HIDE DEF new
                <5>4. Sum(tasks, those \union new) = Sum(tasks, those) + Sum(tasks, new)
                    BY <5>1, <5>2, <5>3, SumOfUnion
                <5>. QED BY <5>1, <5>4
            <4>4. Sum(tasks, before) \in Nat /\ Sum(tasks, new) \in Nat /\ Sum(tasks, those) \in Nat
                BY <4>1, TasksAddUp
            <4>5. counted' = counted + (Sum(tasks, now) - Sum(tasks, before))
                BY <2>1, <2>3, <2>7, <2>12, <3>2, <3>4
            <4>. HIDE DEF new
            <4>. QED BY <4>2, <4>3, <4>4, <4>5, <2>11, <2>14
        <3>9. \A t \in TaskIds : credited'[t] > lapse'.credited[t] => t \in now
            BY <2>5, <2>7, <2>14, <3>3, <3>5 DEF CountedApart
        <3>10. frames'[1].counter = Sum(tasks', now) /\ lapse'.counter + counted' = Sum(tasks', next)
            BY <2>3, <2>7, <3>8, <1>4, <1>5
        <3>11. CountedApart(now, next)' BY <2>11, <2>14, <3>7, <3>9, <3>10, <1>6 DEF CountedApart
        <3>. QED BY <3>11, <2>9, <1>6, <1>13 DEF Apart
    <2>13. CASE rate.by # "counter"
        <3>1. lapse'.counter + counted' = Sum(tasks, next)
            <4>1. counted' = counted + 0 /\ next = those BY <2>1, <2>8, <2>13
            <4>2. those \in SUBSET (1..Len(tasks)) BY EndedType
            <4>3. Sum(tasks, those) \in Nat BY <4>2, TasksAddUp
            <4>. QED BY <4>1, <4>3, <2>11, <2>14
        <3>2. ASSUME NEW t \in next PROVE credited'[t] = lapse'.credited[t]
            <4>1. t \in those /\ t \in before /\ credited[t] = lapse.credited[t] BY <2>5, <2>8, <2>13 DEF CountedApart
            <4>2. t \in TaskIds BY <4>1, EndedType, TasksAddUp
            <4>3. \A s \in Busy(v) : v[s].task # t BY <2>10, <4>1 DEF Shown
            <4>. QED BY <4>1, <4>2, <4>3, <2>14, <1>9, <1>10
        <3>3. ASSUME NEW t \in TaskIds, credited'[t] > lapse'.credited[t] PROVE t \in now \union Shown(v)
            <4>1. CASE credited'[t] = credited[t]
                <5>1. t \in before \union LastShown BY <3>3, <4>1, <2>5, <2>14 DEF CountedApart
                <5>. QED BY <5>1, <2>7
            <4>2. CASE credited'[t] # credited[t] BY <4>2, <1>9, <1>10 DEF Shown
            <4>. QED BY <4>1, <4>2
        <3>4. frames'[1].counter = Sum(tasks', now) /\ lapse'.counter + counted' = Sum(tasks', next)
            BY <2>3, <2>7, <3>1, <1>4, <1>5
        <3>5. CountedApart(now, next)' BY <2>11, <2>14, <3>2, <3>3, <3>4, <1>6, <1>13 DEF CountedApart
        <3>. QED BY <3>5, <2>9, <1>6, <1>13 DEF Apart
    <2>. QED BY <2>12, <2>13
<1>. QED BY <1>4, <1>12, <1>13, <1>14, <1>15 DEF RatesInv

-----------------------------------------------------------------------------
(* The rates: the theorem *)

LEMMA RatesStep == MetricsInv /\ RatesInv /\ MetricsInv' /\ [MetricsNext]_metricsVars => RatesInv'
<1>. SUFFICES ASSUME MetricsInv, RatesInv, MetricsInv', [MetricsNext]_metricsVars PROVE RatesInv' OBVIOUS
<1>1. ASSUME NEW s \in SlotIds, TaskBegins(s) PROVE RatesInv' BY <1>1, RatesTaskBegins
<1>2. ASSUME NEW s \in SlotIds, Decodes(s) PROVE RatesInv' BY <1>2, RatesDecodes
<1>3. ASSUME NEW s \in SlotIds, TaskEnds(s) PROVE RatesInv' BY <1>3, RatesTaskEnds
<1>4. CASE PollBegins \/ FrameTaken \/ UNCHANGED metricsVars BY <1>4, RatesPollBegins
<1>5. ASSUME NEW b \in BOOLEAN, SlotsRead(b) PROVE RatesInv' BY <1>5, RatesSlotsRead
<1>6. ASSUME NEW b \in BOOLEAN, CountersRead(b) PROVE RatesInv' BY <1>6, RatesCountersRead
<1>7. ASSUME NEW b \in BOOLEAN, FrameMade(b) PROVE RatesInv' BY <1>7, RatesFrameMade
<1>. QED BY <1>1, <1>2, <1>3, <1>4, <1>5, <1>6, <1>7 DEF MetricsNext

\* A task is in the counter's rates or in those of the slots, with no more
\* than its tokens: so are all tasks together.
LEMMA RatesInvIsEnough == MetricsInv /\ RatesInv => RatesAreEarned
<1>. SUFFICES ASSUME MetricsInv, RatesInv PROVE RatesAreEarned OBVIOUS
<1>1. \A t \in TaskIds : credited[t] <= IF t <= Len(tasks) THEN tasks[t] ELSE 0
    BY DEF RatesInv, CreditsSound
<1>2. credited \in [TaskIds -> Nat] BY DEF RatesInv, CreditsSound
<1>4. ASSUME NEW t \in TaskIds
      PROVE  SinceLapse[t] \in Nat /\ SinceLapse[t] <= credited[t]
             /\ (credited[t] = lapse.credited[t] => SinceLapse[t] = 0)
    <2>1. lapse.credited[t] \in Nat /\ credited[t] \in Nat /\ lapse.credited[t] <= credited[t]
        BY DEF RatesInv, CreditsSound
    <2>2. SinceLapse[t] = credited[t] - lapse.credited[t] BY DEF SinceLapse
    <2>. QED BY <2>1, <2>2
<1>3. MapThenSumSet(LAMBDA t : SinceLapse[t], TaskIds) + counted <= FoldSeq(+, 0, tasks) - lapse.counter
    <2>. DEFINE All == 1..Len(tasks)
    <2>1. MapThenSumSet(LAMBDA t : SinceLapse[t], TaskIds) = Sum(SinceLapse, TaskIds)
        BY DEF MapThenSumSet, Sum, SumFunctionOnSet, FoldFunctionOnSet
    <2>2. FoldSeq(+, 0, tasks) = Sum(tasks, All)
        <3>1. DOMAIN tasks = All BY ServerTypes
        <3>2. FoldSeq(+, 0, tasks) = Sum(tasks, DOMAIN tasks)
            BY DEF FoldSeq, FoldFunction, Sum, SumFunctionOnSet
        <3>. QED BY <3>1, <3>2
    <2>3. PICK before \in SUBSET EndedTasks : \E those \in SUBSET before : CountedApart(before, those)
        BY DEF RatesInv, Apart
    <2>4. PICK those \in SUBSET before : CountedApart(before, those) BY <2>3
    <2>6. those \in SUBSET All BY EndedType
    <2>5. /\ lapse.counter + counted = Sum(tasks, those) /\ lapse.counter \in Nat /\ counted \in Nat
          /\ \A t \in those : credited[t] = lapse.credited[t]
        BY <2>4 DEF CountedApart, MetricsInv, MetricsTypeOK
    <2>7. All \subseteq TaskIds /\ IsFiniteSet(TaskIds)
        BY ServerTypes, MetricsBounds, FS_Interval DEF TaskIds
    <2>8. \A t \in All : tasks[t] \in Nat /\ SinceLapse[t] \in Nat /\ SinceLapse[t] <= tasks[t]
        <3>1. \A t \in All : t \in TaskIds /\ t <= Len(tasks) BY <2>7, ServerTypes
        <3>2. \A t \in All : tasks[t] \in Nat BY ServerTypes
        <3>. QED BY <3>1, <3>2, <1>1, <1>2, <1>4
    <2>9. \A t \in TaskIds : t \notin All => SinceLapse[t] = 0
        <3>1. ASSUME NEW t \in TaskIds, t \notin All PROVE SinceLapse[t] = 0
            <4>1. ~(t <= Len(tasks)) BY <3>1, ServerTypes, MetricsBounds DEF TaskIds
            <4>2. credited[t] \in Nat /\ credited[t] <= 0 BY <4>1, <1>1, <1>2
            <4>. QED BY <4>2, <1>4
        <3>. QED BY <3>1
    <2>. HIDE DEF All
    <2>. DEFINE bySlots == All \ those
                rest == TaskIds \ bySlots
    <2>10. IsFiniteSet(All) /\ IsFiniteSet(those) /\ IsFiniteSet(bySlots) /\ IsFiniteSet(rest)
        BY <2>6, <2>7, FS_Subset
    <2>11. Sum(SinceLapse, TaskIds) = Sum(SinceLapse, bySlots) + Sum(SinceLapse, rest)
        <3>1. TaskIds = bySlots \union rest /\ bySlots \intersect rest = {} BY <2>7
        <3>2. \A t \in bySlots \union rest : SinceLapse[t] \in Int BY <1>4, <3>1
        <3>. HIDE DEF bySlots, rest
        <3>3. Sum(SinceLapse, bySlots \union rest) = Sum(SinceLapse, bySlots) + Sum(SinceLapse, rest)
            BY <2>10, <3>1, <3>2, SumOfUnion
        <3>. QED BY <3>1, <3>3
    <2>12. Sum(SinceLapse, rest) = 0
        <3>1. \A t \in rest : SinceLapse[t] = 0
            <4>1. \A t \in rest : t \in TaskIds /\ (t \in those \/ t \notin All) OBVIOUS
            <4>. QED BY <4>1, <2>5, <2>9, <1>4
        <3>. HIDE DEF rest
        <3>. QED BY <2>10, <3>1, SumOfZeros
    <2>13. Sum(SinceLapse, bySlots) <= Sum(tasks, bySlots) BY <2>8, <2>10, SumMonotone
    <2>14. Sum(tasks, All) = Sum(tasks, bySlots) + Sum(tasks, those)
        <3>1. All = bySlots \union those /\ bySlots \intersect those = {} BY <2>6
        <3>2. \A t \in bySlots \union those : tasks[t] \in Int BY <2>8, <3>1
        <3>. HIDE DEF bySlots
        <3>3. Sum(tasks, bySlots \union those) = Sum(tasks, bySlots) + Sum(tasks, those)
            BY <2>10, <3>1, <3>2, SumOfUnion
        <3>. QED BY <3>1, <3>3
    <2>15. Sum(SinceLapse, bySlots) \in Nat /\ Sum(tasks, bySlots) \in Nat /\ Sum(tasks, those) \in Nat
        BY <2>6, <2>8, <2>10, SumNat
    <2>. HIDE DEF bySlots, rest
    <2>16. Sum(SinceLapse, TaskIds) + counted <= Sum(tasks, All) - lapse.counter
        BY <2>5, <2>11, <2>12, <2>13, <2>14, <2>15
    <2>. QED BY <2>1, <2>2, <2>16
<1>. QED BY <1>1, <1>3 DEF RatesAreEarned

\* Whatever order slots and counters answer in, whichever of the reads fail and
\* whenever tasks begin and end: the slots never put more of a task in the rates
\* than it has got; from one lapse to the next (a poll with a failed read, or
\* with a task that ended after the counter was read and before the slots were)
\* no token is in two rates, and none that the lapse's counter had is in one; a
\* lapse may repeat what was counted before it.  A record, in active_jobs or
\* recent_jobs, claims no token that its task has not got, and a task has one
\* record, unless it had one when the slots could not be read.
THEOREM TokensAreCountedOnce == MetricsSpec => [](MetricsTypeOK /\ MetricsAreEarned)
<1>. DEFINE Inv == MetricsInv /\ RatesInv
<1>1. MetricsInit => Inv BY MetricsInitSound, RatesInitSound
<1>2. Inv /\ [MetricsNext]_metricsVars => Inv' BY MetricsStep, RatesStep
<1>3. Inv => MetricsTypeOK /\ MetricsAreEarned
    BY MetricsInvIsEnough, RatesInvIsEnough DEF MetricsAreEarned
<1>. QED BY <1>1, <1>2, <1>3, PTL DEF MetricsSpec

-----------------------------------------------------------------------------
(* The budget: what is on the cards *)

LEMMA BudgetTypes ==
    /\ IsFiniteSet(Cards) /\ IsFiniteSet(Servers) /\ IsFiniteSet(GpuProcesses) /\ Servers \subseteq GpuProcesses
    /\ Footprint \in [GpuProcesses -> [Cards -> Nat]] /\ Guesses \in [Servers -> Nat]
    /\ Foreign \in [Cards -> Nat] /\ Capacity \in [Cards -> Nat]
    /\ \A c \in Cards : Foreign[c] <= Capacity[c]
<1>1. IsFiniteSet(GpuProcesses) BY BudgetAssumption, FS_Union DEF GpuProcesses
<1>. QED BY <1>1, BudgetAssumption DEF GpuProcesses

\* What processes hold on a card.
Column(c) == [s \in GpuProcesses |-> Footprint[s][c]]
Load(c, S) == MapThenSumSet(LAMBDA s : Footprint[s][c], S)

LEMMA LoadIs ==
    ASSUME NEW c \in Cards, NEW S \in SUBSET GpuProcesses
    PROVE  IsFiniteSet(S) /\ Load(c, S) = Sum(Column(c), S) /\ Load(c, S) \in Nat
<1>. DEFINE P(it) == it = [s \in SUBSET S |->
                            IF s = {} THEN 0 ELSE Footprint[First(s)][c] + it[s \ {First(s)}]]
            the == CHOOSE it : P(it)
<1>1. IsFiniteSet(S) BY BudgetTypes, FS_Subset
<1>2. \A s \in S : Column(c)[s] \in Nat /\ Column(c)[s] = Footprint[s][c] BY BudgetTypes DEF Column
<1>3. ASSUME NEW it PROVE P(it) <=> IsSum(it, Column(c), S)
    <2>1. \A s \in SUBSET S : s # {} => Column(c)[First(s)] = Footprint[First(s)][c] BY <1>2, FirstIsIn
    <2>. QED BY <2>1 DEF IsSum
<1>4. \E it : P(it) BY <1>1, <1>3, SumsAre
<1>5. P(the) BY <1>4
<1>6. Load(c, S) = the[S] BY DEF Load, MapThenSumSet, MapThenFoldSet, First
<1>. HIDE DEF P, the
<1>7. the[S] = Sum(Column(c), S) BY <1>1, <1>3, <1>5, SumIsSum
<1>8. Sum(Column(c), S) \in Nat BY <1>1, <1>2, SumNat
<1>. QED BY <1>1, <1>6, <1>7, <1>8

LEMMA LoadOfPart ==
    ASSUME NEW c \in Cards, NEW S \in SUBSET GpuProcesses, NEW T \in SUBSET S
    PROVE  Load(c, T) <= Load(c, S)
<1>1. T \in SUBSET GpuProcesses OBVIOUS
<1>2. Load(c, T) = Sum(Column(c), T) BY <1>1, LoadIs
<1>3. Load(c, S) = Sum(Column(c), S) /\ IsFiniteSet(S) BY LoadIs
<1>4. \A s \in S : Column(c)[s] \in Nat BY BudgetTypes DEF Column
<1>. QED BY <1>2, <1>3, <1>4, SumOfPart


\* The budget's invariant: what runs fits.
Fits(S) == \A c \in Cards : Foreign[c] + Load(c, S) <= Capacity[c]
BudgetInv == BudgetTypeOK /\ Fits(up)

LEMMA RoomyIs == ASSUME NEW S PROVE Roomy(S) <=> Fits(S)
BY DEF Roomy, Fits, Load

LEMMA BudgetInitSound == BudgetInit => BudgetInv
<1>. SUFFICES ASSUME BudgetInit PROVE BudgetInv OBVIOUS
<1>1. ASSUME NEW c \in Cards PROVE Foreign[c] + Load(c, up) <= Capacity[c]
    <2>1. up = {} BY DEF BudgetInit
    <2>2. Load(c, {}) = Sum(Column(c), {}) BY LoadIs
    <2>3. Load(c, up) = 0 BY <2>1, <2>2, SumOfNone
    <2>. QED BY <2>3, BudgetTypes
<1>2. BudgetTypeOK BY DEF BudgetTypeOK, BudgetInit
<1>. QED BY <1>1, <1>2 DEF BudgetInv, Fits

LEMMA BudgetStep == BudgetInv /\ [BudgetNext]_budgetVars => BudgetInv'
<1>. SUFFICES ASSUME BudgetInv, [BudgetNext]_budgetVars PROVE BudgetInv' OBVIOUS
<1>1. up \subseteq GpuProcesses /\ resident \subseteq up /\ Fits(up) BY DEF BudgetInv, BudgetTypeOK
<1>2. ASSUME BudgetTypeOK', NEW S, S = up', Fits(S) PROVE BudgetInv'
    BY <1>2 DEF BudgetInv, Fits
<1>3. CASE ServerStarts
    <2>1. PICK s \in GpuProcesses \ up :
              Roomy(up \union {s}) /\ up' = up \union {s} /\ UNCHANGED <<resident, readable, unmapped, blind>>
        BY <1>3 DEF ServerStarts
    <2>2. Fits(up \union {s}) BY <2>1, RoomyIs
    <2>3. BudgetTypeOK' BY <1>1, <2>1 DEF BudgetTypeOK
    <2>. QED BY <1>2, <2>1, <2>2, <2>3
<1>4. CASE ServerLoads
    <2>1. BudgetTypeOK' /\ up' = up BY <1>1, <1>4 DEF ServerLoads, BudgetTypeOK
    <2>. QED BY <1>1, <1>2, <2>1
<1>5. CASE ServerStops
    <2>1. PICK s \in up : up' = up \ {s} /\ resident' = resident \ {s} BY <1>5 DEF ServerStops
    <2>2. ASSUME NEW c \in Cards PROVE Foreign[c] + Load(c, up \ {s}) <= Capacity[c]
        <3>1. up \ {s} \in SUBSET up /\ up \in SUBSET GpuProcesses /\ up \ {s} \in SUBSET GpuProcesses BY <1>1
        <3>2. Load(c, up \ {s}) <= Load(c, up) BY <3>1, LoadOfPart
        <3>3. Load(c, up \ {s}) \in Nat /\ Load(c, up) \in Nat BY <3>1, LoadIs
        <3>4. Foreign[c] + Load(c, up) <= Capacity[c] BY <1>1 DEF Fits
        <3>. QED BY <3>2, <3>3, <3>4, BudgetTypes
    <2>3. Fits(up \ {s}) BY <2>2 DEF Fits
    <2>4. BudgetTypeOK' BY <1>1, <2>1 DEF BudgetTypeOK
    <2>. QED BY <1>2, <2>1, <2>3, <2>4
<1>6. CASE UNCHANGED budgetVars
    <2>1. BudgetTypeOK' /\ up' = up BY <1>1, <1>6 DEF budgetVars, BudgetTypeOK
    <2>. QED BY <1>1, <1>2, <2>1
<1>. QED BY <1>3, <1>4, <1>5, <1>6 DEF BudgetNext

-----------------------------------------------------------------------------
(* The budget: what the operators of a plan compute, as sums of functions *)

UsedAt == [c \in Cards |-> Used(c)]
FreeAt == [c \in Cards |-> Free(c)]
HeldAt == [row \in Pairs(GpuProcesses, Cards) |-> Footprint[row[1]][row[2]]]
LoadAt(S) == [c \in Cards |-> Load(c, S)]
BackAt(S) == [c \in Cards |-> Free(c) + Load(c, S)]

LEMMA CardsAreSound ==
    ASSUME BudgetInv, NEW c \in Cards
    PROVE  Used(c) \in Nat /\ Free(c) \in Nat
<1>1. resident \in SUBSET up /\ up \in SUBSET GpuProcesses /\ resident \in SUBSET GpuProcesses
    BY DEF BudgetInv, BudgetTypeOK
<1>2. Used(c) = Foreign[c] + Load(c, resident) BY DEF Used, Load
<1>3. Load(c, resident) \in Nat /\ Load(c, up) \in Nat BY <1>1, LoadIs
<1>4. Load(c, resident) <= Load(c, up) BY <1>1, LoadOfPart
<1>5. Foreign[c] + Load(c, up) <= Capacity[c] BY DEF BudgetInv, Fits
<1>. QED BY <1>2, <1>3, <1>4, <1>5, BudgetTypes DEF Free

LEMMA SeenIsPicked ==
    ASSUME NEW pin \in SUBSET Cards
    PROVE  /\ Seen(pin) \subseteq Picked(pin) /\ Picked(pin) \subseteq Cards
           /\ IsFiniteSet(Seen(pin)) /\ IsFiniteSet(Picked(pin))
<1>1. Seen(pin) \subseteq Picked(pin) /\ Picked(pin) \subseteq Cards BY DEF Seen, Picked
<1>. QED BY <1>1, BudgetTypes, FS_Subset

LEMMA TotalOnIs ==
    ASSUME NEW S \in SUBSET Cards
    PROVE  TotalOn(S) = Sum(Capacity, S) /\ TotalOn(S) \in Nat
<1>1. TotalOn(S) = Sum(Capacity, S)
    BY DEF TotalOn, MapThenSumSet, Sum, SumFunctionOnSet, FoldFunctionOnSet, MapThenFoldSet
<1>2. IsFiniteSet(S) BY BudgetTypes, FS_Subset
<1>3. \A c \in S : Capacity[c] \in Nat BY BudgetTypes
<1>. QED BY <1>1, <1>2, <1>3, SumNat

LEMMA GuessedIs == ASSUME NEW S \in SUBSET Servers PROVE Guessed(S) \in Nat
<1>1. Guessed(S) = Sum(Guesses, S)
    BY DEF Guessed, MapThenSumSet, Sum, SumFunctionOnSet, FoldFunctionOnSet, MapThenFoldSet
<1>2. IsFiniteSet(S) BY BudgetTypes, FS_Subset
<1>3. \A s \in S : Guesses[s] \in Nat BY BudgetTypes
<1>. QED BY <1>1, <1>2, <1>3, SumNat

LEMMA FreeOnIs ==
    ASSUME BudgetInv, NEW S \in SUBSET Cards
    PROVE  FreeOn(S) = Sum(FreeAt, S) /\ FreeOn(S) \in Nat
<1>. DEFINE P(it) == it = [s \in SUBSET S |->
                            IF s = {} THEN 0 ELSE Free(First(s)) + it[s \ {First(s)}]]
            the == CHOOSE it : P(it)
<1>1. IsFiniteSet(S) BY BudgetTypes, FS_Subset
<1>2. \A c \in S : FreeAt[c] \in Nat /\ FreeAt[c] = Free(c) BY CardsAreSound DEF FreeAt
<1>3. ASSUME NEW it PROVE P(it) <=> IsSum(it, FreeAt, S)
    <2>1. \A s \in SUBSET S : s # {} => FreeAt[First(s)] = Free(First(s)) BY <1>2, FirstIsIn
    <2>. QED BY <2>1 DEF IsSum
<1>4. \E it : P(it) BY <1>1, <1>3, SumsAre
<1>5. P(the) BY <1>4
<1>6. FreeOn(S) = the[S] BY DEF FreeOn, MapThenSumSet, MapThenFoldSet, First
<1>. HIDE DEF P, the
<1>7. the[S] = Sum(FreeAt, S) BY <1>1, <1>3, <1>5, SumIsSum
<1>8. Sum(FreeAt, S) \in Nat BY <1>1, <1>2, SumNat
<1>. QED BY <1>6, <1>7, <1>8

LEMMA UsedOnIs == ASSUME BudgetInv, NEW S \in SUBSET Cards PROVE UsedOn(S) \in Nat
<1>. DEFINE P(it) == it = [s \in SUBSET S |->
                            IF s = {} THEN 0 ELSE Used(First(s)) + it[s \ {First(s)}]]
            the == CHOOSE it : P(it)
<1>1. IsFiniteSet(S) BY BudgetTypes, FS_Subset
<1>2. \A c \in S : UsedAt[c] \in Nat /\ UsedAt[c] = Used(c) BY CardsAreSound DEF UsedAt
<1>3. ASSUME NEW it PROVE P(it) <=> IsSum(it, UsedAt, S)
    <2>1. \A s \in SUBSET S : s # {} => UsedAt[First(s)] = Used(First(s)) BY <1>2, FirstIsIn
    <2>. QED BY <2>1 DEF IsSum
<1>4. \E it : P(it) BY <1>1, <1>3, SumsAre
<1>5. P(the) BY <1>4
<1>6. UsedOn(S) = the[S] BY DEF UsedOn, MapThenSumSet, MapThenFoldSet, First
<1>. HIDE DEF P, the
<1>7. the[S] = Sum(UsedAt, S) BY <1>1, <1>3, <1>5, SumIsSum
<1>8. Sum(UsedAt, S) \in Nat BY <1>1, <1>2, SumNat
<1>. QED BY <1>6, <1>7, <1>8

LEMMA FreeWithoutIs ==
    ASSUME BudgetInv, NEW pin \in SUBSET Cards, NEW F \in SUBSET GpuProcesses
    PROVE  FreeWithout(pin, F) = Sum(BackAt(resident \intersect F), Picked(pin))
<1>. DEFINE S == Picked(pin)
            g == BackAt(resident \intersect F)
            e(c) == Free(c) + Load(c, resident \intersect F)
            P(it) == it = [s \in SUBSET S |->
                            IF s = {} THEN 0 ELSE e(First(s)) + it[s \ {First(s)}]]
            the == CHOOSE it : P(it)
<1>1. IsFiniteSet(S) /\ S \subseteq Cards BY SeenIsPicked
<1>2. \A c \in S : g[c] = e(c) BY <1>1 DEF BackAt
<1>6. FreeWithout(pin, F) = the[S] BY DEF FreeWithout, MapThenSumSet, MapThenFoldSet, First, Load
<1>. HIDE DEF S, g, e
<1>3. ASSUME NEW it PROVE P(it) <=> IsSum(it, g, S)
    <2>1. \A s \in SUBSET S : s # {} => g[First(s)] = e(First(s)) BY <1>2, FirstIsIn
    <2>. QED BY <2>1 DEF IsSum
<1>4. \E it : P(it) BY <1>1, <1>3, SumsAre
<1>5. P(the) BY <1>4
<1>. HIDE DEF P, the
<1>7. the[S] = Sum(g, S) BY <1>1, <1>3, <1>5, SumIsSum
<1>. QED BY <1>6, <1>7 DEF S, g

LEMMA FreeWithoutInt ==
    ASSUME BudgetInv, NEW pin \in SUBSET Cards, NEW F \in SUBSET GpuProcesses
    PROVE  FreeWithout(pin, F) \in Int
<1>1. PICK A, B, g : A = resident \intersect F /\ B = Picked(pin) /\ g = BackAt(A) OBVIOUS
<1>2. A \in SUBSET GpuProcesses /\ IsFiniteSet(B) /\ B \subseteq Cards BY <1>1, SeenIsPicked
<1>3. \A c \in B : g[c] \in Int BY <1>1, <1>2, CardsAreSound, LoadIs DEF BackAt
<1>4. Sum(g, B) \in Int BY <1>2, <1>3, SumInt
<1>. QED BY <1>1, <1>4, FreeWithoutIs

LEMMA HeldIs ==
    ASSUME BudgetInv, NEW pin \in SUBSET Cards, NEW S \in SUBSET GpuProcesses
    PROVE  LET R == Rows(S \intersect resident, pin)
           IN  /\ R \subseteq Pairs(S \intersect resident, Cards)
               /\ CardsAreTold => R \subseteq Pairs(S \intersect resident, Picked(pin))
               /\ IsFiniteSet(R) /\ \A row \in R : HeldAt[row] \in Nat
               /\ Held(S, pin) = Sum(HeldAt, R) /\ Held(S, pin) \in Nat
<1>. DEFINE R == Rows(S \intersect resident, pin)
            e(row) == Footprint[row[1]][row[2]]
            P(it) == it = [s \in SUBSET R |->
                            IF s = {} THEN 0 ELSE e(First(s)) + it[s \ {First(s)}]]
            the == CHOOSE it : P(it)
<1>1. R \subseteq Pairs(S \intersect resident, Cards) /\ R \subseteq Pairs(GpuProcesses, Cards)
    BY DEF Rows, Pairs
<1>0. ASSUME CardsAreTold PROVE R \subseteq Pairs(S \intersect resident, Picked(pin))
    <2>1. ASSUME NEW row \in R PROVE row[2] \in Picked(pin)
        <3>1. row[2] \in Cards /\ InScope(row[2], pin) BY DEF Rows
        <3>2. row[2] \in Seen(pin) BY <1>0, <3>1, SeenIsPicked DEF InScope, CardsAreTold
        <3>. QED BY <3>2, SeenIsPicked
    <2>. QED BY <1>1, <2>1 DEF Pairs
<1>2. IsFiniteSet(R)
    <2>1. IsFiniteSet(Pairs(GpuProcesses, Cards)) BY BudgetTypes, FS_Product DEF Pairs
    <2>. QED BY <1>1, <2>1, FS_Subset
<1>3. \A row \in R : HeldAt[row] = e(row) BY <1>1 DEF HeldAt
<1>4. \A row \in R : e(row) \in Nat BY <1>1, BudgetTypes DEF Pairs
<1>5. Held(S, pin) = the[R] BY DEF Held, MapThenSumSet, MapThenFoldSet, First
<1>. HIDE DEF R, e
<1>6. ASSUME NEW it PROVE P(it) <=> IsSum(it, HeldAt, R)
    <2>1. \A s \in SUBSET R : s # {} => HeldAt[First(s)] = e(First(s)) BY <1>3, FirstIsIn
    <2>. QED BY <2>1 DEF IsSum
<1>7. \E it : P(it) BY <1>2, <1>6, SumsAre
<1>8. P(the) BY <1>7
<1>. HIDE DEF P, the
<1>9. the[R] = Sum(HeldAt, R) BY <1>2, <1>6, <1>8, SumIsSum
<1>10. \A row \in R : HeldAt[row] \in Nat BY <1>3, <1>4
<1>11. Sum(HeldAt, R) \in Nat BY <1>2, <1>10, SumNat
<1>. QED BY <1>0, <1>1, <1>2, <1>5, <1>9, <1>10, <1>11 DEF R

-----------------------------------------------------------------------------
(* The budget: what a plan is promised *)

LEMMA LeastOfTwo ==
    ASSUME NEW a \in Int, NEW b \in Int
    PROVE  Min({a, b}) \in Int /\ Min({a, b}) <= a /\ Min({a, b}) <= b
<1>1. \E x \in {a, b} : \A y \in {a, b} : x <= y
    <2>1. CASE a <= b BY <2>1
    <2>2. CASE ~(a <= b) BY <2>2
    <2>. QED BY <2>1, <2>2
<1>2. Min({a, b}) \in {a, b} /\ \A y \in {a, b} : Min({a, b}) <= y BY <1>1 DEF Min
<1>. QED BY <1>2

\* The memory that processes hold in the scope of a plan comes on top of what is free.
LEMMA HeldFits ==
    ASSUME BudgetInv, CardsAreTold, NEW pin \in SUBSET Cards, NEW F \in SUBSET GpuProcesses, NEW S \in SUBSET F
    PROVE  FreeOn(Seen(pin)) + Held(S, pin) <= FreeWithout(pin, F)
<1>1. PICK A : A = resident \intersect F OBVIOUS
<1>2. PICK B : B = Picked(pin) OBVIOUS
<1>3. PICK R : R = Rows(S \intersect resident, pin) OBVIOUS
<1>4. PICK t : t = LoadAt(A) OBVIOUS
<1>5. PICK g : g = BackAt(A) OBVIOUS
<1>6. B \subseteq Cards /\ Seen(pin) \in SUBSET B /\ IsFiniteSet(B) BY <1>2, SeenIsPicked
<1>7. A \in SUBSET GpuProcesses /\ IsFiniteSet(A) BY <1>1, BudgetTypes, FS_Subset
<1>8. Held(S, pin) <= Sum(t, B)
    <2>1. Held(S, pin) = Sum(HeldAt, R) /\ R \subseteq Pairs(S \intersect resident, B)
        BY <1>2, <1>3, HeldIs
    <2>2. PICK Q : Q = Pairs(A, B) OBVIOUS
    <2>3. R \in SUBSET Q /\ Q \subseteq Pairs(GpuProcesses, Cards) BY <1>1, <1>6, <2>1, <2>2 DEF Pairs
    <2>4. IsFiniteSet(Q) BY <1>6, <1>7, <2>2, FS_Product DEF Pairs
    <2>5. \A row \in Q : HeldAt[row] = Footprint[row[1]][row[2]] BY <2>3 DEF HeldAt
    <2>6. \A row \in Q : row[1] \in GpuProcesses /\ row[2] \in Cards BY <1>6, <1>7, <2>2 DEF Pairs
    <2>7. \A row \in Q : HeldAt[row] \in Nat BY <2>5, <2>6, BudgetTypes
    <2>8. Sum(HeldAt, R) <= Sum(HeldAt, Q) BY <2>3, <2>4, <2>7, SumOfPart
    <2>9. Sum(HeldAt, Q) = Sum(t, B)
        <3>1. PICK k : k = [c \in Cards |-> Column(c)] OBVIOUS
        <3>2. \A row \in Q : HeldAt[row] \in Int /\ HeldAt[row] = k[row[2]][row[1]]
            BY <2>5, <2>6, <2>7, <3>1 DEF Column
        <3>3. \A c \in B : t[c] = Sum(k[c], A)
            <4>1. ASSUME NEW c \in B PROVE t[c] = Sum(k[c], A)
                <5>1. c \in Cards /\ t[c] = Load(c, A) /\ k[c] = Column(c)
                    BY <1>4, <1>6, <3>1 DEF LoadAt
                <5>2. Load(c, A) = Sum(Column(c), A) BY <1>7, <5>1, LoadIs
                <5>. QED BY <5>1, <5>2
            <4>. QED BY <4>1
        <3>. QED BY <1>6, <1>7, <2>2, <3>2, <3>3, SumOfTable
    <2>. QED BY <2>1, <2>8, <2>9
<1>9. FreeOn(Seen(pin)) <= FreeOn(B) /\ FreeOn(B) = Sum(FreeAt, B)
    <2>1. Seen(pin) \in SUBSET Cards /\ B \in SUBSET Cards BY <1>6
    <2>2. FreeOn(Seen(pin)) = Sum(FreeAt, Seen(pin)) BY <2>1, FreeOnIs
    <2>3. FreeOn(B) = Sum(FreeAt, B) BY <2>1, FreeOnIs
    <2>4. \A c \in B : FreeAt[c] \in Nat BY <1>6, CardsAreSound DEF FreeAt
    <2>. QED BY <1>6, <2>2, <2>3, <2>4, SumOfPart
<1>10. Sum(g, B) = Sum(FreeAt, B) + Sum(t, B)
    <2>1. \A c \in B : FreeAt[c] \in Int /\ t[c] \in Int /\ g[c] = FreeAt[c] + t[c]
        BY <1>4, <1>5, <1>6, <1>7, CardsAreSound, LoadIs DEF FreeAt, LoadAt, BackAt
    <2>. QED BY <1>6, <2>1, SumOfSums
<1>11. FreeWithout(pin, F) = Sum(g, B) BY <1>1, <1>2, <1>5, FreeWithoutIs
<1>12. Held(S, pin) \in Nat BY HeldIs
<1>13. FreeOn(Seen(pin)) \in Nat /\ FreeOn(B) \in Nat BY <1>6, FreeOnIs
<1>14. Sum(t, B) \in Int
    <2>1. \A c \in B : t[c] \in Int BY <1>4, <1>6, <1>7, LoadIs DEF LoadAt
    <2>. QED BY <1>6, <2>1, SumInt
<1>. QED BY <1>8, <1>9, <1>10, <1>11, <1>12, <1>13, <1>14

\* What stops and what goes on share no row.
LEMMA HeldApart ==
    ASSUME BudgetInv, NEW pin \in SUBSET Cards, NEW S \in SUBSET up
    PROVE  Held(S, pin) + Held(up \ S, pin) = Held(up, pin)
<1>1. PICK Q, R, T : /\ Q = Rows(S \intersect resident, pin)
                     /\ R = Rows((up \ S) \intersect resident, pin)
                     /\ T = Rows(up \intersect resident, pin)
    OBVIOUS
<1>2. up \in SUBSET GpuProcesses /\ S \in SUBSET GpuProcesses /\ up \ S \in SUBSET GpuProcesses
    BY DEF BudgetInv, BudgetTypeOK
<1>3. Held(S, pin) = Sum(HeldAt, Q) /\ IsFiniteSet(Q) BY <1>1, <1>2, HeldIs
<1>4. Held(up \ S, pin) = Sum(HeldAt, R) /\ IsFiniteSet(R) BY <1>1, <1>2, HeldIs
<1>5. Held(up, pin) = Sum(HeldAt, T) /\ \A row \in T : HeldAt[row] \in Nat BY <1>1, <1>2, HeldIs
<1>6. T = Q \union R /\ Q \intersect R = {} BY <1>1 DEF Rows
<1>7. \A row \in Q \union R : HeldAt[row] \in Int BY <1>5, <1>6
<1>8. Sum(HeldAt, Q \union R) = Sum(HeldAt, Q) + Sum(HeldAt, R) BY <1>3, <1>4, <1>6, <1>7, SumOfUnion
<1>. QED BY <1>3, <1>4, <1>5, <1>6, <1>8

\* A number that is capped by the size of the cards.
LEMMA CappedIs ==
    ASSUME NEW pin \in SUBSET Cards, NEW n \in Int, NEW none \in Int, none <= n
    PROVE  /\ Capped(pin, n, none) \in Int /\ Capped(pin, n, none) <= n
           /\ Capped(pin, n, none) <= PlanTotal(pin) \/ Capped(pin, n, none) = none
<1>1. PlanTotal(pin) \in Int
    <2>1. Seen(pin) \in SUBSET Cards BY SeenIsPicked
    <2>. QED BY <2>1, TotalOnIs DEF PlanTotal
<1>2. CASE PlanTotal(pin) = 0 BY <1>2 DEF Capped
<1>3. CASE PlanTotal(pin) # 0
    <2>1. Capped(pin, n, none) = Min({PlanTotal(pin), n}) BY <1>3 DEF Capped
    <2>. QED BY <1>1, <2>1, LeastOfTwo
<1>. QED BY <1>2, <1>3

LEMMA PlansAreHonest ==
    ASSUME BudgetInv, NEW pin \in SUBSET Cards, NEW freeing \in SUBSET Servers
    PROVE  /\ PlanRoom(pin, freeing) <= TotalOn(Picked(pin))
           /\ Covered(pin) /\ CardsAreTold =>
                 /\ PlanFree(pin, freeing) <= FreeWithout(pin, freeing)
                 /\ PlanRoom(pin, freeing) <= FreeWithout(pin, GpuProcesses)
<1>. DEFINE st == Stopping(pin, freeing)
            free == FreeOn(Seen(pin)) + Freed(pin, freeing)
            fresh == PlanFree(pin, freeing)
            more == Reclaimable(pin, freeing)
<1>1. Seen(pin) \in SUBSET Cards /\ Seen(pin) \in SUBSET Picked(pin) /\ Picked(pin) \in SUBSET Cards
      /\ IsFiniteSet(Picked(pin))
    BY SeenIsPicked
<1>2. up \in SUBSET GpuProcesses /\ freeing \in SUBSET GpuProcesses BY BudgetTypes DEF BudgetInv, BudgetTypeOK
<1>3. /\ st \in SUBSET GpuProcesses /\ st \in SUBSET up /\ st \in SUBSET freeing
      /\ up \ st \in SUBSET GpuProcesses /\ Running(pin) \ freeing \in SUBSET Servers /\ st \in SUBSET Servers
    BY <1>2, BudgetTypes DEF Stopping, Running
<1>. HIDE DEF st
<1>4. UsedOn(Seen(pin)) \in Nat /\ FreeOn(Seen(pin)) \in Nat BY <1>1, UsedOnIs, FreeOnIs
<1>5. Held(st, pin) \in Nat /\ Held(up \ st, pin) \in Nat BY <1>3, HeldIs
<1>6. Guessed(st) \in Nat /\ Guessed(Running(pin) \ freeing) \in Nat BY <1>3, GuessedIs
<1>7. Freed(pin, freeing) \in Int /\ (Covered(pin) => Freed(pin, freeing) = Held(st, pin))
    <2>1. CASE Covered(pin) BY <1>5, <2>1 DEF Freed, st
    <2>2. CASE ~Covered(pin)
        <3>1. PICK a, b : a = UsedOn(Seen(pin)) /\ b = Guessed(st) OBVIOUS
        <3>2. Freed(pin, freeing) = Min({a, b}) BY <2>2, <3>1 DEF Freed, st
        <3>3. a \in Int /\ b \in Int BY <1>4, <1>6, <3>1
        <3>4. Min({a, b}) \in Int BY <3>3, LeastOfTwo
        <3>. QED BY <2>2, <3>2, <3>4
    <2>. QED BY <2>1, <2>2
<1>8. more \in Int /\ (Covered(pin) => more = Held(up \ st, pin))
    <2>1. CASE Covered(pin) BY <1>5, <2>1 DEF Reclaimable, st
    <2>2. CASE ~Covered(pin)
        <3>1. PICK a, b : /\ a = UsedOn(Seen(pin)) - Freed(pin, freeing)
                          /\ b = Guessed(Running(pin) \ freeing)
            OBVIOUS
        <3>2. more = Min({a, b}) BY <2>2, <3>1 DEF Reclaimable
        <3>. HIDE DEF more
        <3>3. a \in Int /\ b \in Int BY <1>4, <1>6, <1>7, <3>1
        <3>4. Min({a, b}) \in Int BY <3>3, LeastOfTwo
        <3>. QED BY <2>2, <3>2, <3>4
    <2>. QED BY <2>1, <2>2
<1>9. free \in Int BY <1>4, <1>7
<1>10. fresh = Capped(pin, free, free) BY DEF PlanFree
<1>11. PlanRoom(pin, freeing) = Capped(pin, fresh + more, 0) BY DEF PlanRoom
<1>. HIDE DEF free, fresh, more
<1>12. fresh \in Int /\ fresh <= free BY <1>9, <1>10, CappedIs
<1>13. PlanTotal(pin) \in Nat /\ TotalOn(Picked(pin)) \in Nat /\ PlanTotal(pin) <= TotalOn(Picked(pin))
    <2>1. TotalOn(Seen(pin)) = Sum(Capacity, Seen(pin)) /\ TotalOn(Seen(pin)) \in Nat BY <1>1, TotalOnIs
    <2>2. TotalOn(Picked(pin)) = Sum(Capacity, Picked(pin)) /\ TotalOn(Picked(pin)) \in Nat
        BY <1>1, TotalOnIs
    <2>3. \A c \in Picked(pin) : Capacity[c] \in Nat BY <1>1, BudgetTypes
    <2>4. Sum(Capacity, Seen(pin)) <= Sum(Capacity, Picked(pin)) BY <1>1, <2>3, SumOfPart
    <2>. QED BY <2>1, <2>2, <2>4 DEF PlanTotal
<1>14. PICK n : n = fresh + more OBVIOUS
<1>15. n \in Int BY <1>8, <1>12, <1>14
<1>16. PlanTotal(pin) = 0 => PlanRoom(pin, freeing) = 0 BY <1>11 DEF Capped
<1>17. PlanTotal(pin) # 0 => PlanRoom(pin, freeing) <= n /\ PlanRoom(pin, freeing) <= PlanTotal(pin)
                            /\ PlanRoom(pin, freeing) \in Int
    BY <1>11, <1>13, <1>14, <1>15, LeastOfTwo DEF Capped
<1>18. PlanRoom(pin, freeing) <= TotalOn(Picked(pin)) BY <1>13, <1>16, <1>17
<1>19. ASSUME Covered(pin), CardsAreTold PROVE PlanFree(pin, freeing) <= FreeWithout(pin, freeing)
    <2>1. FreeOn(Seen(pin)) + Held(st, pin) <= FreeWithout(pin, freeing) BY <1>2, <1>3, <1>19, HeldFits
    <2>2. FreeWithout(pin, freeing) \in Int BY <1>2, FreeWithoutInt
    <2>. QED BY <1>4, <1>5, <1>7, <1>12, <1>19, <2>1, <2>2 DEF free, fresh
<1>20. ASSUME Covered(pin), CardsAreTold PROVE PlanRoom(pin, freeing) <= FreeWithout(pin, GpuProcesses)
    <2>1. Held(st, pin) + Held(up \ st, pin) = Held(up, pin) BY <1>3, HeldApart
    <2>2. FreeOn(Seen(pin)) + Held(up, pin) <= FreeWithout(pin, GpuProcesses) BY <1>2, <1>20, HeldFits
    <2>3. FreeWithout(pin, GpuProcesses) \in Int BY FreeWithoutInt
    <2>4. Held(up, pin) \in Nat BY <1>2, HeldIs
    <2>5. n <= FreeWithout(pin, GpuProcesses)
        BY <1>4, <1>5, <1>7, <1>8, <1>12, <1>14, <1>20, <2>1, <2>2, <2>3, <2>4 DEF free
    <2>. QED BY <1>4, <1>15, <1>16, <1>17, <2>2, <2>3, <2>4, <2>5
<1>. QED BY <1>18, <1>19, <1>20

\* Where processes are attributed, and those that do not tell their card can
\* be on one only, no plan is promised memory that the stops do not give back,
\* of the presets it names or of every llama process, and none is promised more
\* than its cards have: plan_budget(), for every set of cards, presets, other
\* processes, pins and footprints.
THEOREM MemoryIsPromisedOnce == BudgetSpec => [](BudgetTypeOK /\ BudgetIsHonest)
<1>1. BudgetInv => BudgetTypeOK /\ BudgetIsHonest
    <2>1. BudgetInv => BudgetIsHonest BY PlansAreHonest DEF BudgetIsHonest
    <2>. QED BY <2>1 DEF BudgetInv
<1>. QED BY <1>1, BudgetInitSound, BudgetStep, PTL DEF BudgetSpec

-----------------------------------------------------------------------------
(* Both *)

\* Whatever servers, slots, polls and plans do: between lapses no token is in two
\* rates, and a lapse repeats what was counted before it and no more; where the
\* cards' processes are told, no byte is promised twice.  MetricsService and
\* plan_budget(), in every scene.
THEOREM NothingIsCountedTwice == MetricsSpec /\ BudgetSpec => []NothingCountsTwice
<1>1. (MetricsTypeOK /\ MetricsAreEarned) /\ (BudgetTypeOK /\ BudgetIsHonest) => NothingCountsTwice
    BY DEF NothingCountsTwice
<1>. QED BY <1>1, TokensAreCountedOnce, MemoryIsPromisedOnce, PTL

-----------------------------------------------------------------------------
(* Products and divisions *)

LEMMA DivIs ==
    ASSUME NEW a \in Int, NEW b \in Nat, b > 0
    PROVE  a \div b \in Int /\ b * (a \div b) <= a /\ a < b * (a \div b) + b
OBVIOUS

LEMMA TimesMono ==
    ASSUME NEW a \in Int, NEW b \in Int, NEW c \in Nat, a <= b
    PROVE  c * a \in Int /\ c * b \in Int /\ c * a <= c * b
OBVIOUS

LEMMA TimesCancel ==
    ASSUME NEW a \in Int, NEW b \in Int, NEW c \in Nat, c > 0, c * a <= c * b
    PROVE  a <= b
<1>1. a > b => c * (b + 1) <= c * a BY TimesMono
<1>2. c * (b + 1) = c * b + c /\ c * a \in Int /\ c * b \in Int OBVIOUS
<1>. QED BY <1>1, <1>2

\* What is no more than a quotient.
LEMMA DivBelow ==
    ASSUME NEW a \in Int, NEW b \in Nat, b > 0, NEW c \in Int
    PROVE  a \div b \in Int /\ b * c \in Int /\ ((c <= a \div b) <=> (b * c <= a))
<1>. DEFINE q == a \div b
<1>1. q \in Int /\ b * q <= a /\ a < b * q + b BY DivIs
<1>. HIDE DEF q
<1>2. b * c \in Int /\ b * q \in Int BY <1>1
<1>3. c <= q => b * c <= b * q BY <1>1, TimesMono
<1>4. c > q => b * (q + 1) <= b * c BY <1>1, TimesMono
<1>5. b * (q + 1) = b * q + b BY <1>1
<1>6. (c <= q) <=> (b * c <= a) BY <1>1, <1>2, <1>3, <1>4, <1>5
<1>. QED BY <1>1, <1>2, <1>6 DEF q

\* A quotient is no more than the divided number, nor negative.
LEMMA DivOfNat ==
    ASSUME NEW a \in Nat, NEW b \in Nat, b > 0
    PROVE  a \div b \in Nat /\ a \div b <= a
<1>1. a \div b \in Int /\ (0 <= a \div b <=> b * 0 <= a) BY DivBelow
<1>2. b * (a \div b) <= a BY DivIs
<1>. DEFINE q == a \div b
<1>. HIDE DEF q
<1>3. q \in Nat BY <1>1 DEF q
<1>4. q * 1 <= q * b BY <1>3, TimesMono
<1>. QED BY <1>2, <1>3, <1>4 DEF q

-----------------------------------------------------------------------------
(* The sizes of a model and what a plan needs *)

SoundModel(m) == m \in FitModel /\ m.layers \in 1..AllLayers /\ m.core + m.embd > 0 /\ m.compute > 0

LEMMA SizesAre ==
    ASSUME NEW m, SoundModel(m)
    PROVE  /\ m.core \in Nat /\ m.embd \in Nat /\ m.perLayer \in Nat /\ m.expLayers \in Nat
           /\ m.layers \in Nat /\ m.layers > 0 /\ m.layers <= AllLayers /\ m.kv \in Nat /\ m.compute \in Nat /\ m.compute > 0
           /\ Experts(m) \in Nat /\ Weights(m) \in Nat /\ Weights(m) > 0
           /\ Weights(m) = m.core + m.embd + Experts(m)
           /\ IF IsMoe(m) THEN m.perLayer > 0 ELSE Experts(m) = 0
<1>1. /\ m.core \in Nat /\ m.embd \in Nat /\ m.perLayer \in Nat /\ m.expLayers \in Nat
      /\ m.layers \in Nat /\ m.layers > 0 /\ m.layers <= AllLayers /\ m.kv \in Nat /\ m.compute \in Nat /\ m.compute > 0
      /\ m.core + m.embd > 0
    BY DEF SoundModel, FitModel, AllLayers
<1>2. Experts(m) = m.perLayer * m.expLayers /\ Experts(m) \in Nat BY <1>1 DEF Experts
<1>3. m.perLayer = 0 => Experts(m) = 0 BY <1>1, <1>2
<1>. QED BY <1>1, <1>2, <1>3 DEF Weights, IsMoe

\* What a preset parks in RAM.
Parked(m, p) == CpuMoeLayers(m, p) * m.perLayer + OverrideCpu(m, p, CpuMoeLayers(m, p))

LEMMA ParkedIs ==
    ASSUME NEW m, SoundModel(m), NEW p \in FitPreset
    PROVE  /\ CpuMoeLayers(m, p) \in 0..m.expLayers
           /\ CpuMoeLayers(m, p) * m.perLayer \in Nat
           /\ OverrideCpu(m, p, CpuMoeLayers(m, p)) \in Nat
           /\ Parked(m, p) \in Nat /\ Parked(m, p) <= Weights(m)
           /\ CpuMoeLayers(m, p) > 0 => Parked(m, p) > 0
           /\ ~IsMoe(m) => CpuMoeLayers(m, p) = 0
<1>. DEFINE k == CpuMoeLayers(m, p)
            o == OverrideCpu(m, p, k)
<1>1. /\ p.cpuMoe \in Nat /\ p.ot \in {"none", "embd", "experts"} BY DEF FitPreset, OverrideKinds
<1>2. k \in 0..m.expLayers /\ (k > 0 => IsMoe(m)) BY <1>1, SizesAre DEF CpuMoeLayers, Least
<1>3. /\ o = IF p.ot = "none" THEN 0 ELSE IF p.ot = "embd" THEN m.embd ELSE (m.expLayers - k) * m.perLayer
    BY <1>1 DEF OverrideCpu
<1>. HIDE DEF k, o
<1>4. m.expLayers - k \in Nat /\ k \in Nat BY <1>2, SizesAre
<1>5. k * m.perLayer \in Nat /\ (m.expLayers - k) * m.perLayer \in Nat BY <1>4, SizesAre
<1>6. k * m.perLayer + (m.expLayers - k) * m.perLayer = Experts(m)
    <2>1. m.perLayer * m.expLayers = k * m.perLayer + (m.expLayers - k) * m.perLayer BY <1>4, SizesAre
    <2>. QED BY <2>1 DEF Experts
<1>7. o \in Nat /\ k * m.perLayer + o <= Weights(m) BY <1>1, <1>3, <1>5, <1>6, SizesAre
<1>8. k > 0 => k * m.perLayer > 0
    <2>. SUFFICES ASSUME k > 0 PROVE k * m.perLayer > 0 OBVIOUS
    <2>1. m.perLayer > 0 /\ m.perLayer \in Nat BY <1>2, SizesAre
    <2>. QED BY <1>4, <2>1
<1>9. Parked(m, p) = k * m.perLayer + o BY DEF Parked, k, o
<1>. QED BY <1>2, <1>5, <1>7, <1>8, <1>9 DEF k, o

\* The four kinds of a plan.
LEMMA NeedsAre ==
    ASSUME NEW m, SoundModel(m), NEW p \in FitPreset, NEW h \in Machine, Offset \in Int
    PROVE  LET n == Needs(m, p, h)
               rest == m.kv + m.compute
               onGpu == (Weights(m) * p.ngl) \div m.layers
               onCard == h.gpuTotal # 0 /\ p.ngl # 0 IN
           /\ onGpu \in Nat
           /\ ~onCard => n.gpu = 0 /\ n.ram = Weights(m) + rest
           /\ onCard /\ Parked(m, p) > 0 =>
                  n.gpu = AtLeast0(Weights(m) - Parked(m, p) + rest - Offset) /\ n.ram = Parked(m, p)
           /\ onCard /\ Parked(m, p) = 0 /\ p.ngl < m.layers =>
                  n.gpu = AtLeast0(onGpu + rest - Offset) /\ n.ram = Weights(m) - onGpu
           /\ onCard /\ Parked(m, p) = 0 /\ p.ngl >= m.layers =>
                  n.gpu = AtLeast0(Weights(m) + rest - Offset) /\ n.ram = 0
<1>. DEFINE rest == m.kv + m.compute
            onGpu == (Weights(m) * p.ngl) \div m.layers
            onCard == h.gpuTotal # 0 /\ p.ngl # 0
            w == Weights(m)
            parked == Parked(m, p)
            parted == IF ~onCard THEN [gpu |-> 0, ram |-> w + m.kv + m.compute]
                     ELSE IF parked > 0 THEN [gpu |-> w - parked + m.kv + m.compute, ram |-> parked]
                     ELSE IF p.ngl < m.layers THEN [gpu |-> onGpu + m.kv + m.compute, ram |-> w - onGpu]
                     ELSE [gpu |-> w + m.kv + m.compute, ram |-> 0]
            n == [parted EXCEPT !.gpu = IF @ > 0 THEN AtLeast0(@ - Offset) ELSE 0]
<1>1. p.ngl \in Nat BY DEF FitPreset
<1>2. /\ m.kv \in Nat /\ m.compute \in Nat /\ m.compute > 0 /\ m.layers \in Nat /\ m.layers > 0 /\ w \in Nat
      /\ parked \in Nat /\ parked <= w /\ (CpuMoeLayers(m, p) > 0 => parked > 0)
    BY SizesAre, ParkedIs
<1>3. onGpu \in Nat
    <2>1. w * p.ngl \in Nat BY <1>1, <1>2
    <2>. QED BY <1>2, <2>1, DivOfNat
<1>4. Needs(m, p, h) = n
    <2>1. CpuMoeLayers(m, p) > 0 \/ parked > 0 <=> parked > 0 BY <1>2
    <2>. QED BY <2>1 DEF Needs, Parked
<1>. HIDE DEF onGpu, onCard, w, parked
<1>5. parted.gpu \in Nat /\ n.ram = parted.ram /\ n.gpu = IF parted.gpu > 0 THEN AtLeast0(parted.gpu - Offset) ELSE 0
    BY <1>2, <1>3
<1>6. /\ ~onCard => n.gpu = 0 /\ n.ram = w + rest
      /\ onCard /\ parked > 0 => n.gpu = AtLeast0(w - parked + rest - Offset) /\ n.ram = parked
      /\ onCard /\ parked = 0 /\ p.ngl < m.layers => n.gpu = AtLeast0(onGpu + rest - Offset) /\ n.ram = w - onGpu
      /\ onCard /\ parked = 0 /\ p.ngl >= m.layers => n.gpu = AtLeast0(w + rest - Offset) /\ n.ram = 0
    BY <1>1, <1>2, <1>3, <1>5 DEF AtLeast0
<1>. QED BY <1>3, <1>4, <1>6 DEF onGpu, onCard, w, parked

-----------------------------------------------------------------------------
(* Verdicts on plans: the inductive invariant *)

\* The model is one that can be, and what suggestions change stays a preset.
FitInv ==
    /\ SoundModel(fitModel) /\ fitPreset \in FitPreset
    /\ machine \in Machine /\ calibration \in Correction

LEMMA FitFields ==
    ASSUME FitInv
    PROVE  /\ Offset \in Int /\ Headroom \in Nat
           /\ machine.gpuBudget \in Nat /\ machine.ramTotal \in Nat /\ machine.ramAvailable \in Nat
           /\ GpuBudget(machine) \in Nat
    BY DEF FitInv, Correction, Machine, Offset, Headroom, HEADROOM, MEASURED_HEADROOM, GpuBudget, Least

\* The panel and the check see one share of the card.
LEMMA SharesAgree == FitInv => PlansAgree
<1>. SUFFICES ASSUME FitInv, machine.gpuTotal > 0, fitPreset.ngl >= fitModel.layers
              PROVE  Needs(fitModel, fitPreset, machine).gpu = EstimatedGpu(fitModel, fitPreset)
    BY DEF PlansAgree
<1>. DEFINE m == fitModel
            p == fitPreset
            k == CpuMoeLayers(m, p)
<1>1. SoundModel(m) /\ p \in FitPreset /\ machine \in Machine BY DEF FitInv
<1>2. p.ngl \in Nat /\ p.ngl > 0 /\ p.ngl >= m.layers /\ ~(p.ngl < m.layers) BY <1>1, SizesAre DEF FitPreset
<1>3. machine.gpuTotal # 0 BY DEF FitInv, Machine
<1>4. /\ k \in Nat /\ k * m.perLayer \in Nat /\ OverrideCpu(m, p, k) \in Nat
      /\ Parked(m, p) = k * m.perLayer + OverrideCpu(m, p, k)
      /\ Parked(m, p) <= Weights(m) /\ Weights(m) \in Nat /\ m.perLayer \in Nat
    BY <1>1, SizesAre, ParkedIs DEF Parked
<1>5. EstimatedRam(m, p) = Parked(m, p)
    <2>1. k = 0 => k * m.perLayer = 0 BY <1>4
    <2>. HIDE DEF k
    <2>2. EstimatedRam(m, p) = Least(Weights(m), (IF k > 0 THEN k * m.perLayer ELSE 0) + OverrideCpu(m, p, k))
        BY <1>2, <1>4 DEF EstimatedRam, k
    <2>. QED BY <1>4, <2>1, <2>2 DEF Least
<1>6. EstimatedGpu(m, p) = AtLeast0(Weights(m) + m.kv + m.compute - Parked(m, p) - Offset)
    BY <1>5 DEF EstimatedGpu
<1>7. Needs(m, p, machine).gpu = AtLeast0(Weights(m) - Parked(m, p) + (m.kv + m.compute) - Offset)
    <2>1. CASE Parked(m, p) > 0 BY <1>1, <1>2, <1>3, <2>1, NeedsAre, FitFields
    <2>2. CASE Parked(m, p) = 0
        <3>1. Needs(m, p, machine).gpu = AtLeast0(Weights(m) + (m.kv + m.compute) - Offset)
            BY <1>1, <1>2, <1>3, <2>2, NeedsAre, FitFields
        <3>. QED BY <1>4, <2>2, <3>1
    <2>. QED BY <1>1, <2>1, <2>2, ParkedIs
<1>8. Weights(m) + m.kv + m.compute - Parked(m, p) - Offset = Weights(m) - Parked(m, p) + (m.kv + m.compute) - Offset
    BY <1>1, <1>4, SizesAre, FitFields
<1>. QED BY <1>6, <1>7, <1>8

\* What has room on the card by itself, and in the RAM that is free, fits.
LEMMA RoomIsEnough ==
    ASSUME NEW m, NEW p, NEW h, FitsAlone(Needs(m, p, h), h), RamOk(Needs(m, p, h), h)
    PROVE  CheckFit(m, p, h).level \in {"fits", "fits_if_alone"}
BY DEF CheckFit, Level

\* What a verdict says of the plan.
LEMMA VerdictsAre ==
    ASSUME NEW m, NEW p, NEW h
    PROVE  LET n == Needs(m, p, h)
               v == CheckFit(m, p, h)
               offload == IF IsMoe(m) THEN MoeOffload(m, p, h) ELSE DenseOffload(m, p, h) IN
           /\ v.suggestion # NoSuggestion => v = offload
           /\ v.level = "too_big" =>
                 \/ n.ram > 0 /\ ~RamOkTotal(n, h)
                 \/ v = offload /\ ~FitsNow(n, h) /\ ~(FitsAlone(n, h) /\ ~(n.ram > 0))
<1>. DEFINE n == Needs(m, p, h)
            offload == IF IsMoe(m) THEN MoeOffload(m, p, h) ELSE DenseOffload(m, p, h)
            now == FitsNow(n, h)
            alone == FitsAlone(n, h)
            ok == RamOk(n, h)
            whole == RamOkTotal(n, h)
            hybrid == n.ram > 0
            cpu == n.gpu = 0
<1>1. CheckFit(m, p, h) =
          CASE now /\ (~hybrid \/ ok \/ (cpu /\ whole)) -> Level("fits")
            [] now /\ hybrid /\ ~ok /\ ~(cpu /\ whole) -> Level(IF whole THEN "needs_offload" ELSE "too_big")
            [] ~now /\ alone /\ (~hybrid \/ ok) -> Level("fits_if_alone")
            [] OTHER -> offload
    BY DEF CheckFit
<1>. HIDE DEF n, offload, now, alone, ok, whole, hybrid, cpu
<1>2. \A l : Level(l).level = l /\ Level(l).suggestion = NoSuggestion BY DEF Level
<1>3. \/ CheckFit(m, p, h) = Level("fits") \/ CheckFit(m, p, h) = Level("fits_if_alone")
      \/ hybrid /\ CheckFit(m, p, h) = Level(IF whole THEN "needs_offload" ELSE "too_big")
      \/ CheckFit(m, p, h) = offload /\ ~now /\ ~(alone /\ ~hybrid)
    BY <1>1
<1>. QED BY <1>2, <1>3 DEF n, offload, now, alone, whole, hybrid

\* As many layers of experts as the suggestion leaves on the card have room there.
LEMMA MoeLayersAre ==
    ASSUME NEW m, SoundModel(m), IsMoe(m), NEW p \in FitPreset, NEW h \in Machine,
           GpuBudget(h) \in Nat, Headroom \in Nat, MoeFixed(m, p) + Headroom <= GpuBudget(h)
    PROVE  LET n == MoeCpuLayers(m, p, h) IN
           /\ MoeFixed(m, p) \in Int
           /\ n \in 0..m.expLayers
           /\ MoeFixed(m, p) + (m.expLayers - n) * m.perLayer + Headroom <= GpuBudget(h)
           /\ \A k \in 0..m.expLayers :
                 MoeFixed(m, p) + (m.expLayers - k) * m.perLayer + Headroom <= GpuBudget(h) => n <= k
<1>. DEFINE f == MoeFixed(m, p)
            room == GpuBudget(h) - Headroom - f
            q == room \div m.perLayer
            n == m.expLayers - Least(m.expLayers, AtLeast0(q))
<1>1. m.perLayer \in Nat /\ m.perLayer > 0 /\ m.expLayers \in Nat BY SizesAre
<1>2. f \in Int BY SizesAre, ParkedIs DEF MoeFixed
<1>. HIDE DEF f
<1>3. room \in Int /\ room >= 0 BY <1>2 DEF f
<1>. HIDE DEF room
<1>4. q \in Int /\ \A c \in Int : m.perLayer * c \in Int /\ (c <= q <=> m.perLayer * c <= room) BY <1>1, <1>3, DivBelow
<1>5. q \in Nat
    <2>1. m.perLayer * 0 = 0 BY <1>1
    <2>. QED BY <1>3, <1>4, <2>1
<1>. HIDE DEF q
<1>6. n \in 0..m.expLayers /\ m.expLayers - n <= q /\ m.expLayers - n \in Nat
      /\ \A k \in 0..m.expLayers : m.expLayers - k <= q => n <= k
    BY <1>1, <1>5 DEF Least, AtLeast0
<1>. HIDE DEF n
<1>7. \A k \in 0..m.expLayers : /\ m.expLayers - k \in Int
                                /\ (m.expLayers - k) * m.perLayer = m.perLayer * (m.expLayers - k)
                                /\ (m.expLayers - k) * m.perLayer \in Int
    BY <1>1
<1>8. \A k \in 0..m.expLayers :
          m.expLayers - k <= q <=> f + (m.expLayers - k) * m.perLayer + Headroom <= GpuBudget(h)
    BY <1>2, <1>4, <1>7 DEF room
<1>9. MoeCpuLayers(m, p, h) = n BY DEF MoeCpuLayers, n, q, room, f
<1>. QED BY <1>2, <1>6, <1>8, <1>9 DEF f

LEMMA PatchedIs ==
    ASSUME NEW p \in FitPreset, NEW k \in Nat
    PROVE  /\ LET moe == Patched(p, [is |-> "moe", n |-> k]) IN
              moe \in FitPreset /\ moe.cpuMoe = k /\ moe.ngl = AllLayers /\ moe.ot = p.ot
           /\ LET dense == Patched(p, [is |-> "dense", n |-> k]) IN
              dense \in FitPreset /\ dense.cpuMoe = p.cpuMoe /\ dense.ngl = k /\ dense.ot = p.ot
<1>. DEFINE o == [p EXCEPT !.cpuMoe = k]
<1>1. o \in FitPreset /\ o.cpuMoe = k /\ o.ot = p.ot BY DEF FitPreset
<1>2. Patched(p, [is |-> "moe", n |-> k]) = [o EXCEPT !.ngl = AllLayers] BY DEF Patched
<1>. HIDE DEF o
<1>3. AllLayers \in Nat BY DEF AllLayers
<1>4. /\ [o EXCEPT !.ngl = AllLayers] \in FitPreset /\ [o EXCEPT !.ngl = AllLayers].ngl = AllLayers
      /\ [o EXCEPT !.ngl = AllLayers].cpuMoe = o.cpuMoe /\ [o EXCEPT !.ngl = AllLayers].ot = o.ot
    BY <1>1, <1>3 DEF FitPreset
<1>5. Patched(p, [is |-> "dense", n |-> k]) = [p EXCEPT !.ngl = k] BY DEF Patched
<1>. QED BY <1>1, <1>2, <1>4, <1>5 DEF FitPreset

LEMMA MoeSuggestionHelps ==
    ASSUME FitInv, IsMoe(fitModel), CheckFit(fitModel, fitPreset, machine).suggestion # NoSuggestion,
           ~machine.unified, Offset >= 0, fitPreset.ot \in {"none", "embd"}
    PROVE  LET p == Patched(fitPreset, CheckFit(fitModel, fitPreset, machine).suggestion) IN
           FitsAlone(Needs(fitModel, p, machine), machine)
<1>. DEFINE m == fitModel
            old == fitPreset
            h == machine
            k == MoeCpuLayers(m, old, h)
            p == Patched(old, [is |-> "moe", n |-> k])
            need == Needs(m, p, h)
<1>1. SoundModel(m) /\ old \in FitPreset /\ h \in Machine /\ GpuBudget(h) \in Nat /\ Headroom \in Nat /\ Offset \in Int
    BY FitFields DEF FitInv
<1>2. CheckFit(m, old, h) = MoeOffload(m, old, h) BY VerdictsAre
<1>3. MoeFixed(m, old) + Headroom <= GpuBudget(h) /\ CheckFit(m, old, h).suggestion = [is |-> "moe", n |-> k]
    <2>1. MoeFixed(m, old) \in Int BY <1>1, MoeLayersAre, SizesAre, ParkedIs DEF MoeFixed
    <2>2. MoeOffload(m, old, h).suggestion # NoSuggestion BY <1>2
    <2>3. ~(MoeFixed(m, old) + Headroom > GpuBudget(h)) BY <2>2 DEF MoeOffload, TooBig
    <2>4. MoeOffload(m, old, h).suggestion = [is |-> "moe", n |-> k] BY <2>2 DEF MoeOffload, TooBig
    <2>. QED BY <1>1, <1>2, <2>1, <2>3, <2>4
<1>4. /\ MoeFixed(m, old) \in Int /\ k \in 0..m.expLayers
      /\ MoeFixed(m, old) + (m.expLayers - k) * m.perLayer + Headroom <= GpuBudget(h)
    BY <1>1, <1>3, MoeLayersAre
<1>5. /\ Patched(old, CheckFit(m, old, h).suggestion) = p
      /\ p \in FitPreset /\ p.cpuMoe = k /\ p.ngl = AllLayers /\ p.ot = old.ot
    <2>1. k \in Nat BY <1>1, <1>4, SizesAre
    <2>. HIDE DEF k
    <2>. QED BY <1>1, <1>3, <2>1, PatchedIs
<1>. HIDE DEF p
<1>6. CpuMoeLayers(m, p) = k
    <2>. HIDE DEF k
    <2>1. k \in Nat /\ k <= m.expLayers /\ m.expLayers \in Nat BY <1>1, <1>4, SizesAre
    <2>. QED BY <1>5, <2>1 DEF CpuMoeLayers, Least
<1>7. OverrideCpu(m, p, k) = OverrideCpu(m, old, CpuMoeLayers(m, old)) BY <1>5 DEF OverrideCpu
<1>8. /\ m.kv \in Nat /\ m.compute \in Nat /\ Weights(m) \in Nat /\ Experts(m) \in Nat
      /\ m.perLayer \in Nat /\ m.expLayers \in Nat /\ p.ngl >= m.layers /\ p.ngl # 0 /\ ~(p.ngl < m.layers)
    BY <1>1, <1>5, SizesAre DEF AllLayers
<1>9. /\ Parked(m, p) = k * m.perLayer + OverrideCpu(m, p, k) /\ Parked(m, p) \in Nat /\ Parked(m, p) <= Weights(m)
      /\ OverrideCpu(m, p, k) \in Nat /\ k * m.perLayer \in Nat
    BY <1>1, <1>5, <1>6, ParkedIs DEF Parked
<1>10. MoeFixed(m, old) = Weights(m) - Experts(m) - OverrideCpu(m, p, k) + m.kv + m.compute
    BY <1>7 DEF MoeFixed
<1>11. k * m.perLayer + (m.expLayers - k) * m.perLayer = Experts(m)
    <2>1. k \in Nat BY <1>4, <1>8
    <2>. HIDE DEF k
    <2>2. k * m.perLayer + (m.expLayers - k) * m.perLayer = m.perLayer * m.expLayers BY <1>8, <2>1
    <2>. QED BY <2>2 DEF Experts
<1>12. (m.expLayers - k) * m.perLayer \in Int BY <1>4, <1>8
<1>. HIDE DEF k
<1>13. Weights(m) - Parked(m, p) + (m.kv + m.compute) + Headroom <= GpuBudget(h)
    BY <1>1, <1>4, <1>8, <1>9, <1>10, <1>11, <1>12
<1>14. need.gpu = 0 \/ need.gpu = AtLeast0(Weights(m) - Parked(m, p) + (m.kv + m.compute) - Offset)
    <2>1. CASE h.gpuTotal = 0 BY <1>1, <1>5, <2>1, NeedsAre
    <2>2. CASE h.gpuTotal # 0 /\ Parked(m, p) > 0 BY <1>1, <1>5, <1>8, <2>2, NeedsAre
    <2>3. CASE h.gpuTotal # 0 /\ Parked(m, p) = 0
        <3>1. need.gpu = AtLeast0(Weights(m) + (m.kv + m.compute) - Offset) BY <1>1, <1>5, <1>8, <2>3, NeedsAre
        <3>. QED BY <1>8, <2>3, <3>1
    <2>. QED BY <1>9, <2>1, <2>2, <2>3
<1>. DEFINE g == Weights(m) - Parked(m, p) + (m.kv + m.compute)
            gpu == need.gpu
<1>15. g \in Nat /\ g + Headroom <= GpuBudget(h) /\ (gpu = 0 \/ gpu = AtLeast0(g - Offset))
    <2>1. g \in Nat /\ g + Headroom <= GpuBudget(h) BY <1>8, <1>9, <1>13
    <2>2. Weights(m) - Parked(m, p) + (m.kv + m.compute) - Offset = g - Offset BY <1>1, <1>8, <1>9
    <2>. QED BY <1>14, <2>1, <2>2
<1>. HIDE DEF g, gpu
<1>16. AtLeast0(g - Offset) \in Nat /\ AtLeast0(g - Offset) <= g BY <1>1, <1>15 DEF AtLeast0
<1>17. gpu = 0 \/ gpu + Headroom <= GpuBudget(h) BY <1>1, <1>15, <1>16
<1>18. FitsAlone(need, h) BY <1>17 DEF FitsAlone, gpu
<1>. QED BY <1>5, <1>18

\* The layers that the suggestion leaves on the card have room there, and no
\* other number of layers does that is larger.
DenseLayers(m, h) ==
    LET room == (GpuBudget(h) - Headroom - m.kv - m.compute) * m.layers IN
    AtLeast0(Least(m.layers, room \div Weights(m)))

LEMMA DenseLayersAre ==
    ASSUME NEW m, SoundModel(m), NEW h \in Machine, GpuBudget(h) \in Nat, Headroom \in Nat
    PROVE  LET n == DenseLayers(m, h)
               free == GpuBudget(h) - Headroom - m.kv - m.compute IN
           /\ free \in Int
           /\ n \in 0..m.layers
           /\ n > 0 => Weights(m) * n <= free * m.layers
           /\ \A l \in 0..m.layers : Weights(m) * l <= free * m.layers => l <= n
<1>. DEFINE w == Weights(m)
            free == GpuBudget(h) - Headroom - m.kv - m.compute
            room == free * m.layers
            q == room \div w
            n == AtLeast0(Least(m.layers, q))
<1>1. m.layers \in Nat /\ m.layers > 0 /\ w \in Nat /\ w > 0 /\ m.kv \in Nat /\ m.compute \in Nat BY SizesAre
<1>2. free \in Int BY <1>1
<1>. HIDE DEF w, free
<1>3. room \in Int BY <1>1, <1>2
<1>. HIDE DEF room
<1>4. q \in Int /\ \A c \in Int : c <= q <=> w * c <= room BY <1>1, <1>3, DivBelow
<1>. HIDE DEF q
<1>5. n \in 0..m.layers /\ (n > 0 => n <= q) /\ \A l \in 0..m.layers : l <= q => l <= n
    BY <1>1, <1>4 DEF AtLeast0, Least
<1>6. n = DenseLayers(m, h) BY DEF DenseLayers, q, room, free, w
<1>. HIDE DEF n
<1>7. \A l \in 0..m.layers : l \in Int BY <1>1
<1>8. (n > 0 => w * n <= room) /\ \A l \in 0..m.layers : w * l <= room => l <= n BY <1>4, <1>5, <1>7
<1>. QED BY <1>2, <1>5, <1>6, <1>8 DEF free, w, room

LEMMA DenseOffloadIs ==
    ASSUME NEW m, NEW p, NEW h
    PROVE  DenseOffload(m, p, h) =
               IF InRam((Weights(m) * (m.layers - DenseLayers(m, h))) \div m.layers, h.ramTotal)
               THEN [level |-> "needs_offload", suggestion |-> [is |-> "dense", n |-> DenseLayers(m, h)]]
               ELSE TooBig
BY DEF DenseOffload, DenseLayers

LEMMA DenseSuggestionHelps ==
    ASSUME FitInv, ~IsMoe(fitModel), CheckFit(fitModel, fitPreset, machine).suggestion # NoSuggestion,
           ~machine.unified, Offset >= 0, fitPreset.ot = "none"
    PROVE  LET p == Patched(fitPreset, CheckFit(fitModel, fitPreset, machine).suggestion) IN
           FitsAlone(Needs(fitModel, p, machine), machine)
<1>. DEFINE m == fitModel
            old == fitPreset
            h == machine
            k == DenseLayers(m, h)
            p == Patched(old, [is |-> "dense", n |-> k])
            w == Weights(m)
            rest == m.kv + m.compute
            free == GpuBudget(h) - Headroom - m.kv - m.compute
            onGpu == (w * p.ngl) \div m.layers
            gpu == Needs(m, p, h).gpu
<1>1. SoundModel(m) /\ old \in FitPreset /\ h \in Machine /\ GpuBudget(h) \in Nat /\ Headroom \in Nat /\ Offset \in Int
    BY FitFields DEF FitInv
<1>2. CheckFit(m, old, h) = DenseOffload(m, old, h) BY VerdictsAre
<1>3. CheckFit(m, old, h).suggestion = [is |-> "dense", n |-> k] BY <1>2, DenseOffloadIs DEF TooBig
<1>4. /\ free \in Int /\ k \in 0..m.layers
      /\ k > 0 => w * k <= free * m.layers
    BY <1>1, DenseLayersAre
<1>5. m.layers \in Nat /\ m.layers > 0 /\ w \in Nat /\ w > 0 /\ m.kv \in Nat /\ m.compute \in Nat BY <1>1, SizesAre
<1>6. k \in Nat BY <1>4, <1>5
<1>. HIDE DEF k
<1>7. p \in FitPreset /\ p.ngl = k /\ p.ot = old.ot BY <1>1, <1>6, PatchedIs
<1>. HIDE DEF p
<1>8. Parked(m, p) = 0
    <2>1. CpuMoeLayers(m, p) = 0 BY <1>1, <1>7, ParkedIs
    <2>2. OverrideCpu(m, p, 0) = 0 BY <1>7 DEF OverrideCpu
    <2>3. 0 * m.perLayer = 0 BY <1>1, SizesAre
    <2>. QED BY <2>1, <2>2, <2>3 DEF Parked
<1>9. onGpu \in Nat /\ ((~(h.gpuTotal # 0 /\ k # 0)) => gpu = 0)
      /\ (h.gpuTotal # 0 /\ k # 0 /\ k < m.layers => gpu = AtLeast0(onGpu + rest - Offset))
      /\ (h.gpuTotal # 0 /\ k # 0 /\ k >= m.layers => gpu = AtLeast0(w + rest - Offset))
    BY <1>1, <1>7, <1>8, NeedsAre
<1>10. ASSUME k > 0 PROVE onGpu <= free /\ (k >= m.layers => w <= free)
    <2>1. w * k <= free * m.layers BY <1>4, <1>10
    <2>2. m.layers * onGpu <= w * k
        <3>1. w * k \in Int BY <1>5, <1>6
        <3>. QED BY <1>5, <1>7, <3>1, DivIs
    <2>. HIDE DEF onGpu, free, w
    <2>3. w * k \in Int /\ m.layers * onGpu \in Int /\ free * m.layers = m.layers * free /\ m.layers * free \in Int
          /\ m.layers * w = w * m.layers /\ w * m.layers \in Int
        BY <1>4, <1>5, <1>6, <1>9
    <2>4. m.layers * onGpu <= m.layers * free BY <2>1, <2>2, <2>3
    <2>5. onGpu <= free BY <1>4, <1>5, <1>9, <2>4, TimesCancel
    <2>6. k >= m.layers => k = m.layers BY <1>4, <1>5
    <2>7. ASSUME k >= m.layers PROVE w <= free
        <3>1. m.layers * w <= m.layers * free BY <2>1, <2>3, <2>6, <2>7
        <3>. QED BY <1>4, <1>5, <3>1, TimesCancel
    <2>. QED BY <2>5, <2>7
<1>11. gpu = 0 \/ \E x \in Int : x <= free /\ gpu = AtLeast0(x + rest - Offset)
    <2>1. CASE h.gpuTotal # 0 /\ k # 0
        <3>1. k > 0 BY <1>6, <2>1
        <3>2. CASE k < m.layers
            <4>1. onGpu \in Int /\ onGpu <= free /\ gpu = AtLeast0(onGpu + rest - Offset) BY <1>9, <1>10, <2>1, <3>1, <3>2
            <4>. HIDE DEF onGpu, gpu
            <4>. QED BY <4>1
        <3>3. CASE k >= m.layers
            <4>1. w \in Int /\ w <= free /\ gpu = AtLeast0(w + rest - Offset) BY <1>5, <1>9, <1>10, <2>1, <3>1, <3>3
            <4>. HIDE DEF w, gpu
            <4>. QED BY <4>1
        <3>. QED BY <1>5, <1>6, <3>2, <3>3
    <2>. QED BY <1>9, <2>1
<1>. HIDE DEF gpu, onGpu
<1>12. gpu = 0 \/ gpu + Headroom <= GpuBudget(h)
    <2>. SUFFICES ASSUME NEW x \in Int, x <= free, gpu = AtLeast0(x + rest - Offset), gpu # 0
                  PROVE  gpu + Headroom <= GpuBudget(h)
        BY <1>11
    <2>1. gpu = x + rest - Offset BY DEF AtLeast0
    <2>2. x <= GpuBudget(h) - Headroom - m.kv - m.compute OBVIOUS
    <2>. QED BY <1>1, <1>5, <2>1, <2>2
<1>13. FitsAlone(Needs(m, p, h), h) BY <1>12 DEF FitsAlone, gpu
<1>. QED BY <1>3, <1>13 DEF p

\* Suggestions help.
LEMMA SuggestionsAreEnough == FitInv => SuggestionsHelp
<1>. SUFFICES ASSUME FitInv PROVE SuggestionsHelp OBVIOUS
<1>. DEFINE s == CheckFit(fitModel, fitPreset, machine).suggestion
            p == Patched(fitPreset, s)
<1>1. ASSUME s # NoSuggestion, ~machine.unified, Offset >= 0,
             fitPreset.ot \in (IF IsMoe(fitModel) THEN {"none", "embd"} ELSE {"none"}),
             RamOk(Needs(fitModel, p, machine), machine)
      PROVE  CheckFit(fitModel, p, machine).level \in {"fits", "fits_if_alone"}
    <2>1. FitsAlone(Needs(fitModel, p, machine), machine)
        <3>1. CASE IsMoe(fitModel) BY <1>1, <3>1, MoeSuggestionHelps
        <3>2. CASE ~IsMoe(fitModel) BY <1>1, <3>2, DenseSuggestionHelps
        <3>. QED BY <3>1, <3>2
    <2>. QED BY <1>1, <2>1, RoomIsEnough
<1>. QED BY <1>1 DEF SuggestionsHelp

\* Whoever has room in RAM beside its share of the card has it without.
LEMMA RamOfPlan ==
    ASSUME NEW n, NEW h \in Machine, n.gpu \in Nat, n.ram \in Int, NEW x \in Int, x <= n.ram, RamOkTotal(n, h)
    PROVE  InRam(x, h.ramTotal)
<1>1. h.ramTotal \in Nat BY DEF Machine
<1>2. RamLeft(n, h, h.ramTotal) \in Nat /\ RamLeft(n, h, h.ramTotal) <= h.ramTotal BY <1>1 DEF RamLeft, AtLeast0
<1>3. n.ram * 100 <= RamLeft(n, h, h.ramTotal) * 92 BY DEF RamOkTotal, InRam
<1>. QED BY <1>1, <1>2, <1>3 DEF InRam

\* A plan has two parts.
LEMMA NeedsHasFields ==
    ASSUME NEW m, NEW p, NEW h
    PROVE  \E g, r : Needs(m, p, h) = [gpu |-> g, ram |-> r]
<1>. DEFINE moved == CpuMoeLayers(m, p) * m.perLayer + OverrideCpu(m, p, CpuMoeLayers(m, p))
            onGpu == (Weights(m) * p.ngl) \div m.layers
            all == Weights(m) + m.kv + m.compute
            left == Weights(m) - moved + m.kv + m.compute
            most == onGpu + m.kv + m.compute
            others == Weights(m) - onGpu
            parted == IF h.gpuTotal = 0 \/ p.ngl = 0 THEN [gpu |-> 0, ram |-> all]
                     ELSE IF CpuMoeLayers(m, p) > 0 \/ moved > 0 THEN [gpu |-> left, ram |-> moved]
                     ELSE IF p.ngl < m.layers THEN [gpu |-> most, ram |-> others]
                     ELSE [gpu |-> all, ram |-> 0]
            share == IF parted.gpu > 0 THEN AtLeast0(parted.gpu - Offset) ELSE 0
<1>1. Needs(m, p, h) = [parted EXCEPT !.gpu = share] BY DEF Needs
<1>2. \E g, r : parted = [gpu |-> g, ram |-> r]
    <2>. HIDE DEF moved, all, left, most, others
    <2>. QED OBVIOUS
<1>. HIDE DEF parted, share
<1>. QED BY <1>1, <1>2

\* What is called too big is.  A number of layers that would do is at least the
\* one that the suggestion computes, whose part in RAM is then no larger.
LEMMA TooBigIsTrue == FitInv => TooBigIsRight
<1>. DEFINE m == fitModel
            old == fitPreset
            h == machine
            w == Weights(m)
            rest == m.kv + m.compute
            n0 == Needs(m, old, h)
            tried(n) == [old EXCEPT !.ngl = IF IsMoe(m) THEN AllLayers ELSE n,
                                    !.cpuMoe = IF IsMoe(m) THEN Least(n, m.expLayers) ELSE 0]
<1>. SUFFICES ASSUME FitInv, old = [ngl |-> AllLayers, cpuMoe |-> 0, ot |-> "none"], Offset = 0,
                     CheckFit(m, old, h).level = "too_big", NEW n \in 0..(m.layers - 1),
                     FitsAlone(RoundedUp(Needs(m, tried(n), h)), h),
                     RamOkTotal(RoundedUp(Needs(m, tried(n), h)), h)
              PROVE  FALSE
    BY DEF TooBigIsRight
<1>. DEFINE p == tried(n)
            k == CpuMoeLayers(m, p)
            need == RoundedUp(Needs(m, p, h))
<1>0. FitsAlone(need, h) /\ RamOkTotal(need, h) OBVIOUS
<1>1. /\ SoundModel(m) /\ old \in FitPreset /\ h \in Machine /\ GpuBudget(h) \in Nat /\ Headroom \in Nat
      /\ h.gpuTotal \in Nat
    BY FitFields DEF FitInv, Machine
<1>2. /\ m.layers \in Nat /\ m.layers > 0 /\ m.layers <= AllLayers /\ w \in Nat /\ w > 0 /\ m.kv \in Nat /\ m.compute \in Nat
      /\ m.compute > 0 /\ m.expLayers \in Nat /\ m.perLayer \in Nat /\ rest \in Nat /\ rest > 0
    BY <1>1, SizesAre
<1>3. n \in Nat /\ n < m.layers BY <1>2
<1>4. p = [old EXCEPT !.ngl = IF IsMoe(m) THEN AllLayers ELSE n,
                     !.cpuMoe = IF IsMoe(m) THEN Least(n, m.expLayers) ELSE 0]
      /\ old.ot = "none" /\ old \in FitPreset
    BY <1>1
<1>. HIDE DEF p
<1>5. p \in FitPreset /\ p.ngl = (IF IsMoe(m) THEN AllLayers ELSE n) /\ p.ot = "none"
      /\ p.cpuMoe = (IF IsMoe(m) THEN Least(n, m.expLayers) ELSE 0)
    <2>. DEFINE a == IF IsMoe(m) THEN AllLayers ELSE n
                b == IF IsMoe(m) THEN Least(n, m.expLayers) ELSE 0
    <2>1. a \in Nat /\ b \in Nat BY <1>2, <1>3 DEF Least, AllLayers
    <2>2. p = [old EXCEPT !.ngl = a, !.cpuMoe = b] BY <1>4
    <2>. HIDE DEF a, b, old
    <2>3. p \in FitPreset /\ p.ngl = a /\ p.cpuMoe = b /\ p.ot = old.ot BY <1>4, <2>1, <2>2 DEF FitPreset
    <2>. QED BY <1>4, <2>3 DEF a, b
<1>6. \A from : OverrideCpu(m, p, from) = 0 /\ OverrideCpu(m, old, from) = 0 BY <1>5 DEF OverrideCpu
<1>7. CpuMoeLayers(m, old) = 0 /\ Parked(m, old) = 0 BY <1>2, <1>6 DEF CpuMoeLayers, Least, Parked
<1>8. /\ k \in 0..m.expLayers /\ Parked(m, p) = k * m.perLayer /\ Parked(m, p) \in Nat /\ Parked(m, p) <= w
      /\ (k > 0 => Parked(m, p) > 0) /\ (~IsMoe(m) => k = 0)
    BY <1>1, <1>5, <1>6, ParkedIs DEF Parked
<1>9. old.ngl = AllLayers /\ old.ngl >= m.layers /\ old.ngl # 0 /\ ~(old.ngl < m.layers) BY <1>2 DEF AllLayers
<1>. HIDE DEF k
<1>10. CASE h.gpuTotal = 0
    <2>1. n0.gpu = 0 /\ n0.ram = w + rest BY <1>1, <1>10, NeedsAre
    <2>2. Needs(m, p, h).gpu = 0 /\ Needs(m, p, h).ram = w + rest BY <1>1, <1>5, <1>10, NeedsAre
    <2>3. need.gpu = 0 /\ need.ram = w + rest BY <2>2 DEF RoundedUp
    <2>4. ~RamOkTotal(n0, h) BY <2>1, VerdictsAre DEF FitsNow
    <2>. HIDE DEF n0, need, w, rest
    <2>5. RamOkTotal(n0, h) <=> RamOkTotal(need, h) BY <2>1, <2>3 DEF RamOkTotal, RamLeft
    <2>. QED BY <1>0, <2>4, <2>5 DEF need
<1>11. CASE h.gpuTotal # 0
    <2>1. n0.ram = 0 /\ n0.gpu = w + rest
        <3>1. n0.ram = 0 /\ n0.gpu = AtLeast0(w + rest - Offset) BY <1>1, <1>7, <1>9, <1>11, NeedsAre
        <3>. HIDE DEF n0
        <3>. QED BY <1>2, <3>1 DEF AtLeast0
    <2>2. ~FitsAlone(n0, h) /\ CheckFit(m, old, h) = IF IsMoe(m) THEN MoeOffload(m, old, h) ELSE DenseOffload(m, old, h)
        BY <2>1, VerdictsAre
    <2>3. CASE IsMoe(m)
        <3>1. need = Needs(m, p, h) BY <2>3 DEF RoundedUp
        <3>2. p.ngl # 0 /\ p.ngl >= m.layers /\ ~(p.ngl < m.layers) BY <1>2, <1>5, <2>3 DEF AllLayers
        <3>3. CASE k = 0
            <4>1. Parked(m, p) = 0 BY <1>2, <1>8, <3>3
            <4>2. need.gpu = AtLeast0(w + rest - Offset) BY <1>1, <1>5, <1>11, <3>1, <3>2, <4>1, NeedsAre
            <4>3. need.gpu = n0.gpu BY <1>2, <2>1, <4>2 DEF AtLeast0
            <4>. QED BY <1>0, <2>2, <4>3 DEF FitsAlone
        <3>4. CASE k > 0
            <4>1. need.gpu = AtLeast0(w - Parked(m, p) + rest - Offset) /\ need.ram = Parked(m, p)
                BY <1>1, <1>5, <1>8, <1>11, <3>1, <3>2, <3>4, NeedsAre
            <4>. DEFINE f == MoeFixed(m, old)
            <4>2. f = w - Experts(m) - 0 + m.kv + m.compute BY <1>6 DEF MoeFixed
            <4>3. Experts(m) = k * m.perLayer + (m.expLayers - k) * m.perLayer
                  /\ (m.expLayers - k) * m.perLayer \in Nat /\ Experts(m) \in Nat
                <5>1. k \in Nat /\ m.expLayers - k \in Nat BY <1>2, <1>8
                <5>2. m.perLayer * m.expLayers = k * m.perLayer + (m.expLayers - k) * m.perLayer BY <1>2, <5>1
                <5>3. (m.expLayers - k) * m.perLayer \in Nat BY <1>2, <5>1
                <5>. QED BY <1>1, <5>2, <5>3, SizesAre DEF Experts
            <4>. HIDE DEF need, f, w
            <4>4. need.gpu = f + (m.expLayers - k) * m.perLayer /\ need.gpu > 0 /\ f \in Int /\ need.gpu \in Nat
                <5>. DEFINE x == (m.expLayers - k) * m.perLayer
                            y == k * m.perLayer
                <5>1. x \in Nat /\ y \in Nat /\ Experts(m) = y + x /\ Parked(m, p) = y /\ y <= w /\ Experts(m) \in Nat
                    BY <1>8, <4>3
                <5>. HIDE DEF x, y
                <5>2. w - y + rest - Offset = w - y + rest /\ w - y + rest > 0 /\ w - y + rest \in Nat BY <1>2, <5>1
                <5>3. need.gpu = w - y + rest BY <4>1, <5>1, <5>2 DEF AtLeast0
                <5>4. f \in Int /\ f + x = w - y + rest BY <1>2, <4>2, <5>1
                <5>. QED BY <5>2, <5>3, <5>4 DEF x
            <4>5. f + (m.expLayers - k) * m.perLayer + Headroom <= GpuBudget(h)
                <5>1. need.gpu + Headroom <= GpuBudget(h) BY <1>0, <4>4 DEF FitsAlone
                <5>. QED BY <4>4, <5>1
            <4>6. f + Headroom <= GpuBudget(h) BY <1>1, <4>3, <4>4, <4>5
            <4>. DEFINE least == MoeCpuLayers(m, old, h)
            <4>7. least \in 0..m.expLayers /\ least <= k BY <1>1, <1>8, <2>3, <4>5, <4>6, MoeLayersAre DEF f
            <4>8. ~InRam(least * m.perLayer, h.ramTotal)
                <5>1. MoeOffload(m, old, h).level = "too_big" BY <2>2, <2>3
                <5>2. ~(f + Headroom > GpuBudget(h)) BY <1>1, <4>4, <4>6
                <5>. QED BY <5>1, <5>2 DEF MoeOffload, f
            <4>9. least * m.perLayer \in Int /\ least * m.perLayer <= need.ram
                <5>1. least \in Nat /\ k \in Nat /\ least <= k BY <1>2, <1>8, <4>7
                <5>. HIDE DEF least
                <5>2. m.perLayer * least <= m.perLayer * k
                    <6>. DEFINE e == m.perLayer
                    <6>1. e \in Nat BY <1>2
                    <6>2. least \in Int /\ k \in Int BY <5>1
                    <6>. HIDE DEF e, least
                    <6>3. e * least <= e * k BY <5>1, <6>1, <6>2, TimesMono
                    <6>. QED BY <6>3 DEF e
                <5>3. m.perLayer * least = least * m.perLayer /\ m.perLayer * k = k * m.perLayer
                      /\ least * m.perLayer \in Int
                    BY <1>2, <5>1
                <5>. QED BY <1>8, <4>1, <5>2, <5>3
            <4>10. RamOkTotal(need, h) /\ need.ram \in Int BY <1>0, <1>8, <4>1
            <4>. QED BY <1>1, <4>4, <4>8, <4>9, <4>10, RamOfPlan
        <3>. QED BY <1>2, <1>8, <3>3, <3>4
    <2>4. CASE ~IsMoe(m)
        <3>. DEFINE top == DenseLayers(m, h)
                    x == (w * (m.layers - top)) \div m.layers
                    onGpu == (w * p.ngl) \div m.layers
                    free == GpuBudget(h) - Headroom - m.kv - m.compute
        <3>1. p.ngl = n /\ Parked(m, p) = 0 /\ p.ngl < m.layers BY <1>2, <1>3, <1>5, <1>8, <2>4
        <3>2. ~InRam(x, h.ramTotal) BY <2>2, <2>4, DenseOffloadIs
        <3>3. /\ free \in Int /\ top \in 0..m.layers
              /\ \A l \in 0..m.layers : w * l <= free * m.layers => l <= top
            BY <1>1, DenseLayersAre
        <3>4. top \in Nat /\ m.layers - top \in Nat BY <1>2, <3>3
        <3>5. onGpu \in Nat BY <1>1, <1>5, NeedsAre
        <3>. HIDE DEF top
        <3>6. w * (m.layers - top) \in Nat BY <1>2, <3>4
        <3>7. x \in Int /\ m.layers * x <= w * (m.layers - top)
            <4>. DEFINE most == w * (m.layers - top)
            <4>1. most \in Int BY <3>6
            <4>. HIDE DEF most
            <4>2. most \div m.layers \in Int /\ m.layers * (most \div m.layers) <= most BY <1>2, <4>1, DivIs
            <4>. QED BY <4>2 DEF most
        <3>8. CASE n = 0
            <4>1. Needs(m, p, h).gpu = 0 /\ Needs(m, p, h).ram = w + rest BY <1>1, <1>5, <3>1, <3>8, NeedsAre
            <4>2. need.gpu = 0 /\ need.ram = w + rest BY <4>1 DEF RoundedUp
            <4>3. w * (m.layers - top) <= w * m.layers /\ w * m.layers = m.layers * w
                BY <1>2, <3>4, TimesMono
            <4>4. m.layers * x <= m.layers * w
                <5>. HIDE DEF x, w
                <5>1. m.layers * x \in Int /\ w * m.layers \in Int BY <1>2, <3>7
                <5>. QED BY <3>6, <3>7, <4>3, <5>1
            <4>5. x <= w
                <5>. HIDE DEF x, w
                <5>. QED BY <1>2, <3>7, <4>4, TimesCancel
            <4>. HIDE DEF x, w, need
            <4>6. x <= need.ram BY <1>2, <3>7, <4>2, <4>5
            <4>7. RamOkTotal(need, h) /\ need.ram \in Int /\ need.gpu \in Nat BY <1>0, <1>2, <4>2
            <4>. QED BY <1>1, <3>2, <3>7, <4>6, <4>7, RamOfPlan
        <3>9. CASE n # 0
            <4>1. Needs(m, p, h).gpu = AtLeast0(onGpu + rest - Offset) /\ Needs(m, p, h).ram = w - onGpu
                BY <1>1, <1>5, <1>11, <3>1, <3>9, NeedsAre
            <4>. HIDE DEF onGpu, w
            <4>2. Needs(m, p, h).gpu = onGpu + rest /\ onGpu + rest > 0 BY <1>2, <3>5, <4>1 DEF AtLeast0
            <4>3. need.gpu = onGpu + rest + 1 /\ need.ram = w - onGpu
                <5>1. need = [Needs(m, p, h) EXCEPT !.gpu = @ + 1] BY <1>2, <2>4, <3>5, <4>2 DEF RoundedUp
                <5>2. PICK g, r : Needs(m, p, h) = [gpu |-> g, ram |-> r] BY NeedsHasFields
                <5>. HIDE DEF need
                <5>3. need.gpu = g + 1 /\ need.ram = r BY <5>1, <5>2
                <5>. QED BY <4>1, <4>2, <5>2, <5>3
            <4>. HIDE DEF need, x
            <4>4. need.gpu \in Nat /\ need.gpu # 0 /\ need.ram \in Int BY <1>2, <3>5, <4>3
            <4>5. onGpu + 1 <= free
                <5>1. need.gpu + Headroom <= GpuBudget(h) BY <1>0, <4>4 DEF FitsAlone
                <5>. QED BY <1>1, <1>2, <3>5, <4>3, <5>1
            <4>. HIDE DEF free
            <4>6. w * n \in Int /\ m.layers * onGpu <= w * n /\ w * n < m.layers * onGpu + m.layers
                <5>1. w * n \in Int BY <1>2, <1>3
                <5>. QED BY <1>2, <3>1, <5>1, DivIs DEF onGpu
            <4>7. w * n <= free * m.layers
                <5>1. m.layers * (onGpu + 1) <= m.layers * free
                    <6>. DEFINE l == m.layers
                                u == onGpu + 1
                    <6>1. l \in Nat /\ u \in Int /\ u <= free BY <1>2, <3>3, <3>5, <4>5
                    <6>. HIDE DEF l, u
                    <6>2. l * u <= l * free BY <3>3, <6>1, TimesMono
                    <6>. QED BY <6>2 DEF l, u
                <5>2. m.layers * (onGpu + 1) = m.layers * onGpu + m.layers /\ m.layers * onGpu \in Int BY <1>2, <3>5
                <5>3. m.layers * free = free * m.layers /\ m.layers * free \in Int BY <1>2, <3>3
                <5>. QED BY <1>2, <4>6, <5>1, <5>2, <5>3
            <4>8. n <= top BY <1>2, <1>3, <3>3, <4>7
            <4>9. m.layers * x <= m.layers * (w - onGpu)
                <5>1. w * (m.layers - top) <= w * (m.layers - n) BY <1>2, <1>3, <3>4, <4>8, TimesMono
                <5>2. w * (m.layers - n) = w * m.layers - w * n /\ w * m.layers \in Int BY <1>2, <1>3
                <5>3. m.layers * (w - onGpu) = w * m.layers - m.layers * onGpu /\ m.layers * onGpu \in Int BY <1>2, <3>5
                <5>4. m.layers * x \in Int BY <1>2, <3>7
                <5>. QED BY <3>6, <3>7, <4>6, <5>1, <5>2, <5>3, <5>4
            <4>10. x <= w - onGpu BY <1>2, <3>5, <3>7, <4>9, TimesCancel
            <4>11. RamOkTotal(need, h) BY <1>0
            <4>12. x <= need.ram BY <4>3, <4>10
            <4>. QED BY <1>1, <3>2, <3>7, <4>4, <4>11, <4>12, RamOfPlan DEF x, w
        <3>. QED BY <3>8, <3>9
    <2>. QED BY <2>3, <2>4
<1>. QED BY <1>10, <1>11

LEMMA FitInitSound == FitInit => FitInv
BY FitAssumption DEF FitInit, FitInv, SoundModel

LEMMA FitIsTyped == FitInv => FitTypeOK
BY DEF FitInv, SoundModel, FitTypeOK

LEMMA FitStep == FitInv /\ [FitNext]_fitVars => FitInv'
<1>. SUFFICES ASSUME FitInv, [FitNext]_fitVars PROVE FitInv' OBVIOUS
<1>1. CASE UNCHANGED fitVars BY <1>1 DEF fitVars, FitInv, SoundModel
<1>2. CASE SuggestionApplied
    <2>. DEFINE s == CheckFit(fitModel, fitPreset, machine).suggestion
                v == IF IsMoe(fitModel) THEN MoeOffload(fitModel, fitPreset, machine)
                     ELSE DenseOffload(fitModel, fitPreset, machine)
    <2>1. /\ s # NoSuggestion /\ fitPreset' = Patched(fitPreset, s) /\ UNCHANGED <<fitModel, machine, calibration>>
        BY <1>2 DEF SuggestionApplied
    <2>2. s = v.suggestion BY <2>1, VerdictsAre
    <2>3. SoundModel(fitModel) /\ fitPreset \in FitPreset /\ machine \in Machine
          /\ GpuBudget(machine) \in Nat /\ Headroom \in Nat /\ fitModel.layers \in Nat /\ fitModel.expLayers \in Nat
        BY FitFields, SizesAre DEF FitInv
    <2>4. \E k \in Nat : s = [is |-> "moe", n |-> k] \/ s = [is |-> "dense", n |-> k]
        <3>1. CASE IsMoe(fitModel)
            <4>. DEFINE k == MoeCpuLayers(fitModel, fitPreset, machine)
            <4>1. s = [is |-> "moe", n |-> k] /\ ~(MoeFixed(fitModel, fitPreset) + Headroom > GpuBudget(machine))
                BY <2>1, <2>2, <3>1 DEF MoeOffload, TooBig
            <4>2. MoeFixed(fitModel, fitPreset) \in Int BY <2>3, SizesAre, ParkedIs DEF MoeFixed
            <4>3. k \in Nat BY <2>3, <3>1, <4>1, <4>2, MoeLayersAre
            <4>. QED BY <4>1, <4>3
        <3>2. CASE ~IsMoe(fitModel)
            <4>1. s = [is |-> "dense", n |-> DenseLayers(fitModel, machine)]
                BY <2>1, <2>2, <3>2, DenseOffloadIs DEF TooBig
            <4>2. DenseLayers(fitModel, machine) \in Nat BY <2>3, DenseLayersAre
            <4>. QED BY <4>1, <4>2
        <3>. QED BY <3>1, <3>2
    <2>5. fitPreset' \in FitPreset BY <2>1, <2>3, <2>4, PatchedIs
    <2>. QED BY <2>1, <2>5 DEF FitInv, SoundModel
<1>. QED BY <1>1, <1>2 DEF FitNext

\* For models, presets and machines of every size: a suggestion that is applied
\* makes a plan that fits, if RAM is free for it; a preset is not called too big
\* where another number of layers would make it fit with a unit to spare; and the
\* panel shows the share of the card that the check decides by.
THEOREM VerdictsAreTrue == FitSpec => [](FitTypeOK /\ VerdictsHold)
<1>1. FitInv => FitTypeOK /\ VerdictsHold
    BY SharesAgree, SuggestionsAreEnough, TooBigIsTrue, FitIsTyped DEF VerdictsHold
<1>. QED BY <1>1, FitInitSound, FitStep, PTL DEF FitSpec

==============================================================================
