------------------------------ MODULE SumProofs ------------------------------
(***************************************************************************)
(* Sums of a function over a finite set, SumFunctionOnSet of the community *)
(* modules.  The sum is a recursive function over subsets; what it computes *)
(* is shown by looking at a smallest counterexample.                       *)
(***************************************************************************)
EXTENDS FiniteSetsExt, FiniteSetTheorems, NaturalsInduction, TLAPS

\* The element a fold takes first.
Pick(s) == CHOOSE x \in s : TRUE

Small(S, n) == {s \in SUBSET S : Cardinality(s) <= n}

\* g is the recursive function of the fold, on the sets in D.
Adds(g, f, D) ==
  g = [s \in D |-> IF s = {} THEN 0 ELSE f[Pick(s)] + g[s \ {Pick(s)}]]

\* SumFunctionOnSet is this function.
LEMMA SumByAdding ==
  ASSUME NEW f, NEW S
  PROVE  SumFunctionOnSet(f, S) = (CHOOSE g : Adds(g, f, SUBSET S))[S]
BY DEF SumFunctionOnSet, FoldFunctionOnSet, MapThenFoldSet, Adds, Pick

\* A non-empty set of natural numbers has a least element.
LEMMA LeastElement ==
  ASSUME NEW T \in SUBSET Nat, T # {}
  PROVE  \E m \in T : \A n \in T : m <= n
<1>1. PICK x \in T : \A y \in T : ~(<<y, x>> \in OpToRel(<, Nat))
  BY NatLessThanWellFounded, WFMin, Zenon
<1>2. \A y \in T : x <= y
  <2> SUFFICES ASSUME NEW y \in T, y < x PROVE FALSE
    OBVIOUS
  <2>1. <<y, x>> \in Nat \X Nat /\ <<y, x>>[1] < <<y, x>>[2]
    OBVIOUS
  <2> QED BY <1>1, <2>1, Zenon DEF OpToRel
<1> QED BY <1>2

\* Taking an element out of a finite set.
LEMMA PickSmaller ==
  ASSUME NEW s, IsFiniteSet(s), s # {}
  PROVE  /\ Pick(s) \in s
         /\ IsFiniteSet(s \ {Pick(s)})
         /\ Cardinality(s) \in Nat \ {0}
         /\ Cardinality(s \ {Pick(s)}) = Cardinality(s) - 1
<1>1. Pick(s) \in s
  BY DEF Pick
<1>2. Cardinality(s) \in Nat /\ Cardinality(s) # 0
  BY FS_CardinalityType, FS_EmptySet
<1> QED BY <1>1, <1>2, FS_RemoveElement

\* The recursion is well-founded: such a function exists.
LEMMA AddsExists ==
  ASSUME NEW f, NEW S, IsFiniteSet(S)
  PROVE  \E g : Adds(g, f, SUBSET S)
<1> DEFINE Bad == {n \in Nat : ~\E g : Adds(g, f, Small(S, n))}
<1>1. 0 \notin Bad
  <2> DEFINE g == [s \in Small(S, 0) |-> 0]
  <2>1. \A s \in Small(S, 0) : s = {}
    <3> SUFFICES ASSUME NEW s \in SUBSET S, Cardinality(s) <= 0 PROVE s = {}
      BY DEF Small
    <3>1. IsFiniteSet(s)
      BY FS_Subset
    <3> QED BY <3>1, FS_CardinalityType, FS_EmptySet
  <2>2. Adds(g, f, Small(S, 0))
    BY <2>1, Zenon DEF Adds
  <2> QED BY <2>2
<1>2. ASSUME NEW n \in Nat, n \notin Bad PROVE n + 1 \notin Bad
  <2>1. PICK g : Adds(g, f, Small(S, n))
    BY <1>2
  <2> DEFINE h == [s \in Small(S, n + 1) |->
                    IF s = {} THEN 0 ELSE f[Pick(s)] + g[s \ {Pick(s)}]]
  <2>2. ASSUME NEW s \in Small(S, n + 1), s # {}
        PROVE  h[s \ {Pick(s)}] = g[s \ {Pick(s)}]
    <3> DEFINE r == s \ {Pick(s)}
    <3>1. s \in SUBSET S /\ Cardinality(s) <= n + 1 /\ IsFiniteSet(s)
      BY FS_Subset DEF Small
    <3>2. r \in SUBSET S /\ Cardinality(r) \in Nat /\ Cardinality(r) <= n
      <4>1. Cardinality(r) = Cardinality(s) - 1 /\ Cardinality(s) \in Nat \ {0}
        BY <3>1, <2>2, PickSmaller
      <4>2. r \in SUBSET S
        BY <3>1
      <4> HIDE DEF r
      <4> QED BY <3>1, <4>1, <4>2
    <3>3. r \in Small(S, n) /\ r \in Small(S, n + 1)
      BY <3>2 DEF Small
    <3> HIDE DEF r
    <3>4. h[r] = IF r = {} THEN 0 ELSE f[Pick(r)] + g[r \ {Pick(r)}]
      BY <3>3
    <3>5. g[r] = IF r = {} THEN 0 ELSE f[Pick(r)] + g[r \ {Pick(r)}]
      BY <3>3, <2>1, Zenon DEF Adds
    <3>6. h[r] = g[r]
      BY <3>4, <3>5
    <3> QED BY <3>6 DEF r
  <2>3. Adds(h, f, Small(S, n + 1))
    BY <2>2, Zenon DEF Adds
  <2>4. \E e : Adds(e, f, Small(S, n + 1))
    BY <2>3
  <2> QED BY <2>4
<1>3. Bad = {}
  <2> SUFFICES ASSUME Bad # {} PROVE FALSE
    OBVIOUS
  <2>1. Bad \in SUBSET Nat
    OBVIOUS
  <2> HIDE DEF Bad
  <2>2. PICK m \in Bad : \A n \in Bad : m <= n
    BY <2>1, LeastElement
  <2>3. m \in Nat /\ m # 0
    BY <2>1, <1>1
  <2>4. m - 1 \in Nat /\ m - 1 \notin Bad /\ m = (m - 1) + 1
    BY <2>2, <2>3
  <2> QED BY <2>4, <1>2, <2>2
<1>4. Small(S, Cardinality(S)) = SUBSET S
  BY FS_Subset DEF Small
<1>5. Cardinality(S) \in Nat
  BY FS_CardinalityType
<1> QED BY <1>3, <1>4, <1>5

\* Two such functions agree.
LEMMA AddsUnique ==
  ASSUME NEW f, NEW S, NEW T \in SUBSET S, IsFiniteSet(S), NEW g, NEW h,
         Adds(g, f, SUBSET S), Adds(h, f, SUBSET T)
  PROVE  g[T] = h[T]
<1> DEFINE Bad == {n \in Nat : \E s \in SUBSET T : Cardinality(s) = n /\ g[s] # h[s]}
<1>1. Bad = {}
  <2> SUFFICES ASSUME Bad # {} PROVE FALSE
    OBVIOUS
  <2>1. Bad \in SUBSET Nat
    OBVIOUS
  <2>2. PICK m \in Bad : \A n \in Bad : m <= n
    <3> HIDE DEF Bad
    <3> QED BY <2>1, LeastElement
  <2>3. PICK s \in SUBSET T : Cardinality(s) = m /\ g[s] # h[s]
    OBVIOUS
  <2>4. IsFiniteSet(s)
    BY FS_Subset
  <2>5. /\ g[s] = IF s = {} THEN 0 ELSE f[Pick(s)] + g[s \ {Pick(s)}]
        /\ h[s] = IF s = {} THEN 0 ELSE f[Pick(s)] + h[s \ {Pick(s)}]
    BY Zenon DEF Adds
  <2>6. s # {} /\ g[s \ {Pick(s)}] # h[s \ {Pick(s)}]
    BY <2>3, <2>5
  <2>7. Cardinality(s \ {Pick(s)}) = m - 1 /\ m \in Nat \ {0}
    BY <2>3, <2>4, <2>6, PickSmaller
  <2>8. m - 1 \in Bad
    BY <2>6, <2>7
  <2> HIDE DEF Bad
  <2> QED BY <2>2, <2>7, <2>8
<1>2. IsFiniteSet(T) /\ Cardinality(T) \in Nat
  BY FS_Subset, FS_CardinalityType
<1> QED BY <1>1, <1>2

\* A sum takes its elements one after the other.
LEMMA SumEquation ==
  ASSUME NEW f, NEW S, IsFiniteSet(S)
  PROVE  SumFunctionOnSet(f, S) =
           IF S = {} THEN 0 ELSE f[Pick(S)] + SumFunctionOnSet(f, S \ {Pick(S)})
<1> DEFINE G(T) == CHOOSE g : Adds(g, f, SUBSET T)
           R == S \ {Pick(S)}
<1>1. ASSUME NEW T \in SUBSET S
      PROVE  Adds(G(T), f, SUBSET T) /\ SumFunctionOnSet(f, T) = G(T)[T]
  <2>1. IsFiniteSet(T)
    BY FS_Subset
  <2>2. \E g : Adds(g, f, SUBSET T)
    BY <2>1, AddsExists
  <2> QED BY <2>2, SumByAdding
<1>2. S \in SUBSET S /\ R \in SUBSET S
  OBVIOUS
<1>3. Adds(G(S), f, SUBSET S) /\ Adds(G(R), f, SUBSET R)
  BY <1>1, <1>2
<1>4. SumFunctionOnSet(f, S) = G(S)[S] /\ SumFunctionOnSet(f, R) = G(R)[R]
  BY <1>1, <1>2
<1> HIDE DEF G
<1>5. G(S)[S] = IF S = {} THEN 0 ELSE f[Pick(S)] + G(S)[R]
  BY <1>3, Zenon DEF Adds
<1>6. G(S)[R] = G(R)[R]
  <2> HIDE DEF R
  <2> QED BY <1>2, <1>3, AddsUnique
<1> QED BY <1>4, <1>5, <1>6

-----------------------------------------------------------------------------

\* The empty sum.
LEMMA SumEmpty ==
  ASSUME NEW f
  PROVE  SumFunctionOnSet(f, {}) = 0
BY SumEquation, FS_EmptySet

\* A sum of integers is one, of natural numbers as well, and of zeros is zero.
LEMMA SumType ==
  ASSUME NEW f, NEW S, IsFiniteSet(S), NEW N \in {Nat, Int, {0}}, \A x \in S : f[x] \in N
  PROVE  SumFunctionOnSet(f, S) \in N
<1> DEFINE Bad == {n \in Nat : \E s \in SUBSET S : /\ Cardinality(s) = n
                                                  /\ SumFunctionOnSet(f, s) \notin N}
<1>1. Bad = {}
  <2> SUFFICES ASSUME Bad # {} PROVE FALSE
    OBVIOUS
  <2>1. Bad \in SUBSET Nat
    OBVIOUS
  <2>2. PICK m \in Bad : \A n \in Bad : m <= n
    <3> HIDE DEF Bad
    <3> QED BY <2>1, LeastElement
  <2>3. PICK s \in SUBSET S : Cardinality(s) = m /\ SumFunctionOnSet(f, s) \notin N
    OBVIOUS
  <2>4. IsFiniteSet(s)
    BY FS_Subset
  <2> DEFINE x == Pick(s)
             r == s \ {x}
  <2>5. s # {}
    BY <2>3, SumEmpty
  <2>6. SumFunctionOnSet(f, s) = f[x] + SumFunctionOnSet(f, r)
    BY <2>4, <2>5, SumEquation
  <2>7. x \in s /\ Cardinality(r) = m - 1 /\ m \in Nat \ {0} /\ r \in SUBSET S
    BY <2>3, <2>4, <2>5, PickSmaller
  <2> HIDE DEF x, r
  <2>8. SumFunctionOnSet(f, r) \notin N
    BY <2>3, <2>6, <2>7
  <2>9. m - 1 \in Bad
    BY <2>7, <2>8
  <2> HIDE DEF Bad
  <2> QED BY <2>2, <2>7, <2>9
<1>2. Cardinality(S) \in Nat
  BY FS_CardinalityType
<1> QED BY <1>1, <1>2

\* The order does not matter: any element may be taken out first.
LEMMA SumRemove ==
  ASSUME NEW f, NEW S, IsFiniteSet(S), \A x \in S : f[x] \in Int, NEW a \in S
  PROVE  SumFunctionOnSet(f, S) = f[a] + SumFunctionOnSet(f, S \ {a})
<1> DEFINE Sum(s) == SumFunctionOnSet(f, s)
           Bad == {n \in Nat : \E s \in SUBSET S : \E b \in s :
                     Cardinality(s) = n /\ Sum(s) # f[b] + Sum(s \ {b})}
<1>0. ASSUME NEW s \in SUBSET S PROVE IsFiniteSet(s) /\ Cardinality(s) \in Nat /\ Sum(s) \in Int
  <2>1. IsFiniteSet(s)
    BY FS_Subset
  <2> QED BY <2>1, FS_CardinalityType, SumType
<1>1. Bad = {}
  <2> SUFFICES ASSUME Bad # {} PROVE FALSE
    OBVIOUS
  <2>1. Bad \in SUBSET Nat
    OBVIOUS
  <2>2. PICK m \in Bad : \A n \in Bad : m <= n
    <3> HIDE DEF Bad
    <3> QED BY <2>1, LeastElement
  <2>a. PICK s \in SUBSET S : \E b \in s : Cardinality(s) = m /\ Sum(s) # f[b] + Sum(s \ {b})
    OBVIOUS
  <2>3. PICK b \in s : Cardinality(s) = m /\ Sum(s) # f[b] + Sum(s \ {b})
    BY <2>a
  <2> DEFINE c == Pick(s)
             r == s \ {c}
             q == s \ {b}
             u == r \ {b}
  <2>4. Sum(s) = f[c] + Sum(r)
    BY <2>3, <1>0, SumEquation
  <2>5. c \in s /\ c # b
    BY <2>3, <2>4, PickSmaller, <1>0
  <2>6. Cardinality(r) = m - 1 /\ Cardinality(q) = m - 1 /\ m - 1 \in Nat
    BY <2>3, <2>5, <1>0, FS_RemoveElement, PickSmaller
  <2>7. m - 1 \notin Bad
    <3> HIDE DEF Bad
    <3> QED BY <2>1, <2>2, <2>6
  <2>8. r \in SUBSET S /\ q \in SUBSET S /\ u \in SUBSET S /\ b \in r /\ c \in q /\ u = q \ {c}
    BY <2>5
  <2>9. Sum(r) = f[b] + Sum(r \ {b})
    BY <2>6, <2>7, <2>8
  <2>10. Sum(q) = f[c] + Sum(q \ {c})
    BY <2>6, <2>7, <2>8
  <2>11. Sum(u) \in Int /\ f[b] \in Int /\ f[c] \in Int
    BY <2>5, <2>8, <1>0
  <2>12. Sum(r) = f[b] + Sum(u) /\ Sum(q) = f[c] + Sum(u)
    BY <2>8, <2>9, <2>10
  <2> HIDE DEF Sum, c, r, u, Bad
  <2>13. Sum(s) = f[b] + Sum(q)
    BY <2>4, <2>11, <2>12
  <2> QED BY <2>3, <2>13
<1>2. Cardinality(S) \in Nat
  BY FS_CardinalityType
<1> QED BY <1>1, <1>2

\* One more element.
LEMMA SumAdd ==
  ASSUME NEW f, NEW S, IsFiniteSet(S), NEW a, a \notin S, \A x \in S \cup {a} : f[x] \in Int
  PROVE  SumFunctionOnSet(f, S \cup {a}) = f[a] + SumFunctionOnSet(f, S)
<1>1. IsFiniteSet(S \cup {a})
  BY FS_AddElement
<1>2. (S \cup {a}) \ {a} = S
  OBVIOUS
<1> DEFINE T == S \cup {a}
<1>3. SumFunctionOnSet(f, T) = f[a] + SumFunctionOnSet(f, T \ {a})
  <2>1. a \in T /\ IsFiniteSet(T) /\ \A x \in T : f[x] \in Int
    BY <1>1
  <2> HIDE DEF T
  <2> QED BY <2>1, SumRemove
<1> QED BY <1>2, <1>3

\* Only the summands matter.
LEMMA SumSame ==
  ASSUME NEW f, NEW g, NEW S, IsFiniteSet(S), \A x \in S : f[x] = g[x]
  PROVE  SumFunctionOnSet(f, S) = SumFunctionOnSet(g, S)
<1> DEFINE Bad == {n \in Nat : \E s \in SUBSET S :
                     Cardinality(s) = n /\ SumFunctionOnSet(f, s) # SumFunctionOnSet(g, s)}
<1>1. Bad = {}
  <2> SUFFICES ASSUME Bad # {} PROVE FALSE
    OBVIOUS
  <2>1. Bad \in SUBSET Nat
    OBVIOUS
  <2>2. PICK m \in Bad : \A n \in Bad : m <= n
    <3> HIDE DEF Bad
    <3> QED BY <2>1, LeastElement
  <2>3. PICK s \in SUBSET S :
          Cardinality(s) = m /\ SumFunctionOnSet(f, s) # SumFunctionOnSet(g, s)
    OBVIOUS
  <2>4. IsFiniteSet(s)
    BY FS_Subset
  <2>5. s # {}
    BY <2>3, SumEmpty
  <2> DEFINE x == Pick(s)
             r == s \ {x}
  <2>6. /\ SumFunctionOnSet(f, s) = f[x] + SumFunctionOnSet(f, r)
        /\ SumFunctionOnSet(g, s) = g[x] + SumFunctionOnSet(g, r)
    BY <2>4, <2>5, SumEquation
  <2>7. x \in s /\ Cardinality(r) = m - 1 /\ m \in Nat \ {0} /\ r \in SUBSET S
    BY <2>3, <2>4, <2>5, PickSmaller
  <2> HIDE DEF x, r
  <2>8. SumFunctionOnSet(f, r) # SumFunctionOnSet(g, r)
    BY <2>3, <2>6, <2>7
  <2>9. m - 1 \in Bad
    BY <2>7, <2>8
  <2> HIDE DEF Bad
  <2> QED BY <2>2, <2>7, <2>9
<1>2. Cardinality(S) \in Nat
  BY FS_CardinalityType
<1> QED BY <1>1, <1>2

\* One summand changes.
LEMMA SumChange ==
  ASSUME NEW f, NEW g, NEW S, IsFiniteSet(S), NEW a \in S,
         \A x \in S : f[x] \in Int /\ g[x] \in Int, \A x \in S \ {a} : f[x] = g[x]
  PROVE  SumFunctionOnSet(g, S) = SumFunctionOnSet(f, S) - f[a] + g[a]
<1> DEFINE r == S \ {a}
<1>1. IsFiniteSet(r)
  BY FS_RemoveElement
<1>2. SumFunctionOnSet(f, r) = SumFunctionOnSet(g, r)
  BY <1>1, SumSame
<1>3. SumFunctionOnSet(f, S) = f[a] + SumFunctionOnSet(f, r)
  BY SumRemove
<1>4. SumFunctionOnSet(g, S) = g[a] + SumFunctionOnSet(g, r)
  BY SumRemove
<1>5. SumFunctionOnSet(f, r) \in Int
  BY <1>1, SumType
<1> HIDE DEF r
<1> QED BY <1>2, <1>3, <1>4, <1>5


\* A sum of natural numbers over a part is no more than the sum over the whole.
LEMMA SumSubset ==
  ASSUME NEW f, NEW g, NEW S, NEW T, IsFiniteSet(T), S \subseteq T,
         \A x \in S : f[x] = g[x], \A x \in T : g[x] \in Nat
  PROVE  SumFunctionOnSet(f, S) <= SumFunctionOnSet(g, T)
<1> DEFINE Sum(s) == SumFunctionOnSet(g, s)
           Bad == {n \in Nat : \E s \in SUBSET T :
                     S \subseteq s /\ Cardinality(s) = n /\ ~(Sum(S) <= Sum(s))}
<1>1. ASSUME NEW s \in SUBSET T
      PROVE  IsFiniteSet(s) /\ Cardinality(s) \in Nat /\ Sum(s) \in Nat
  <2>1. IsFiniteSet(s) /\ Cardinality(s) \in Nat
    BY FS_Subset, FS_CardinalityType
  <2>2. Nat \in {Nat, Int}
    OBVIOUS
  <2> QED BY <2>1, <2>2, SumType
<1>2. Bad = {}
  <2> SUFFICES ASSUME Bad # {} PROVE FALSE
    OBVIOUS
  <2>1. PICK m \in Bad : \A n \in Bad : m <= n
    <3>1. Bad \in SUBSET Nat
      OBVIOUS
    <3> HIDE DEF Bad
    <3> QED BY <3>1, LeastElement
  <2>2. PICK s \in SUBSET T : S \subseteq s /\ Cardinality(s) = m /\ ~(Sum(S) <= Sum(s))
    BY <2>1
  <2> HIDE DEF Sum
  <2>3. PICK a \in s : a \notin S
    <3>1. s # S
      BY <1>1, <2>2
    <3> QED BY <2>2, <3>1
  <2> DEFINE r == s \ {a}
  <2>4. r \in SUBSET T /\ S \subseteq r
    BY <2>2, <2>3
  <2>5. Cardinality(r) = m - 1 /\ m - 1 \in Nat
    <3>1. IsFiniteSet(s) /\ Cardinality(r) = Cardinality(s) - 1
      BY <1>1, FS_RemoveElement
    <3>2. Cardinality(r) \in Nat
      BY <1>1, <2>4
    <3> QED BY <2>2, <3>1, <3>2
  <2>6. Sum(s) = g[a] + Sum(r)
    <3>1. IsFiniteSet(s) /\ \A x \in s : g[x] \in Int
      BY <1>1
    <3> QED BY <3>1, SumRemove DEF Sum
  <2>7. m - 1 \notin Bad
    BY <2>1, <2>5
  <2>8. Sum(S) <= Sum(r)
    BY <2>4, <2>5, <2>7
  <2>9. Sum(S) \in Nat /\ Sum(r) \in Nat /\ g[a] \in Nat
    BY <1>1, <2>4
  <2> QED BY <2>2, <2>6, <2>8, <2>9
<1>3. Sum(S) <= Sum(T)
  <2> SUFFICES ASSUME ~(Sum(S) <= Sum(T)) PROVE FALSE
    OBVIOUS
  <2>1. Cardinality(T) \in Nat /\ T \in SUBSET T
    BY <1>1
  <2>2. Cardinality(T) \in Bad
    BY <2>1
  <2> QED BY <1>2, <2>2
<1>4. SumFunctionOnSet(f, S) = Sum(S)
  BY <1>1, SumSame
<1> QED BY <1>3, <1>4
=============================================================================
