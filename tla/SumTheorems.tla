---------------------------- MODULE SumTheorems -----------------------------
(***************************************************************************)
(* Induction over the naturals and over finite sets, functions defined by  *)
(* iteration, and what the sums of the models add up to.  An induction is  *)
(* made on the set of the numbers for which a statement holds: that set is *)
(* all of Nat, since a least number outside it cannot be.                  *)
(***************************************************************************)
EXTENDS Integers, FiniteSets, FiniteSetsExt, FiniteSetTheorems, WellFoundedInduction, TLAPS

\* A set of naturals has a least member.
LEMMA LeastNat ==
  ASSUME NEW T, T \subseteq Nat, T # {}
  PROVE  \E n \in T : \A m \in T : n <= m
<1> DEFINE R == {p \in Nat \X Nat : p[1] < p[2]}
<1>1. IsWellFoundedOn(R, Nat)
  BY NatLessThanWellFounded DEF OpToRel
<1>2. \A m, n \in Nat : <<m, n>> \in R <=> m < n
  OBVIOUS
<1> HIDE DEF R
<1>3. PICK n \in T : \A m \in T : ~ (<<m, n>> \in R)
  BY <1>1, WFMin
<1>4. \A m \in T : m \in Nat /\ n \in Nat /\ ~(m < n)
  BY <1>2, <1>3
<1> QED
  BY <1>3, <1>4

\* What holds of 0, and of a number's successor with the number, holds of all.
LEMMA AllNaturals ==
  ASSUME NEW T, 0 \in T, \A n \in Nat : n \in T => n + 1 \in T
  PROVE  \A n \in Nat : n \in T
<1> DEFINE U == {n \in Nat : n \notin T}
<1> SUFFICES ASSUME U # {} PROVE FALSE
  OBVIOUS
<1>1. PICK n \in U : \A m \in U : n <= m
  BY LeastNat
<1>2. n \in Nat /\ n # 0
  BY <1>1
<1>3. n - 1 \in Nat /\ n - 1 \notin U /\ (n - 1) + 1 = n
  BY <1>1, <1>2
<1> QED
  BY <1>1, <1>3

\* A set of numbers up to some bound has a greatest.
LEMMA GreatestNat ==
  ASSUME NEW m \in Nat, NEW T, T \subseteq 1 .. m, T # {}
  PROVE  \E x \in T : \A y \in T : x >= y
<1> DEFINE U == {m - x : x \in T}
<1>1. U \subseteq Nat /\ U # {}
  <2>1. \A x \in T : x \in 1 .. m /\ m - x \in Nat
    OBVIOUS
  <2> QED
    BY <2>1
<1>2. PICK u \in U : \A v \in U : u <= v
  BY <1>1, LeastNat
<1>3. PICK x \in T : u = m - x
  BY <1>2
<1>4. \A y \in T : m - x <= m - y
  BY <1>2, <1>3
<1> QED
  BY <1>3, <1>4

\* f starts with a, and up to m each of its values is t of the one before.
Iterates(f, V, a, t, m) ==
  /\ f \in [Nat -> V]
  /\ \A i \in Nat : i <= m => f[i] = IF i <= 1 THEN a ELSE t[f[i - 1]]

Iteration(f, V, a, t) == \A m \in Nat : Iterates(f, V, a, t, m)

\* Two such functions agree.
LEMMA IteratesAgree ==
  ASSUME NEW V, NEW a \in V, NEW t \in [V -> V], NEW f, NEW g, NEW m \in Nat,
         Iterates(f, V, a, t, m), Iterates(g, V, a, t, m)
  PROVE  \A i \in Nat : i <= m => f[i] = g[i]
<1> DEFINE U == {i \in Nat : i <= m => f[i] = g[i]}
<1>1. 0 \in U
  BY DEF Iterates
<1>2. ASSUME NEW i \in Nat, i \in U PROVE i + 1 \in U
  <2> SUFFICES ASSUME i + 1 <= m PROVE f[i + 1] = g[i + 1]
    OBVIOUS
  <2>1. f[i] = g[i]
    BY <1>2
  <2>2. (i + 1) - 1 = i /\ i + 1 \in Nat
    OBVIOUS
  <2>3. /\ f[i + 1] = IF i + 1 <= 1 THEN a ELSE t[f[i]]
        /\ g[i + 1] = IF i + 1 <= 1 THEN a ELSE t[g[i]]
    BY <2>2 DEF Iterates
  <2> QED
    BY <2>1, <2>3
<1>3. \A i \in Nat : i \in U
  <2> HIDE DEF U
  <2> QED
    BY <1>1, <1>2, AllNaturals
<1> QED
  BY <1>3

\* A value and a function from values to values can be iterated: this is how
\* the loops the model writes as recursive functions are known to exist.
LEMMA IterationExists ==
  ASSUME NEW V, NEW a \in V, NEW t \in [V -> V]
  PROVE  \E d : Iteration(d, V, a, t)
<1> DEFINE T == {m \in Nat : \E f : Iterates(f, V, a, t, m)}
<1>1. 0 \in T
  <2> DEFINE f == [i \in Nat |-> a]
  <2>1. Iterates(f, V, a, t, 0)
    BY DEF Iterates
  <2> QED
    BY <2>1
<1>2. ASSUME NEW m \in Nat, m \in T PROVE m + 1 \in T
  <2>1. PICK f : Iterates(f, V, a, t, m)
    BY <1>2
  <2> DEFINE g == [f EXCEPT ![m + 1] = IF m + 1 <= 1 THEN a ELSE t[f[m]]]
  <2>2. f[m] \in V /\ t[f[m]] \in V
    BY <2>1 DEF Iterates
  <2>3. g \in [Nat -> V]
    BY <2>1, <2>2 DEF Iterates
  <2>4. \A i \in Nat : i <= m => g[i] = f[i]
    BY <2>1
  <2>5. g[m + 1] = IF m + 1 <= 1 THEN a ELSE t[f[m]]
    BY <2>1 DEF Iterates
  <2> HIDE DEF g
  <2>6. ASSUME NEW i \in Nat, i <= m + 1 PROVE g[i] = IF i <= 1 THEN a ELSE t[g[i - 1]]
    <3>1. CASE i = m + 1
      <4>1. i - 1 = m /\ g[m] = f[m]
        BY <2>4, <3>1
      <4> QED
        BY <2>5, <3>1, <4>1
    <3>2. CASE i # m + 1
      <4>1. i <= m /\ g[i] = f[i]
        BY <2>4, <2>6, <3>2
      <4>2. i > 1 => i - 1 \in Nat /\ i - 1 <= m /\ g[i - 1] = f[i - 1]
        BY <2>4, <4>1
      <4> QED
        BY <2>1, <4>1, <4>2 DEF Iterates
    <3> QED
      BY <3>1, <3>2
  <2>7. Iterates(g, V, a, t, m + 1)
    BY <2>3, <2>6 DEF Iterates
  <2> QED
    BY <2>7
<1>3. \A m \in Nat : m \in T
  <2> HIDE DEF T
  <2> QED
    BY <1>1, <1>2, AllNaturals
<1> DEFINE F(m) == CHOOSE f : Iterates(f, V, a, t, m)
           h == [i \in Nat |-> F(i)[i]]
<1>7. \A m \in Nat : Iterates(F(m), V, a, t, m)
  BY <1>3
<1>8. ASSUME NEW i \in Nat PROVE h[i] = IF i <= 1 THEN a ELSE t[h[i - 1]]
  <2>1. F(i)[i] = IF i <= 1 THEN a ELSE t[F(i)[i - 1]]
    <3>1. Iterates(F(i), V, a, t, i) /\ i <= i
      BY <1>7
    <3> HIDE DEF F
    <3> QED
      BY <3>1 DEF Iterates
  <2>2. ASSUME i > 1 PROVE F(i)[i - 1] = F(i - 1)[i - 1]
    <3>1. i - 1 \in Nat /\ i - 1 <= i
      BY <2>2
    <3>2. Iterates(F(i - 1), V, a, t, i - 1) /\ Iterates(F(i), V, a, t, i)
      BY <1>7, <3>1
    <3>3. Iterates(F(i), V, a, t, i - 1)
      BY <3>1, <3>2 DEF Iterates
    <3> HIDE DEF F
    <3> QED
      BY <3>1, <3>2, <3>3, IteratesAgree
  <2>3. h[i] = F(i)[i] /\ (i > 1 => h[i - 1] = F(i - 1)[i - 1])
    OBVIOUS
  <2> HIDE DEF F, h
  <2> QED
    BY <2>1, <2>2, <2>3
<1>9. h \in [Nat -> V]
  <2>1. ASSUME NEW i \in Nat PROVE F(i)[i] \in V
    <3>1. Iterates(F(i), V, a, t, i)
      BY <1>7
    <3> HIDE DEF F
    <3> QED
      BY <3>1 DEF Iterates
  <2> HIDE DEF F
  <2> QED
    BY <2>1
<1> HIDE DEF h
<1>10. Iteration(h, V, a, t)
  BY <1>8, <1>9 DEF Iteration, Iterates
<1> QED
  BY <1>10

\* The recursion of SumFunctionOnSet: a set's members are taken as CHOOSE picks them.
AnyOf(s) == CHOOSE x \in s : TRUE
SumStep(g, f, s) == IF s = {} THEN 0 ELSE f[AnyOf(s)] + g[s \ {AnyOf(s)}]
Summed(g, f, S) == g = [s \in SUBSET S |-> SumStep(g, f, s)]

\* The member picked is one.
LEMMA AnyOfIn ==
  ASSUME NEW s, s # {}
  PROVE  AnyOf(s) \in s
  BY DEF AnyOf

\* The sum is the value of the function that recursion defines.
LEMMA SumIsChosen ==
  ASSUME NEW f, NEW S
  PROVE  SumFunctionOnSet(f, S) = (CHOOSE g : Summed(g, f, S))[S]
  BY DEF SumFunctionOnSet, FoldFunctionOnSet, MapThenFoldSet, Summed, SumStep, AnyOf

\* A finite set without one of its members.
LEMMA OneOut ==
  ASSUME NEW s, IsFiniteSet(s), NEW x \in s
  PROVE  /\ IsFiniteSet(s \ {x}) /\ Cardinality(s \ {x}) = Cardinality(s) - 1
         /\ Cardinality(s) \in Nat \ {0} /\ Cardinality(s \ {x}) \in Nat
<1>1. Cardinality(s) \in Nat /\ IsFiniteSet(s \ {x}) /\ Cardinality(s \ {x}) = Cardinality(s) - 1
  BY FS_CardinalityType, FS_RemoveElement
<1>2. Cardinality(s \ {x}) \in Nat
  BY <1>1, FS_CardinalityType
<1> QED
  BY <1>1, <1>2

\* Subsets of up to n members, and a function that adds up those.
Upto(S, n) == {s \in SUBSET S : Cardinality(s) <= n}
SummedTo(g, f, S, n) == \A s \in Upto(S, n) : g[s] = SumStep(g, f, s)

\* There is such a function: by induction on the number of members.
LEMMA SumExists ==
  ASSUME NEW S, IsFiniteSet(S), NEW f, \A x \in S : f[x] \in Int
  PROVE  \E g \in [SUBSET S -> Int] : Summed(g, f, S)
<1> DEFINE T == {n \in Nat : \E g \in [SUBSET S -> Int] : SummedTo(g, f, S, n)}
<1>0. \A s \in SUBSET S : IsFiniteSet(s) /\ Cardinality(s) \in Nat
  BY FS_Subset, FS_CardinalityType
<1>1. 0 \in T
  <2> DEFINE g == [s \in SUBSET S |-> 0]
  <2>1. \A s \in Upto(S, 0) : s = {}
    BY <1>0, FS_EmptySet DEF Upto
  <2>2. SummedTo(g, f, S, 0)
    BY <2>1 DEF SummedTo, SumStep, Upto
  <2>3. g \in [SUBSET S -> Int]
    OBVIOUS
  <2> HIDE DEF g
  <2> QED
    BY <2>2, <2>3
<1>2. ASSUME NEW n \in Nat, n \in T PROVE n + 1 \in T
  <2>1. PICK g \in [SUBSET S -> Int] : SummedTo(g, f, S, n)
    BY <1>2
  <2> DEFINE h == [s \in SUBSET S |-> IF s \in Upto(S, n) THEN g[s] ELSE SumStep(g, f, s)]
  <2>2. ASSUME NEW s \in SUBSET S PROVE SumStep(g, f, s) \in Int
    BY AnyOfIn DEF SumStep
  <2>3. h \in [SUBSET S -> Int]
    BY <2>1, <2>2
  <2>4. ASSUME NEW s \in Upto(S, n + 1) PROVE h[s] = SumStep(h, f, s)
    <3>1. CASE s = {}
      <4>1. s \in Upto(S, n)
        BY <3>1, FS_EmptySet DEF Upto
      <4>2. g[s] = 0
        BY <2>1, <3>1, <4>1 DEF SummedTo, SumStep
      <4> QED
        BY <3>1, <4>1, <4>2 DEF SumStep
    <3>2. CASE s # {}
      <4> DEFINE r == s \ {AnyOf(s)}
      <4>0. s \in SUBSET S /\ Cardinality(s) \in Nat /\ Cardinality(s) <= n + 1
        BY <1>0 DEF Upto
      <4>1. r \in SUBSET S /\ Cardinality(r) = Cardinality(s) - 1
        BY <1>0, <3>2, <4>0, AnyOfIn, OneOut
      <4>2. r \in Upto(S, n)
        BY <4>0, <4>1 DEF Upto
      <4>3. h[r] = g[r]
        BY <4>1, <4>2
      <4>4. SumStep(h, f, s) = SumStep(g, f, s)
        BY <3>2, <4>3 DEF SumStep
      <4>5. h[s] = SumStep(g, f, s)
        BY <2>1, <4>0 DEF SummedTo
      <4> QED
        BY <4>4, <4>5
    <3> QED
      BY <3>1, <3>2
  <2>5. SummedTo(h, f, S, n + 1)
    BY <2>4 DEF SummedTo
  <2> QED
    BY <2>3, <2>5
<1>3. Cardinality(S) \in T
  <2> HIDE DEF T
  <2> QED
    BY <1>0, <1>1, <1>2, AllNaturals
<1>4. PICK g \in [SUBSET S -> Int] : SummedTo(g, f, S, Cardinality(S))
  BY <1>3
<1>5. Upto(S, Cardinality(S)) = SUBSET S
  BY FS_Subset DEF Upto
<1>6. Summed(g, f, S)
  BY <1>4, <1>5 DEF Summed, SummedTo
<1> QED
  BY <1>4, <1>6

\* And there is but one, on a set and on its subsets.
LEMMA SumUnique ==
  ASSUME NEW S, IsFiniteSet(S), NEW R, R \subseteq S, NEW f, NEW g, NEW h,
         Summed(g, f, S), Summed(h, f, R)
  PROVE  \A s \in SUBSET R : g[s] = h[s]
<1> DEFINE T == {n \in Nat : \A s \in Upto(R, n) : g[s] = h[s]}
<1>0. \A s \in SUBSET R : IsFiniteSet(s) /\ Cardinality(s) \in Nat /\ s \in SUBSET S
  BY FS_Subset, FS_CardinalityType
<1>a. \A s \in SUBSET R : g[s] = SumStep(g, f, s) /\ h[s] = SumStep(h, f, s)
  BY <1>0 DEF Summed
<1>1. 0 \in T
  <2>1. \A s \in Upto(R, 0) : s = {}
    BY <1>0, FS_EmptySet DEF Upto
  <2> QED
    BY <1>a, <2>1 DEF SumStep, Upto
<1>2. ASSUME NEW n \in Nat, n \in T PROVE n + 1 \in T
  <2> SUFFICES ASSUME NEW s \in Upto(R, n + 1) PROVE g[s] = h[s]
    OBVIOUS
  <2>1. CASE s = {}
    BY <1>a, <2>1 DEF SumStep, Upto
  <2>2. CASE s # {}
    <3> DEFINE r == s \ {AnyOf(s)}
    <3>0. s \in SUBSET R /\ Cardinality(s) \in Nat /\ Cardinality(s) <= n + 1
      BY <1>0 DEF Upto
    <3>1. r \in SUBSET R /\ Cardinality(r) = Cardinality(s) - 1
      BY <1>0, <2>2, <3>0, AnyOfIn, OneOut
    <3>2. g[r] = h[r]
      BY <1>2, <3>0, <3>1 DEF Upto
    <3> QED
      BY <1>a, <2>2, <3>0, <3>2 DEF SumStep
  <2> QED
    BY <2>1, <2>2
<1>3. ASSUME NEW s \in SUBSET R PROVE g[s] = h[s]
  <2>1. Cardinality(s) \in T
    <3> HIDE DEF T
    <3> QED
      BY <1>0, <1>1, <1>2, AllNaturals
  <2> QED
    BY <1>0, <2>1 DEF Upto
<1> QED
  BY <1>3

\* A sum takes its members in the order of the choices.
LEMMA SumChoice ==
  ASSUME NEW S, IsFiniteSet(S), NEW f, \A x \in S : f[x] \in Int
  PROVE  /\ SumFunctionOnSet(f, S) \in Int
         /\ S = {} => SumFunctionOnSet(f, S) = 0
         /\ S # {} => SumFunctionOnSet(f, S) = f[AnyOf(S)] + SumFunctionOnSet(f, S \ {AnyOf(S)})
<1> DEFINE g == CHOOSE g : Summed(g, f, S)
           R == S \ {AnyOf(S)}
           h == CHOOSE h : Summed(h, f, R)
           fR == [x \in R |-> f[x]]
<1>1. PICK g1 \in [SUBSET S -> Int] : Summed(g1, f, S)
  BY SumExists
<1>2. Summed(g, f, S)
  BY <1>1
<1>3. PICK h1 : Summed(h1, f, R)
  <2>1. Summed([s \in SUBSET R |-> g1[s]], f, R)
    <3> DEFINE k == [s \in SUBSET R |-> g1[s]]
    <3>1. ASSUME NEW s \in SUBSET R PROVE k[s] = SumStep(k, f, s)
      <4>1. k[s] = SumStep(g1, f, s)
        BY <1>1 DEF Summed
      <4>2. SumStep(g1, f, s) = SumStep(k, f, s)
        BY DEF SumStep
      <4> QED
        BY <4>1, <4>2
    <3>2. k = [s \in SUBSET R |-> SumStep(k, f, s)]
      BY <3>1
    <3> QED
      BY <3>2 DEF Summed
  <2> QED
    BY <2>1
<1>4. Summed(h, f, R)
  BY <1>3
<1>5. SumFunctionOnSet(f, S) = g[S] /\ SumFunctionOnSet(f, R) = h[R]
  BY SumIsChosen
<1> HIDE DEF g, h
<1>6. g[S] = g1[S]
  BY <1>1, <1>2, SumUnique
<1>7. g[S] = SumStep(g, f, S)
  BY <1>2 DEF Summed
<1>8. R \subseteq S /\ g[R] = h[R]
  BY <1>2, <1>4, SumUnique
<1> HIDE DEF R
<1>9. SumFunctionOnSet(f, S) \in Int
  BY <1>1, <1>5, <1>6
<1>10. S = {} => SumFunctionOnSet(f, S) = 0
  BY <1>5, <1>7 DEF SumStep
<1>11. S # {} => SumFunctionOnSet(f, S) = f[AnyOf(S)] + SumFunctionOnSet(f, R)
  BY <1>5, <1>7, <1>8 DEF SumStep, R
<1> QED
  BY <1>9, <1>10, <1>11 DEF R

\* Which member is taken out of a sum does not matter.
LEMMA SumTakes ==
  ASSUME NEW S, IsFiniteSet(S), NEW f, \A x \in S : f[x] \in Int
  PROVE  \A x \in S : SumFunctionOnSet(f, S) = f[x] + SumFunctionOnSet(f, S \ {x})
<1> DEFINE Takes(s) == \A x \in s : SumFunctionOnSet(f, s) = f[x] + SumFunctionOnSet(f, s \ {x})
           T == {n \in Nat : \A s \in Upto(S, n) : Takes(s)}
<1>0. \A s \in SUBSET S : IsFiniteSet(s) /\ Cardinality(s) \in Nat
  BY FS_Subset, FS_CardinalityType
<1>a. \A s \in SUBSET S : SumFunctionOnSet(f, s) \in Int
  BY <1>0, SumChoice
<1>1. 0 \in T
  <2>1. \A s \in Upto(S, 0) : s = {}
    BY <1>0, FS_EmptySet DEF Upto
  <2> QED
    BY <2>1
<1>2. ASSUME NEW n \in Nat, n \in T PROVE n + 1 \in T
  <2> SUFFICES ASSUME NEW s \in Upto(S, n + 1), NEW x \in s
               PROVE  SumFunctionOnSet(f, s) = f[x] + SumFunctionOnSet(f, s \ {x})
    OBVIOUS
  <2> DEFINE c == AnyOf(s)
  <2>0. s \in SUBSET S /\ IsFiniteSet(s) /\ Cardinality(s) \in Nat /\ Cardinality(s) <= n + 1
    BY <1>0 DEF Upto
  <2>1. c \in s /\ SumFunctionOnSet(f, s) = f[c] + SumFunctionOnSet(f, s \ {c})
    BY <2>0, AnyOfIn, SumChoice
  <2> HIDE DEF c
  <2>2. CASE x = c
    BY <2>1, <2>2
  <2>3. CASE x # c
    <3> DEFINE r == s \ {c}
               q == s \ {x}
    <3>1. /\ r \in SUBSET S /\ Cardinality(r) = Cardinality(s) - 1
          /\ q \in SUBSET S /\ Cardinality(q) = Cardinality(s) - 1
      BY <2>0, <2>1, OneOut
    <3>2. Takes(r) /\ Takes(q)
      BY <1>2, <2>0, <3>1 DEF Upto
    <3>3. SumFunctionOnSet(f, r) = f[x] + SumFunctionOnSet(f, r \ {x})
      BY <2>3, <3>2
    <3>4. SumFunctionOnSet(f, q) = f[c] + SumFunctionOnSet(f, q \ {c})
      BY <2>1, <2>3, <3>2
    <3>5. r \ {x} = q \ {c} /\ r \ {x} \in SUBSET S
      BY <2>0
    <3>6. f[x] \in Int /\ f[c] \in Int /\ SumFunctionOnSet(f, r \ {x}) \in Int
      BY <1>a, <2>0, <2>1, <3>5
    <3> HIDE DEF r, q
    <3>7. SumFunctionOnSet(f, s) = f[c] + SumFunctionOnSet(f, r)
      BY <2>1 DEF r
    <3>8. SumFunctionOnSet(f, s) = f[x] + SumFunctionOnSet(f, q)
      <4> DEFINE rest == SumFunctionOnSet(f, r \ {x})
      <4>1. /\ SumFunctionOnSet(f, r) = f[x] + rest
            /\ SumFunctionOnSet(f, q) = f[c] + rest /\ rest \in Int
        BY <3>3, <3>4, <3>5, <3>6
      <4> HIDE DEF rest
      <4> QED
        BY <3>6, <3>7, <4>1
    <3> QED
      BY <3>8 DEF q
  <2> QED
    BY <2>2, <2>3
<1>3. Cardinality(S) \in T
  <2> HIDE DEF T
  <2> QED
    BY <1>0, <1>1, <1>2, AllNaturals
<1> QED
  BY <1>0, <1>3 DEF Upto

\* Equal members, equal sums.
LEMMA SumSame ==
  ASSUME NEW S, IsFiniteSet(S), NEW f, NEW e, \A x \in S : f[x] \in Int, \A x \in S : e[x] = f[x]
  PROVE  SumFunctionOnSet(e, S) = SumFunctionOnSet(f, S)
<1> DEFINE g == CHOOSE g : Summed(g, f, S)
           h == CHOOSE h : Summed(h, e, S)
<1>1. \E k : Summed(k, f, S)
  BY SumExists
<1>2. \E k : Summed(k, e, S)
  <2>1. \A x \in S : e[x] \in Int
    OBVIOUS
  <2> QED
    BY <2>1, SumExists
<1>3. Summed(g, f, S) /\ Summed(h, e, S)
  BY <1>1, <1>2
<1>4. SumFunctionOnSet(f, S) = g[S] /\ SumFunctionOnSet(e, S) = h[S]
  BY SumIsChosen
<1> HIDE DEF g, h
<1>5. \A s \in SUBSET S : SumStep(h, e, s) = SumStep(h, f, s)
  BY AnyOfIn DEF SumStep
<1>6. Summed(h, f, S)
  BY <1>3, <1>5 DEF Summed
<1> QED
  BY <1>3, <1>4, <1>6, SumUnique

\* One member changes.
LEMMA SumChange ==
  ASSUME NEW S, IsFiniteSet(S), NEW f, NEW e, NEW x \in S,
         \A y \in S : f[y] \in Int, e[x] \in Int, \A y \in S \ {x} : e[y] = f[y]
  PROVE  SumFunctionOnSet(e, S) = SumFunctionOnSet(f, S) + e[x] - f[x]
<1>1. \A y \in S : e[y] \in Int
  OBVIOUS
<1>2. SumFunctionOnSet(f, S) = f[x] + SumFunctionOnSet(f, S \ {x})
  BY SumTakes
<1>3. SumFunctionOnSet(e, S) = e[x] + SumFunctionOnSet(e, S \ {x})
  BY <1>1, SumTakes
<1>4. IsFiniteSet(S \ {x})
  BY OneOut
<1>5. SumFunctionOnSet(e, S \ {x}) = SumFunctionOnSet(f, S \ {x}) /\ SumFunctionOnSet(f, S \ {x}) \in Int
  <2>1. \A y \in S \ {x} : f[y] \in Int /\ e[y] = f[y]
    OBVIOUS
  <2> QED
    BY <1>4, <2>1, SumSame, SumChoice
<1> QED
  BY <1>1, <1>2, <1>3, <1>5

\* A sum of naturals.
LEMMA SumIsNat ==
  ASSUME NEW S, IsFiniteSet(S), NEW f, \A x \in S : f[x] \in Nat
  PROVE  SumFunctionOnSet(f, S) \in Nat
<1> DEFINE T == {n \in Nat : \A s \in Upto(S, n) : SumFunctionOnSet(f, s) \in Nat}
<1>0. \A s \in SUBSET S : IsFiniteSet(s) /\ Cardinality(s) \in Nat
  BY FS_Subset, FS_CardinalityType
<1>a. \A x \in S : f[x] \in Int
  OBVIOUS
<1>1. 0 \in T
  <2>1. \A s \in Upto(S, 0) : s = {}
    BY <1>0, FS_EmptySet DEF Upto
  <2>2. SumFunctionOnSet(f, {}) = 0
    BY FS_EmptySet, SumChoice
  <2> QED
    BY <2>1, <2>2
<1>2. ASSUME NEW n \in Nat, n \in T PROVE n + 1 \in T
  <2> SUFFICES ASSUME NEW s \in Upto(S, n + 1) PROVE SumFunctionOnSet(f, s) \in Nat
    OBVIOUS
  <2>0. s \in SUBSET S /\ IsFiniteSet(s) /\ Cardinality(s) \in Nat /\ Cardinality(s) <= n + 1
    BY <1>0 DEF Upto
  <2>1. CASE s = {}
    BY <2>1, FS_EmptySet, SumChoice
  <2>2. CASE s # {}
    <3>1. PICK x \in s : TRUE
      BY <2>2
    <3>2. SumFunctionOnSet(f, s) = f[x] + SumFunctionOnSet(f, s \ {x})
      BY <1>a, <2>0, SumTakes
    <3>3. s \ {x} \in Upto(S, n)
      BY <2>0, OneOut DEF Upto
    <3>4. SumFunctionOnSet(f, s \ {x}) \in Nat /\ f[x] \in Nat
      BY <1>2, <2>0, <3>3
    <3> QED
      BY <3>2, <3>4
  <2> QED
    BY <2>1, <2>2
<1>3. Cardinality(S) \in T
  <2> HIDE DEF T
  <2> QED
    BY <1>0, <1>1, <1>2, AllNaturals
<1> QED
  BY <1>0, <1>3 DEF Upto

\* No member is larger, nor is the sum.
LEMMA SumLeq ==
  ASSUME NEW S, IsFiniteSet(S), NEW f, NEW e, \A x \in S : f[x] \in Int /\ e[x] \in Int /\ e[x] <= f[x]
  PROVE  SumFunctionOnSet(e, S) <= SumFunctionOnSet(f, S)
<1> DEFINE T == {n \in Nat : \A s \in Upto(S, n) : SumFunctionOnSet(e, s) <= SumFunctionOnSet(f, s)}
<1>0. \A s \in SUBSET S : IsFiniteSet(s) /\ Cardinality(s) \in Nat
  BY FS_Subset, FS_CardinalityType
<1>a. \A s \in SUBSET S : SumFunctionOnSet(e, s) \in Int /\ SumFunctionOnSet(f, s) \in Int
  BY <1>0, SumChoice
<1>b. SumFunctionOnSet(e, {}) = 0 /\ SumFunctionOnSet(f, {}) = 0
  BY FS_EmptySet, SumChoice
<1>1. 0 \in T
  <2>1. \A s \in Upto(S, 0) : s = {}
    BY <1>0, FS_EmptySet DEF Upto
  <2> QED
    BY <1>b, <2>1
<1>2. ASSUME NEW n \in Nat, n \in T PROVE n + 1 \in T
  <2> SUFFICES ASSUME NEW s \in Upto(S, n + 1) PROVE SumFunctionOnSet(e, s) <= SumFunctionOnSet(f, s)
    OBVIOUS
  <2>0. s \in SUBSET S /\ IsFiniteSet(s) /\ Cardinality(s) \in Nat /\ Cardinality(s) <= n + 1
    BY <1>0 DEF Upto
  <2>1. CASE s = {}
    BY <1>b, <2>1
  <2>2. CASE s # {}
    <3>1. PICK x \in s : TRUE
      BY <2>2
    <3>2. /\ SumFunctionOnSet(f, s) = f[x] + SumFunctionOnSet(f, s \ {x})
          /\ SumFunctionOnSet(e, s) = e[x] + SumFunctionOnSet(e, s \ {x})
      BY <2>0, SumTakes
    <3>3. s \ {x} \in Upto(S, n) /\ s \ {x} \in SUBSET S
      BY <2>0, OneOut DEF Upto
    <3>4. /\ SumFunctionOnSet(e, s \ {x}) <= SumFunctionOnSet(f, s \ {x})
          /\ SumFunctionOnSet(e, s \ {x}) \in Int /\ SumFunctionOnSet(f, s \ {x}) \in Int
          /\ e[x] <= f[x] /\ e[x] \in Int /\ f[x] \in Int
      BY <1>2, <1>a, <2>0, <3>3
    <3> QED
      BY <3>2, <3>4
  <2> QED
    BY <2>1, <2>2
<1>3. Cardinality(S) \in T
  <2> HIDE DEF T
  <2> QED
    BY <1>0, <1>1, <1>2, AllNaturals
<1> QED
  BY <1>0, <1>3 DEF Upto

\* Nothing adds up to nothing.
LEMMA SumOfZeros ==
  ASSUME NEW S, IsFiniteSet(S), NEW f, \A x \in S : f[x] = 0
  PROVE  SumFunctionOnSet(f, S) = 0
<1> DEFINE T == {n \in Nat : \A s \in Upto(S, n) : SumFunctionOnSet(f, s) = 0}
<1>0. \A s \in SUBSET S : IsFiniteSet(s) /\ Cardinality(s) \in Nat
  BY FS_Subset, FS_CardinalityType
<1>1. 0 \in T
  <2>1. \A s \in Upto(S, 0) : s = {}
    BY <1>0, FS_EmptySet DEF Upto
  <2>2. SumFunctionOnSet(f, {}) = 0
    BY FS_EmptySet, SumChoice
  <2> QED
    BY <2>1, <2>2
<1>2. ASSUME NEW n \in Nat, n \in T PROVE n + 1 \in T
  <2> SUFFICES ASSUME NEW s \in Upto(S, n + 1) PROVE SumFunctionOnSet(f, s) = 0
    OBVIOUS
  <2>0. s \in SUBSET S /\ IsFiniteSet(s) /\ Cardinality(s) \in Nat /\ Cardinality(s) <= n + 1
    BY <1>0 DEF Upto
  <2>1. CASE s = {}
    BY <2>1, FS_EmptySet, SumChoice
  <2>2. CASE s # {}
    <3>1. PICK x \in s : TRUE
      BY <2>2
    <3>2. \A y \in s : f[y] \in Int
      BY <2>0
    <3>3. SumFunctionOnSet(f, s) = f[x] + SumFunctionOnSet(f, s \ {x})
      BY <2>0, <3>2, SumTakes
    <3>4. s \ {x} \in Upto(S, n)
      BY <2>0, OneOut DEF Upto
    <3>5. SumFunctionOnSet(f, s \ {x}) = 0 /\ f[x] = 0
      BY <1>2, <2>0, <3>4
    <3> QED
      BY <3>3, <3>5
  <2> QED
    BY <2>1, <2>2
<1>3. Cardinality(S) \in T
  <2> HIDE DEF T
  <2> QED
    BY <1>0, <1>1, <1>2, AllNaturals
<1> QED
  BY <1>0, <1>3 DEF Upto
=============================================================================
