-------------------------------- MODULE Sums --------------------------------
(***************************************************************************)
(* Facts about finite sums, for the proofs: the operator MapThenSumSet of  *)
(* the community modules is a fold over a recursive function whose order   *)
(* nobody chooses.                                                         *)
(*                                                                         *)
(* The induction theorems of the library take an operator as a parameter,  *)
(* which the provers do not instantiate. Here the predicate is a set: of   *)
(* naturals (NatSetInduction) or of subsets (SubsetInduction), so that an  *)
(* induction is an ordinary step.                                          *)
(***************************************************************************)
EXTENDS Integers, FiniteSetsExt, FiniteSetTheorems, WellFoundedInduction, TLAPS

\* The sum of the values of f on S.
SumOf(f, S) == MapThenSumSet(LAMBDA x : f[x], S)

-----------------------------------------------------------------------------
(* Induction. *)

\* A set of naturals has a least member: the intervals that begin at 1 are ordered
\* by inclusion, which is well-founded on finite sets.
LEMMA LeastNumber ==
    ASSUME NEW T \in SUBSET Nat, T # {}
    PROVE  \E m \in T : \A k \in T : m <= k
<1> DEFINE F == {1..k : k \in T}
           R == StrictSubsetOrdering(Nat)
           S == FiniteSubsetsOf(Nat)
<1>1. IsWellFoundedOn(R, S)
  BY FS_StrictSubsetOrderingWellFounded
<1>2. F \subseteq S
  <2> SUFFICES ASSUME NEW k \in T PROVE 1..k \in S
    OBVIOUS
  <2>1. IsFiniteSet(1..k)
    BY FS_Interval
  <2> QED BY <2>1 DEF FiniteSubsetsOf
<1>3. F # {}
  OBVIOUS
<1>4. PICK x \in F : \A y \in F : ~(<<y, x>> \in R)
  <2> HIDE DEF F, R, S
  <2> QED BY <1>1, <1>2, <1>3, WFMin
<1>5. PICK m \in T : x = 1..m
  OBVIOUS
<1>6. ASSUME NEW k \in T, k < m PROVE FALSE
  <2>1. 1..k \in F /\ 1..k \subseteq x /\ 1..k # x /\ 1..k \subseteq Nat /\ x \subseteq Nat
    BY <1>5, <1>6
  <2>2. <<1..k, x>> \in R
    BY <2>1 DEF StrictSubsetOrdering
  <2> QED BY <1>4, <2>1, <2>2
<1> QED BY <1>6

\* The least number of a set is a member.
LEMMA LeastMember ==
    ASSUME NEW T \in SUBSET Nat, T # {}
    PROVE  Min(T) \in T /\ \A k \in T : Min(T) <= k
<1>1. \E m \in T : \A k \in T : m <= k
  BY LeastNumber
<1> QED BY <1>1 DEF Min

LEMMA NatSetInduction ==
    ASSUME NEW P, 0 \in P, \A n \in Nat : n \in P => n + 1 \in P
    PROVE  \A n \in Nat : n \in P
<1> SUFFICES ASSUME NEW n \in Nat, n \notin P PROVE FALSE
  OBVIOUS
<1>1. PICK m \in Nat \ P : \A k \in Nat \ P : m <= k
  <2>1. (Nat \ P) \in SUBSET Nat /\ Nat \ P # {}
    OBVIOUS
  <2> QED BY <2>1, LeastNumber
<1>2. m - 1 \in Nat /\ m - 1 \in P
  BY <1>1
<1> QED BY <1>1, <1>2

LEMMA SubsetInduction ==
    ASSUME NEW S, IsFiniteSet(S), NEW P, {} \in P,
           \A A \in SUBSET S : \A x \in S \ A : A \in P => A \cup {x} \in P
    PROVE  S \in P
<1> DEFINE Q == {n \in Nat : \A A \in SUBSET S : Cardinality(A) = n => A \in P}
<1>1. \A A \in SUBSET S : IsFiniteSet(A) /\ Cardinality(A) \in Nat
  BY FS_Subset, FS_CardinalityType
<1>2. 0 \in Q
  <2>1. \A A \in SUBSET S : Cardinality(A) = 0 => A = {}
    BY <1>1, FS_EmptySet
  <2> QED BY <2>1
<1>3. ASSUME NEW n \in Nat, n \in Q PROVE n + 1 \in Q
  <2> SUFFICES ASSUME NEW A \in SUBSET S, Cardinality(A) = n + 1 PROVE A \in P
    OBVIOUS
  <2>1. A # {}
    <3>1. ASSUME A = {} PROVE Cardinality(A) = 0
      BY <3>1, FS_EmptySet
    <3> QED BY <3>1
  <2>2. PICK x \in A : TRUE
    BY <2>1
  <2>3. Cardinality(A \ {x}) = n
    <3>1. IsFiniteSet(A)
      BY <1>1
    <3>2. Cardinality(A \ {x}) = Cardinality(A) - 1
      BY <3>1, FS_RemoveElement
    <3> QED BY <3>2
  <2>4. A \ {x} \in P /\ A \ {x} \in SUBSET S /\ x \in S \ (A \ {x})
    BY <1>3, <2>2, <2>3
  <2>5. A = (A \ {x}) \cup {x}
    BY <2>2
  <2>6. (A \ {x}) \cup {x} \in P
    BY <2>4
  <2> QED BY <2>5, <2>6
<1>4. \A n \in Nat : n \in Q
  <2> HIDE DEF Q
  <2> QED BY <1>2, <1>3, NatSetInduction
<1> QED BY <1>1, <1>4

-----------------------------------------------------------------------------
(* The recursive function of the fold. *)

Some(s) == CHOOSE x \in s : TRUE

\* g adds f up on the sets of U.
Adds(g, f, U) ==
    g = [s \in U |-> IF s = {} THEN 0 ELSE f[Some(s)] + g[s \ {Some(s)}]]

\* There is such a function, whatever f: for the sets of up to n members it is made
\* of the one for those of fewer.
LEMMA AddsExists ==
    ASSUME NEW f, NEW S, IsFiniteSet(S)
    PROVE  \E g : Adds(g, f, SUBSET S)
<1> DEFINE U(n) == {s \in SUBSET S : Cardinality(s) <= n}
           P == {n \in Nat : \E g : Adds(g, f, U(n))}
<1>1. \A s \in SUBSET S : IsFiniteSet(s) /\ Cardinality(s) \in Nat
  BY FS_Subset, FS_CardinalityType
<1>2. \A s \in SUBSET S : s # {} =>
        /\ Some(s) \in s /\ s \ {Some(s)} \in SUBSET S
        /\ Cardinality(s \ {Some(s)}) = Cardinality(s) - 1
  BY <1>1, FS_RemoveElement DEF Some
<1>3. 0 \in P
  <2>1. \A s \in U(0) : s = {}
    BY <1>1, FS_EmptySet
  <2>2. Adds([s \in U(0) |-> 0], f, U(0))
    <3> HIDE DEF U
    <3> QED BY <2>1 DEF Adds
  <2> QED BY <2>2
<1>4. ASSUME NEW n \in Nat, n \in P PROVE n + 1 \in P
  <2>1. PICK g : Adds(g, f, U(n))
    BY <1>4
  <2>2. PICK h : h = [s \in U(n + 1) |-> IF s = {} THEN 0 ELSE f[Some(s)] + g[s \ {Some(s)}]]
    OBVIOUS
  <2>3. \A s \in U(n + 1) : s # {} => s \ {Some(s)} \in U(n)
    BY <1>1, <1>2
  <2>4. U(n) \subseteq U(n + 1)
    BY <1>1
  <2> HIDE DEF U
  <2>5. \A s \in U(n) : h[s] = g[s]
    BY <2>1, <2>2, <2>4 DEF Adds
  <2>6. Adds(h, f, U(n + 1))
    BY <2>2, <2>3, <2>5 DEF Adds
  <2> QED BY <2>6
<1>5. Cardinality(S) \in P
  <2>1. \A n \in Nat : n \in P
    <3> HIDE DEF P
    <3> QED BY <1>3, <1>4, NatSetInduction
  <2> QED BY <1>1, <2>1
<1>6. U(Cardinality(S)) = SUBSET S
  BY FS_Subset
<1> QED BY <1>5, <1>6

LEMMA SumIsFold ==
    ASSUME NEW f, NEW S, IsFiniteSet(S)
    PROVE  \E g : Adds(g, f, SUBSET S) /\ SumOf(f, S) = g[S]
<1> DEFINE g == CHOOSE g : Adds(g, f, SUBSET S)
<1>1. Adds(g, f, SUBSET S)
  BY AddsExists
<1>2. SumOf(f, S) = g[S]
  BY DEF SumOf, MapThenSumSet, MapThenFoldSet, Adds, Some
<1> QED BY <1>1, <1>2

\* g and h add up functions that have the same values on T.
BothAdd(g, f, S, h, e, R, T) ==
    /\ IsFiniteSet(S) /\ Adds(g, f, SUBSET S) /\ Adds(h, e, SUBSET R)
    /\ T \subseteq S /\ T \subseteq R /\ \A x \in T : e[x] = f[x]

\* There is only one such function.
LEMMA AddsOnce ==
    ASSUME NEW f, NEW S, NEW g, NEW e, NEW R, NEW h, NEW T, BothAdd(g, f, S, h, e, R, T)
    PROVE  g[T] = h[T]
<1>0. /\ IsFiniteSet(S) /\ Adds(g, f, SUBSET S) /\ Adds(h, e, SUBSET R)
      /\ T \subseteq S /\ T \subseteq R /\ \A x \in T : e[x] = f[x]
  BY DEF BothAdd
<1> DEFINE P == {n \in Nat : \A A \in SUBSET T : Cardinality(A) = n => g[A] = h[A]}
<1>1. \A A \in SUBSET T : IsFiniteSet(A) /\ Cardinality(A) \in Nat /\ A \in SUBSET S /\ A \in SUBSET R
  BY <1>0, FS_Subset, FS_CardinalityType
<1>2. \A A \in SUBSET T :
        /\ g[A] = IF A = {} THEN 0 ELSE f[Some(A)] + g[A \ {Some(A)}]
        /\ h[A] = IF A = {} THEN 0 ELSE e[Some(A)] + h[A \ {Some(A)}]
  BY <1>0, <1>1 DEF Adds
<1>3. 0 \in P
  <2>1. \A A \in SUBSET T : Cardinality(A) = 0 => A = {}
    BY <1>1, FS_EmptySet
  <2> QED BY <1>2, <2>1
<1>4. ASSUME NEW n \in Nat, n \in P PROVE n + 1 \in P
  <2> SUFFICES ASSUME NEW A \in SUBSET T, Cardinality(A) = n + 1 PROVE g[A] = h[A]
    OBVIOUS
  <2>1. A # {}
    <3>1. ASSUME A = {} PROVE Cardinality(A) = 0
      BY <3>1, FS_EmptySet
    <3> QED BY <3>1
  <2>2. PICK x \in A : x = Some(A)
    BY <2>1 DEF Some
  <2>3. Cardinality(A \ {x}) = n
    <3>1. IsFiniteSet(A)
      BY <1>1
    <3>2. Cardinality(A \ {x}) = Cardinality(A) - 1
      BY <3>1, FS_RemoveElement
    <3> QED BY <3>2
  <2>4. g[A \ {x}] = h[A \ {x}]
    BY <1>4, <2>3
  <2> QED BY <1>0, <1>2, <2>1, <2>2, <2>4
<1>5. \A n \in Nat : n \in P
  <2> HIDE DEF P
  <2> QED BY <1>3, <1>4, NatSetInduction
<1> QED BY <1>1, <1>5

-----------------------------------------------------------------------------
(* The algebra of sums. *)

LEMMA SumEmpty == \A f : SumOf(f, {}) = 0
<1> SUFFICES ASSUME NEW f PROVE SumOf(f, {}) = 0
  OBVIOUS
<1>1. PICK g : Adds(g, f, SUBSET {}) /\ SumOf(f, {}) = g[{}]
  BY SumIsFold, FS_EmptySet
<1> QED BY <1>1 DEF Adds

\* The sum depends on the values alone.
LEMMA SumSame ==
    ASSUME NEW S, IsFiniteSet(S), NEW f, NEW e, \A x \in S : f[x] = e[x]
    PROVE  SumOf(f, S) = SumOf(e, S)
<1>1. PICK g : Adds(g, f, SUBSET S) /\ SumOf(f, S) = g[S]
  BY SumIsFold
<1>2. PICK h : Adds(h, e, SUBSET S) /\ SumOf(e, S) = h[S]
  BY SumIsFold
<1>3. g[S] = h[S]
  <2>1. BothAdd(g, f, S, h, e, S, S)
    BY <1>1, <1>2 DEF BothAdd
  <2> QED BY <2>1, AddsOnce
<1> QED BY <1>1, <1>2, <1>3

LEMMA SumFirst ==
    ASSUME NEW S, IsFiniteSet(S), S # {}, NEW f
    PROVE  Some(S) \in S /\ SumOf(f, S) = f[Some(S)] + SumOf(f, S \ {Some(S)})
<1>1. PICK x \in S : x = Some(S)
  BY DEF Some
<1>2. PICK g : Adds(g, f, SUBSET S) /\ SumOf(f, S) = g[S]
  BY SumIsFold
<1>3. IsFiniteSet(S \ {x})
  BY FS_RemoveElement
<1>4. PICK h : Adds(h, f, SUBSET (S \ {x})) /\ SumOf(f, S \ {x}) = h[S \ {x}]
  BY <1>3, SumIsFold
<1>5. g[S \ {x}] = h[S \ {x}]
  <2>1. BothAdd(g, f, S, h, f, S \ {x}, S \ {x})
    BY <1>2, <1>4 DEF BothAdd
  <2> QED BY <2>1, AddsOnce
<1>6. g[S] = f[x] + g[S \ {x}]
  BY <1>1, <1>2 DEF Adds
<1> QED BY <1>1, <1>2, <1>4, <1>5, <1>6

LEMMA SumType ==
    ASSUME NEW S, IsFiniteSet(S), NEW f, \A x \in S : f[x] \in Int
    PROVE  SumOf(f, S) \in Int
<1> DEFINE P == {n \in Nat : \A A \in SUBSET S : Cardinality(A) = n => SumOf(f, A) \in Int}
<1>1. \A A \in SUBSET S : IsFiniteSet(A) /\ Cardinality(A) \in Nat
  BY FS_Subset, FS_CardinalityType
<1>2. 0 \in P
  <2>1. \A A \in SUBSET S : Cardinality(A) = 0 => A = {}
    BY <1>1, FS_EmptySet
  <2> QED BY <2>1, SumEmpty
<1>3. ASSUME NEW n \in Nat, n \in P PROVE n + 1 \in P
  <2> SUFFICES ASSUME NEW A \in SUBSET S, Cardinality(A) = n + 1 PROVE SumOf(f, A) \in Int
    OBVIOUS
  <2>1. A # {}
    <3>1. ASSUME A = {} PROVE Cardinality(A) = 0
      BY <3>1, FS_EmptySet
    <3> QED BY <3>1
  <2>2. PICK x \in A : x = Some(A) /\ SumOf(f, A) = f[x] + SumOf(f, A \ {x})
    BY <1>1, <2>1, SumFirst
  <2>3. Cardinality(A \ {x}) = n
    <3>1. IsFiniteSet(A)
      BY <1>1
    <3>2. Cardinality(A \ {x}) = Cardinality(A) - 1
      BY <3>1, FS_RemoveElement
    <3> QED BY <3>2
  <2>4. SumOf(f, A \ {x}) \in Int
    BY <1>3, <2>3
  <2> QED BY <2>2, <2>4
<1>4. \A n \in Nat : n \in P
  <2> HIDE DEF P
  <2> QED BY <1>2, <1>3, NatSetInduction
<1> QED BY <1>1, <1>4

\* Any member may be taken out.
LEMMA SumRemove ==
    ASSUME NEW S, IsFiniteSet(S), NEW f, \A x \in S : f[x] \in Int, NEW y \in S
    PROVE  /\ SumOf(f, S) = f[y] + SumOf(f, S \ {y})
           /\ SumOf(f, S \ {y}) \in Int
<1> DEFINE P == {n \in Nat : \A A \in SUBSET S : Cardinality(A) = n =>
                    \A x \in A : SumOf(f, A) = f[x] + SumOf(f, A \ {x})}
<1>1. \A A \in SUBSET S : IsFiniteSet(A) /\ Cardinality(A) \in Nat
  BY FS_Subset, FS_CardinalityType
<1>2. \A A \in SUBSET S : SumOf(f, A) \in Int
  BY <1>1, SumType
<1>3. 0 \in P
  <2>1. \A A \in SUBSET S : Cardinality(A) = 0 => A = {}
    BY <1>1, FS_EmptySet
  <2> QED BY <2>1
<1>4. ASSUME NEW n \in Nat, n \in P PROVE n + 1 \in P
  <2> SUFFICES ASSUME NEW A \in SUBSET S, Cardinality(A) = n + 1, NEW x \in A
               PROVE  SumOf(f, A) = f[x] + SumOf(f, A \ {x})
    OBVIOUS
  <2>1. PICK c \in A : c = Some(A) /\ SumOf(f, A) = f[c] + SumOf(f, A \ {c})
    BY <1>1, SumFirst
  <2>2. CASE x = c
    BY <2>1, <2>2
  <2>3. CASE x # c
    <3>1. \A z \in A : Cardinality(A \ {z}) = n /\ A \ {z} \in SUBSET S
      <4>1. IsFiniteSet(A)
        BY <1>1
      <4>2. \A z \in A : Cardinality(A \ {z}) = Cardinality(A) - 1
        BY <4>1, FS_RemoveElement
      <4> QED BY <4>2
    <3>2. \A z \in A : \A w \in A \ {z} :
            SumOf(f, A \ {z}) = f[w] + SumOf(f, (A \ {z}) \ {w})
      BY <1>4, <3>1
    <3>3. /\ SumOf(f, A \ {c}) = f[x] + SumOf(f, (A \ {c}) \ {x})
          /\ SumOf(f, A \ {x}) = f[c] + SumOf(f, (A \ {x}) \ {c})
      BY <2>3, <3>2
    <3>4. (A \ {c}) \ {x} = (A \ {x}) \ {c} /\ (A \ {x}) \ {c} \in SUBSET S
      OBVIOUS
    <3>5. PICK r \in Int : r = SumOf(f, (A \ {x}) \ {c})
      BY <1>2, <3>4
    <3>6. f[x] \in Int /\ f[c] \in Int
      OBVIOUS
    <3>7. /\ SumOf(f, A \ {c}) = f[x] + r /\ SumOf(f, A \ {x}) = f[c] + r
      BY <3>3, <3>4, <3>5
    <3> QED BY <2>1, <3>5, <3>6, <3>7
  <2> QED BY <2>2, <2>3
<1>5. \A n \in Nat : n \in P
  <2> HIDE DEF P
  <2> QED BY <1>3, <1>4, NatSetInduction
<1>6. S \in SUBSET S /\ S \ {y} \in SUBSET S
  OBVIOUS
<1>7. SumOf(f, S) = f[y] + SumOf(f, S \ {y})
  BY <1>1, <1>5, <1>6
<1> QED BY <1>2, <1>6, <1>7

LEMMA SumAdd ==
    ASSUME NEW S, IsFiniteSet(S), NEW y, y \notin S, NEW f,
           \A x \in S \cup {y} : f[x] \in Int
    PROVE  SumOf(f, S \cup {y}) = f[y] + SumOf(f, S)
<1>1. IsFiniteSet(S \cup {y}) /\ (S \cup {y}) \ {y} = S /\ y \in S \cup {y}
  BY FS_AddElement
<1> QED BY <1>1, SumRemove

\* Another value of one member.
LEMMA SumChange ==
    ASSUME NEW S, IsFiniteSet(S), NEW y \in S, NEW f, NEW e,
           \A x \in S : f[x] \in Int /\ e[x] \in Int,
           \A x \in S \ {y} : e[x] = f[x]
    PROVE  /\ SumOf(e, S) = SumOf(f, S) - f[y] + e[y]
           /\ SumOf(f, S) \in Int /\ SumOf(e, S) \in Int
<1>1. IsFiniteSet(S \ {y})
  BY FS_RemoveElement
<1>2. SumOf(e, S \ {y}) = SumOf(f, S \ {y})
  BY <1>1, SumSame
<1>3. /\ SumOf(f, S) = f[y] + SumOf(f, S \ {y}) /\ SumOf(f, S \ {y}) \in Int
  BY SumRemove
<1>4. SumOf(e, S) = e[y] + SumOf(e, S \ {y})
  BY SumRemove
<1>5. f[y] \in Int /\ e[y] \in Int
  OBVIOUS
<1> QED BY <1>2, <1>3, <1>4, <1>5

\* A sum is at most that of larger values.
LEMMA SumAtMost ==
    ASSUME NEW S, IsFiniteSet(S), NEW f, NEW e,
           \A x \in S : f[x] \in Int /\ e[x] \in Int /\ f[x] <= e[x]
    PROVE  SumOf(f, S) <= SumOf(e, S)
<1> DEFINE P == {A \in SUBSET S : SumOf(f, A) <= SumOf(e, A)}
<1>1. {} \in P
  BY SumEmpty
<1>2. ASSUME NEW A \in SUBSET S, NEW x \in S \ A, A \in P PROVE A \cup {x} \in P
  <2>1. IsFiniteSet(A)
    BY FS_Subset
  <2>2. SumOf(f, A) \in Int /\ SumOf(e, A) \in Int /\ SumOf(f, A) <= SumOf(e, A)
    BY <1>2, <2>1, SumType
  <2>3. SumOf(f, A \cup {x}) = f[x] + SumOf(f, A)
    BY <2>1, SumAdd
  <2>4. SumOf(e, A \cup {x}) = e[x] + SumOf(e, A)
    BY <2>1, SumAdd
  <2>5. f[x] \in Int /\ e[x] \in Int /\ f[x] <= e[x] /\ A \cup {x} \in SUBSET S
    OBVIOUS
  <2> QED BY <2>2, <2>3, <2>4, <2>5
<1>3. S \in P
  <2> HIDE DEF P
  <2> QED BY <1>1, <1>2, SubsetInduction
<1> QED BY <1>3

\* A sum of naturals is one, at least each of them and each part of it.
LEMMA SumNat ==
    ASSUME NEW S, IsFiniteSet(S), NEW f, \A x \in S : f[x] \in Nat
    PROVE  /\ SumOf(f, S) \in Nat
           /\ \A x \in S : f[x] <= SumOf(f, S)
<1>1. \A A \in SUBSET S : IsFiniteSet(A)
  BY FS_Subset
<1> DEFINE P == {A \in SUBSET S : SumOf(f, A) >= 0}
<1>2. {} \in P
  BY SumEmpty
<1>3. ASSUME NEW A \in SUBSET S, NEW x \in S \ A, A \in P PROVE A \cup {x} \in P
  <2>1. IsFiniteSet(A) /\ SumOf(f, A) \in Int /\ SumOf(f, A) >= 0
    BY <1>1, <1>3, SumType
  <2>2. SumOf(f, A \cup {x}) = f[x] + SumOf(f, A)
    <3>1. x \notin A /\ \A y \in A \cup {x} : f[y] \in Int
      OBVIOUS
    <3> QED BY <2>1, <3>1, SumAdd
  <2>3. f[x] \in Nat /\ A \cup {x} \in SUBSET S
    OBVIOUS
  <2> QED BY <2>1, <2>2, <2>3
<1>4. ASSUME NEW A \in SUBSET S PROVE SumOf(f, A) \in Nat
  <2>1. IsFiniteSet(A) /\ A \in SUBSET A
    BY <1>1
  <2>2. A \in P
    <3>1. \A B \in SUBSET A : \A x \in A \ B : B \in P => B \cup {x} \in P
      BY <1>3
    <3> HIDE DEF P
    <3> QED BY <1>2, <2>1, <3>1, SubsetInduction
  <2>3. SumOf(f, A) \in Int
    BY <2>1, SumType
  <2> QED BY <2>2, <2>3
<1>5. ASSUME NEW x \in S PROVE f[x] <= SumOf(f, S)
  <2>1. SumOf(f, S) = f[x] + SumOf(f, S \ {x})
    BY SumRemove
  <2>2. SumOf(f, S \ {x}) \in Nat
    BY <1>4
  <2> QED BY <2>1, <2>2
<1> QED BY <1>4, <1>5

\* Nothing but zeros.
LEMMA SumZero ==
    ASSUME NEW S, IsFiniteSet(S), NEW f, \A x \in S : f[x] = 0
    PROVE  SumOf(f, S) = 0
<1> DEFINE P == {A \in SUBSET S : SumOf(f, A) = 0}
<1>1. {} \in P
  BY SumEmpty
<1>2. ASSUME NEW A \in SUBSET S, NEW x \in S \ A, A \in P PROVE A \cup {x} \in P
  <2>1. IsFiniteSet(A)
    BY FS_Subset
  <2>2. SumOf(f, A \cup {x}) = f[x] + SumOf(f, A)
    <3>1. x \notin A /\ \A y \in A \cup {x} : f[y] \in Int
      OBVIOUS
    <3> QED BY <2>1, <3>1, SumAdd
  <2> QED BY <1>2, <2>2
<1>3. S \in P
  <2> HIDE DEF P
  <2> QED BY <1>1, <1>2, SubsetInduction
<1> QED BY <1>3

\* Two sets without a common member.
LEMMA SumUnion ==
    ASSUME NEW S, IsFiniteSet(S), NEW R, IsFiniteSet(R), S \cap R = {}, NEW f,
           \A x \in S \cup R : f[x] \in Int
    PROVE  SumOf(f, S \cup R) = SumOf(f, S) + SumOf(f, R)
<1> DEFINE P == {A \in SUBSET R : SumOf(f, S \cup A) = SumOf(f, S) + SumOf(f, A)}
<1>0. SumOf(f, S) \in Int
  BY SumType
<1>1. {} \in P
  <2>1. S \cup {} = S
    OBVIOUS
  <2> QED BY <1>0, <2>1, SumEmpty
<1>2. ASSUME NEW A \in SUBSET R, NEW x \in R \ A, A \in P PROVE A \cup {x} \in P
  <2>1. IsFiniteSet(A) /\ IsFiniteSet(S \cup A)
    BY FS_Subset, FS_Union
  <2>2. SumOf(f, A \cup {x}) = f[x] + SumOf(f, A)
    <3>1. x \notin A /\ \A y \in A \cup {x} : f[y] \in Int
      OBVIOUS
    <3> QED BY <2>1, <3>1, SumAdd
  <2>3. SumOf(f, (S \cup A) \cup {x}) = f[x] + SumOf(f, S \cup A)
    <3>1. x \notin S \cup A /\ \A y \in (S \cup A) \cup {x} : f[y] \in Int
      OBVIOUS
    <3> QED BY <2>1, <3>1, SumAdd
  <2>4. (S \cup A) \cup {x} = S \cup (A \cup {x}) /\ A \cup {x} \in SUBSET R /\ f[x] \in Int
    OBVIOUS
  <2>5. SumOf(f, A) \in Int
    BY <2>1, SumType
  <2>6. SumOf(f, S \cup (A \cup {x})) = f[x] + SumOf(f, S \cup A)
    BY <2>3, <2>4
  <2>7. SumOf(f, S \cup A) = SumOf(f, S) + SumOf(f, A)
    BY <1>2
  <2>8. SumOf(f, S \cup (A \cup {x})) = SumOf(f, S) + SumOf(f, A \cup {x})
    BY <1>0, <2>2, <2>4, <2>5, <2>6, <2>7
  <2> QED BY <2>4, <2>8
<1>3. R \in P
  <2> HIDE DEF P
  <2> QED BY <1>1, <1>2, SubsetInduction
<1> QED BY <1>3

\* The sum of two functions.
LEMMA SumPlus ==
    ASSUME NEW S, IsFiniteSet(S), NEW f, NEW e, NEW g,
           \A x \in S : f[x] \in Int /\ e[x] \in Int /\ g[x] = f[x] + e[x]
    PROVE  /\ SumOf(g, S) = SumOf(f, S) + SumOf(e, S)
           /\ SumOf(f, S) \in Int /\ SumOf(e, S) \in Int
<1> DEFINE P == {A \in SUBSET S : SumOf(g, A) = SumOf(f, A) + SumOf(e, A)}
<1>1. {} \in P
  BY SumEmpty
<1>2. ASSUME NEW A \in SUBSET S, NEW x \in S \ A, A \in P
      PROVE  A \cup {x} \in P
  <2>1. IsFiniteSet(A)
    BY FS_Subset
  <2>2. /\ SumOf(g, A \cup {x}) = g[x] + SumOf(g, A)
        /\ SumOf(f, A \cup {x}) = f[x] + SumOf(f, A)
        /\ SumOf(e, A \cup {x}) = e[x] + SumOf(e, A)
    <3>1. \A y \in A \cup {x} : f[y] \in Int /\ e[y] \in Int /\ g[y] \in Int
      OBVIOUS
    <3> QED BY <2>1, <3>1, SumAdd
  <2>3. SumOf(f, A) \in Int /\ SumOf(e, A) \in Int
    BY <2>1, SumType
  <2> QED BY <1>2, <2>2, <2>3
<1>3. S \in P
  <2> HIDE DEF P
  <2> QED BY <1>1, <1>2, SubsetInduction
<1>4. SumOf(f, S) \in Int /\ SumOf(e, S) \in Int
  BY SumType
<1> QED BY <1>3, <1>4

\* A part of naturals.
LEMMA SumPart ==
    ASSUME NEW S, IsFiniteSet(S), NEW R \in SUBSET S, NEW f, \A x \in S : f[x] \in Nat
    PROVE  SumOf(f, R) <= SumOf(f, S)
<1>1. IsFiniteSet(R) /\ IsFiniteSet(S \ R) /\ R \cup (S \ R) = S /\ R \cap (S \ R) = {}
  BY FS_Subset
<1>2. \A x \in R \cup (S \ R) : f[x] \in Int
  OBVIOUS
<1>3. SumOf(f, R \cup (S \ R)) = SumOf(f, R) + SumOf(f, S \ R)
  BY <1>1, <1>2, SumUnion
<1>4. SumOf(f, R) \in Nat /\ SumOf(f, S \ R) \in Nat
  BY <1>1, SumNat
<1>5. SumOf(f, S) = SumOf(f, R) + SumOf(f, S \ R)
  BY <1>1, <1>3
<1> QED BY <1>4, <1>5

-----------------------------------------------------------------------------
(* Sums over intervals. *)

LEMMA SumUpTo ==
    ASSUME NEW a \in Int, NEW n \in Int, a <= n + 1, NEW f, \A k \in a..n + 1 : f[k] \in Int
    PROVE  SumOf(f, a..n + 1) = SumOf(f, a..n) + f[n + 1]
<1>1. IsFiniteSet(a..n)
  BY FS_Interval
<1>2. a..n + 1 = (a..n) \cup {n + 1} /\ n + 1 \notin a..n
  OBVIOUS
<1>3. \A k \in (a..n) \cup {n + 1} : f[k] \in Int
  BY <1>2
<1>4. SumOf(f, (a..n) \cup {n + 1}) = f[n + 1] + SumOf(f, a..n)
  BY <1>1, <1>2, <1>3, SumAdd
<1>5. SumOf(f, a..n) \in Int /\ f[n + 1] \in Int
  BY <1>1, <1>3, SumType
<1>6. SumOf(f, a..n + 1) = f[n + 1] + SumOf(f, a..n)
  BY <1>2, <1>4
<1> QED BY <1>5, <1>6

\* Everything one place further.
LEMMA SumMoved ==
    ASSUME NEW a \in Int, NEW n \in Nat, NEW f, NEW e,
           \A k \in a..a + n : f[k] \in Int /\ e[k + 1] = f[k]
    PROVE  SumOf(e, a + 1..a + n + 1) = SumOf(f, a..a + n)
<1> DEFINE P == {m \in Nat : m <= n => SumOf(e, a + 1..a + m + 1) = SumOf(f, a..a + m)}
<1>1. 0 \in P
  <2>1. IsFiniteSet({}) /\ a \notin {} /\ a + 1 \notin {}
    BY FS_EmptySet
  <2>2. /\ \A x \in {} \cup {a} : f[x] \in Int
        /\ \A x \in {} \cup {a + 1} : e[x] \in Int
        /\ e[a + 1] = f[a] /\ f[a] \in Int
    <3>1. a \in a..a + n
      OBVIOUS
    <3> QED BY <3>1
  <2>3. SumOf(f, {} \cup {a}) = f[a] + SumOf(f, {})
    BY <2>1, <2>2, SumAdd
  <2>4. SumOf(e, {} \cup {a + 1}) = e[a + 1] + SumOf(e, {})
    BY <2>1, <2>2, SumAdd
  <2>5. a..a + 0 = {} \cup {a} /\ a + 1..a + 0 + 1 = {} \cup {a + 1}
    OBVIOUS
  <2> QED BY <2>2, <2>3, <2>4, <2>5, SumEmpty
<1>2. ASSUME NEW m \in Nat, m \in P PROVE m + 1 \in P
  <2> SUFFICES ASSUME m + 1 <= n
               PROVE  SumOf(e, a + 1..a + (m + 1) + 1) = SumOf(f, a..a + (m + 1))
    OBVIOUS
  <2>1. SumOf(e, a + 1..a + m + 1) = SumOf(f, a..a + m)
    BY <1>2
  <2>2. PICK b \in Int : b = a + m
    OBVIOUS
  <2>3. \A k \in a..b + 1 : f[k] \in Int /\ e[k + 1] = f[k]
    BY <2>2
  <2>4. SumOf(f, a..b + 1) = SumOf(f, a..b) + f[b + 1]
    <3>1. a <= b + 1
      BY <2>2
    <3> QED BY <2>3, <3>1, SumUpTo
  <2>5. SumOf(e, a + 1..(b + 1) + 1) = SumOf(e, a + 1..b + 1) + e[(b + 1) + 1]
    <3>1. \A k \in a + 1..(b + 1) + 1 : e[k] \in Int
      <4>1. \A k \in a + 1..(b + 1) + 1 : k - 1 \in a..b + 1 /\ k = (k - 1) + 1
        OBVIOUS
      <4> QED BY <2>3, <4>1
    <3>2. a + 1 \in Int /\ b + 1 \in Int /\ a + 1 <= (b + 1) + 1
      BY <2>2
    <3> QED BY <3>1, <3>2, SumUpTo
  <2>6. e[(b + 1) + 1] = f[b + 1]
    <3>1. b + 1 \in a..b + 1
      BY <2>2
    <3> QED BY <2>3, <3>1
  <2>7. b + 1 = a + (m + 1) /\ (b + 1) + 1 = a + (m + 1) + 1 /\ b + 1 = a + m + 1
    BY <2>2
  <2>8. SumOf(e, a + 1..b + 1) = SumOf(f, a..b)
    BY <2>1, <2>2
  <2>9. SumOf(e, a + 1..(b + 1) + 1) = SumOf(f, a..b + 1)
    BY <2>4, <2>5, <2>6, <2>8
  <2> QED BY <2>7, <2>9
<1>3. n \in P
  <2>1. \A m \in Nat : m \in P
    <3> HIDE DEF P
    <3> QED BY <1>1, <1>2, NatSetInduction
  <2> QED BY <2>1
<1> QED BY <1>3

=============================================================================
