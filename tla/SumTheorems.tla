------------------------------ MODULE SumTheorems ------------------------------
(***************************************************************************)
(* What sums over finite sets obey (SumOver of Sums), for the theorems     *)
(* about the analysis scripts.                                             *)
(*                                                                         *)
(* The induction theorems of the library take an operator; Induction and   *)
(* SetInduction take the set of what has the property instead.  A sum is   *)
(* the value at R of the recursive function in the definition of           *)
(* MapThenFoldSet, which exists over the subsets of R (SumExists).         *)
(***************************************************************************)
EXTENDS Sums, FiniteSetTheorems, WellFoundedInduction, TLAPS

-------------------------------------------------------------------------------
(* Induction *)

\* A nonempty set of natural numbers has a least one.
LEMMA LeastNat ==
  ASSUME NEW T, T \subseteq Nat, T # {}
  PROVE  \E x \in T : \A y \in T : x <= y
  <1> DEFINE R == OpToRel(<, Nat)
  <1>1. IsWellFoundedOn(R, Nat)
    BY NatLessThanWellFounded
  <1>2. PICK x \in T : \A y \in T : ~(<<y, x>> \in R)
    <2> HIDE DEF R
    <2> QED
      BY <1>1, WFMin
  <1>3. \A y \in T : ~(y < x)
    BY <1>2 DEF OpToRel
  <1> QED
    BY <1>3

\* A set of natural numbers with 0 and the successors of its members is all of them.
LEMMA Induction ==
  ASSUME NEW N \in SUBSET Nat, 0 \in N, \A n \in N : n + 1 \in N
  PROVE  N = Nat
  <1>1. SUFFICES ASSUME Nat \ N # {} PROVE FALSE
    OBVIOUS
  <1>2. PICK x \in Nat \ N : \A y \in Nat \ N : x <= y
    BY <1>1, LeastNat
  <1>3. x # 0 /\ x - 1 \in Nat /\ x - 1 \in N
    BY <1>2
  <1> QED
    BY <1>2, <1>3

\* What the empty set has, and is kept when an element is added, a finite set has.
LEMMA SetInduction ==
  ASSUME NEW S, IsFiniteSet(S), NEW F, {} \in F,
         \A T \in SUBSET S, x \in S : T \in F /\ x \notin T => T \cup {x} \in F
  PROVE  S \in F
  <1> DEFINE N == {n \in Nat : \A T \in SUBSET S : Cardinality(T) = n => T \in F}
  <1>0. \A T \in SUBSET S : IsFiniteSet(T) /\ Cardinality(T) \in Nat
    BY FS_Subset, FS_CardinalityType
  <1>1. 0 \in N
    BY <1>0, FS_EmptySet
  <1>2. ASSUME NEW n \in N PROVE n + 1 \in N
    <2> SUFFICES ASSUME NEW T \in SUBSET S, Cardinality(T) = n + 1 PROVE T \in F
      OBVIOUS
    <2>1. PICK x : x \in T
      BY <1>0, FS_EmptySet
    <2>2. Cardinality(T \ {x}) = n
      BY <1>0, <2>1, FS_RemoveElement
    <2>3. T \ {x} \in F
      BY <2>2
    <2> QED
      BY <2>1, <2>3, (T \ {x}) \cup {x} = T
  <1>3. N = Nat
    <2> HIDE DEF N
    <2> QED BY <1>1, <1>2, Induction DEF N
  <1> QED
    BY <1>0, <1>3

-------------------------------------------------------------------------------
(* The recursion, which takes out an element at a time *)

Picked(s) == CHOOSE x \in s : TRUE
Adds(g, D, f) == g = [s \in D |-> IF s = {} THEN 0 ELSE f[Picked(s)] + g[s \ {Picked(s)}]]
UpTo(R, n) == {s \in SUBSET R : Cardinality(s) <= n}

\* Subsets of a finite set.
LEMMA SmallSets ==
  ASSUME NEW R, IsFiniteSet(R)
  PROVE  /\ \A s \in SUBSET R : IsFiniteSet(s) /\ Cardinality(s) \in Nat /\ Cardinality(s) <= Cardinality(R)
         /\ \A s \in SUBSET R : Cardinality(s) = 0 <=> s = {}
         /\ \A s \in SUBSET R : s # {} => Picked(s) \in s
         /\ \A s \in SUBSET R : \A x \in s : Cardinality(s \ {x}) = Cardinality(s) - 1
  BY FS_Subset, FS_CardinalityType, FS_EmptySet, FS_RemoveElement DEF Picked

\* The function exists, by induction over how many elements there are.
LEMMA SumExists ==
  ASSUME NEW R, IsFiniteSet(R), NEW f
  PROVE  \E g : Adds(g, SUBSET R, f)
  <1> DEFINE N == {n \in Nat : \E g : Adds(g, UpTo(R, n), f)}
  <1>1. 0 \in N
    <2>1. UpTo(R, 0) = {{}}
      BY SmallSets DEF UpTo
    <2>2. Adds([s \in UpTo(R, 0) |-> 0], UpTo(R, 0), f)
      BY <2>1 DEF Adds
    <2> QED
      BY <2>2
  <1>2. ASSUME NEW n \in N PROVE n + 1 \in N
    <2>1. PICK g : Adds(g, UpTo(R, n), f)
      OBVIOUS
    <2> DEFINE h == [s \in UpTo(R, n + 1) |-> IF s = {} THEN 0 ELSE f[Picked(s)] + g[s \ {Picked(s)}]]
    <2>2. \A s \in UpTo(R, n) : s \in UpTo(R, n + 1) /\ h[s] = g[s]
      <3>1. UpTo(R, n) \subseteq UpTo(R, n + 1)
        BY SmallSets DEF UpTo
      <3> QED
        BY <2>1, <3>1 DEF Adds
    <2>3. \A s \in UpTo(R, n + 1) : s # {} => s \ {Picked(s)} \in UpTo(R, n)
      BY SmallSets DEF UpTo
    <2>4. Adds(h, UpTo(R, n + 1), f)
      BY <2>2, <2>3 DEF Adds
    <2> QED
      BY <2>4
  <1>3. N = Nat
    <2> HIDE DEF N
    <2> QED BY <1>1, <1>2, Induction DEF N
  <1>4. UpTo(R, Cardinality(R)) = SUBSET R
    BY SmallSets DEF UpTo
  <1> QED
    <2>1. Cardinality(R) \in N
      BY <1>3, FS_CardinalityType
    <2> QED
      BY <1>4, <2>1

\* and the sum is its value.
LEMMA SumUnfolds ==
  ASSUME NEW R, IsFiniteSet(R), NEW f
  PROVE  \E g : Adds(g, SUBSET R, f) /\ SumOver(R, f) = g[R]
  <1>1. PICK g : Adds(g, SUBSET R, f)
    BY SumExists
  <1>2. QED
    BY <1>1 DEF SumOver, FoldSet, MapThenFoldSet, Adds, Picked

\* It does not depend on the set it is defined over.
LEMMA SumsAgree ==
  ASSUME NEW R, IsFiniteSet(R), NEW f, NEW Q \in SUBSET R,
         NEW g, Adds(g, SUBSET R, f), NEW h, Adds(h, SUBSET Q, f)
  PROVE  g[Q] = h[Q]
  <1> DEFINE N == {n \in Nat : \A s \in SUBSET Q : Cardinality(s) = n => g[s] = h[s]}
  <1>1. 0 \in N
    BY SmallSets DEF Adds
  <1>2. ASSUME NEW n \in N PROVE n + 1 \in N
    <2> SUFFICES ASSUME NEW s \in SUBSET Q, Cardinality(s) = n + 1 PROVE g[s] = h[s]
      OBVIOUS
    <2>1. s # {} /\ Picked(s) \in s /\ Cardinality(s \ {Picked(s)}) = n
      BY SmallSets
    <2>2. g[s \ {Picked(s)}] = h[s \ {Picked(s)}]
      BY <2>1
    <2>3. /\ g[s] = f[Picked(s)] + g[s \ {Picked(s)}]
          /\ h[s] = f[Picked(s)] + h[s \ {Picked(s)}]
      BY <2>1 DEF Adds
    <2> QED
      BY <2>2, <2>3
  <1>3. N = Nat
    <2> HIDE DEF N
    <2> QED BY <1>1, <1>2, Induction DEF N
  <1> QED
    BY <1>3, SmallSets

\* A sum over nothing.
LEMMA SumEmpty == \A f : SumOver({}, f) = 0
  BY SumUnfolds, FS_EmptySet DEF Adds

\* The sum takes out one element,
LEMMA SumPicked ==
  ASSUME NEW R, IsFiniteSet(R), R # {}, NEW f
  PROVE  SumOver(R, f) = f[Picked(R)] + SumOver(R \ {Picked(R)}, f)
  <1>1. PICK g : Adds(g, SUBSET R, f) /\ SumOver(R, f) = g[R]
    BY SumUnfolds
  <1>2. IsFiniteSet(R \ {Picked(R)})
    BY FS_RemoveElement, FS_Subset
  <1>3. PICK h : Adds(h, SUBSET (R \ {Picked(R)}), f) /\ SumOver(R \ {Picked(R)}, f) = h[R \ {Picked(R)}]
    BY <1>2, SumUnfolds
  <1>4. g[R \ {Picked(R)}] = h[R \ {Picked(R)}]
    BY <1>1, <1>3, SumsAgree
  <1> QED
    <2>1. R \in SUBSET R
      OBVIOUS
    <2>2. g[R] = f[Picked(R)] + g[R \ {Picked(R)}]
      BY <1>1, <2>1 DEF Adds
    <2> QED
      BY <1>1, <1>3, <1>4, <2>2

\* Sums of integers are integers.
LEMMA SumInt ==
  ASSUME NEW R, IsFiniteSet(R), NEW f, \A r \in R : f[r] \in Int
  PROVE  SumOver(R, f) \in Int
  <1> DEFINE N == {n \in Nat : \A s \in SUBSET R : Cardinality(s) = n => SumOver(s, f) \in Int}
  <1>1. 0 \in N
    BY SmallSets, SumEmpty
  <1>2. ASSUME NEW n \in N PROVE n + 1 \in N
    <2> SUFFICES ASSUME NEW s \in SUBSET R, Cardinality(s) = n + 1 PROVE SumOver(s, f) \in Int
      OBVIOUS
    <2>1. /\ s # {} /\ IsFiniteSet(s) /\ Picked(s) \in s
          /\ Cardinality(s \ {Picked(s)}) = n
      BY SmallSets
    <2>2. SumOver(s \ {Picked(s)}, f) \in Int
      BY <2>1
    <2> QED
      BY <2>1, <2>2, SumPicked
  <1>3. N = Nat
    <2> HIDE DEF N
    <2> QED BY <1>1, <1>2, Induction DEF N
  <1> QED
    BY <1>3, SmallSets

\* or any other.
LEMMA SumRemove ==
  ASSUME NEW R, IsFiniteSet(R), NEW f, \A r \in R : f[r] \in Int, NEW x \in R
  PROVE  SumOver(R, f) = SumOver(R \ {x}, f) + f[x]
  <1> DEFINE N == {n \in Nat : \A s \in SUBSET R : Cardinality(s) = n =>
                     \A y \in s : SumOver(s, f) = SumOver(s \ {y}, f) + f[y]}
  <1>0. \A s \in SUBSET R : SumOver(s, f) \in Int
    BY SumInt, SmallSets
  <1>1. 0 \in N
    BY SmallSets
  <1>2. ASSUME NEW n \in N PROVE n + 1 \in N
    <2> SUFFICES ASSUME NEW s \in SUBSET R, Cardinality(s) = n + 1, NEW y \in s
                 PROVE  SumOver(s, f) = SumOver(s \ {y}, f) + f[y]
      OBVIOUS
    <2> DEFINE z == Picked(s)
    <2>1. /\ IsFiniteSet(s) /\ z \in s
          /\ Cardinality(s \ {z}) = n /\ Cardinality(s \ {y}) = n
      BY SmallSets
    <2>2. SumOver(s, f) = f[z] + SumOver(s \ {z}, f)
      BY <2>1, SumPicked
    <2> HIDE DEF z
    <2>3. CASE y = z
      BY <1>0, <2>1, <2>2, <2>3
    <2>4. CASE y # z
      <3>1. SumOver(s \ {z}, f) = SumOver((s \ {z}) \ {y}, f) + f[y]
        BY <2>1, <2>4
      <3>2. SumOver(s \ {y}, f) = SumOver((s \ {y}) \ {z}, f) + f[z]
        BY <2>1, <2>4
      <3>3. SumOver((s \ {z}) \ {y}, f) = SumOver((s \ {y}) \ {z}, f)
        BY (s \ {z}) \ {y} = (s \ {y}) \ {z}
      <3>4. /\ f[y] \in Int /\ f[z] \in Int /\ SumOver((s \ {y}) \ {z}, f) \in Int
        BY <1>0, <2>1
      <3> QED
        BY <2>2, <3>1, <3>2, <3>3, <3>4
    <2> QED
      BY <2>3, <2>4
  <1>3. N = Nat
    <2> HIDE DEF N
    <2> QED BY <1>1, <1>2, Induction DEF N
  <1> QED
    BY <1>3, SmallSets

LEMMA SumAdd ==
  ASSUME NEW R, IsFiniteSet(R), NEW x, x \notin R, NEW f, \A r \in R \cup {x} : f[r] \in Int
  PROVE  SumOver(R \cup {x}, f) = SumOver(R, f) + f[x]
  <1>1. IsFiniteSet(R \cup {x}) /\ (R \cup {x}) \ {x} = R
    BY FS_AddElement
  <1> QED
    BY <1>1, SumRemove

-------------------------------------------------------------------------------
(* Laws *)

\* A sum depends on its terms.
LEMMA SumSame ==
  ASSUME NEW R, IsFiniteSet(R), NEW f, NEW g, \A r \in R : f[r] \in Int /\ g[r] = f[r]
  PROVE  SumOver(R, g) = SumOver(R, f)
  <1> DEFINE F == {T \in SUBSET R : SumOver(T, g) = SumOver(T, f)}
  <1>0. \A r \in R : g[r] \in Int
    OBVIOUS
  <1>1. {} \in F
    BY SumEmpty
  <1>2. ASSUME NEW T \in SUBSET R, NEW x \in R, T \in F, x \notin T
        PROVE  T \cup {x} \in F
    <2>1. IsFiniteSet(T)
      BY FS_Subset
    <2>2. SumOver(T \cup {x}, f) = SumOver(T, f) + f[x]
      BY <1>2, <2>1, SumAdd
    <2>3. SumOver(T \cup {x}, g) = SumOver(T, g) + g[x]
      BY <1>0, <1>2, <2>1, SumAdd
    <2>4. SumOver(T \cup {x}, g) = SumOver(T \cup {x}, f)
      BY <1>2, <2>2, <2>3
    <2> QED
      BY <2>4
  <1> HIDE DEF F
  <1>3. R \in F
    BY <1>1, <1>2, SetInduction
  <1> QED
    BY <1>3 DEF F

\* Sums are linear,
LEMMA SumPlus ==
  ASSUME NEW R, IsFiniteSet(R), NEW f, NEW g, NEW h,
         \A r \in R : f[r] \in Int /\ g[r] \in Int /\ h[r] = f[r] + g[r]
  PROVE  SumOver(R, h) = SumOver(R, f) + SumOver(R, g)
  <1> DEFINE F == {T \in SUBSET R : SumOver(T, h) = SumOver(T, f) + SumOver(T, g)}
  <1>1. {} \in F
    BY SumEmpty
  <1>2. ASSUME NEW T \in SUBSET R, NEW x \in R, T \in F, x \notin T
        PROVE  T \cup {x} \in F
    <2>1. IsFiniteSet(T)
      BY FS_Subset
    <2>2. \A r \in R : h[r] \in Int
      OBVIOUS
    <2>3. SumOver(T \cup {x}, h) = SumOver(T, h) + h[x]
      BY <1>2, <2>1, <2>2, SumAdd
    <2>4. SumOver(T \cup {x}, f) = SumOver(T, f) + f[x]
      BY <1>2, <2>1, SumAdd
    <2>5. SumOver(T \cup {x}, g) = SumOver(T, g) + g[x]
      BY <1>2, <2>1, SumAdd
    <2>6. SumOver(T, f) \in Int /\ SumOver(T, g) \in Int
      BY <2>1, SumInt
    <2> QED
      BY <1>2, <2>3, <2>4, <2>5, <2>6
  <1> HIDE DEF F
  <1>3. R \in F
    BY <1>1, <1>2, SetInduction
  <1> QED
    BY <1>3 DEF F

\* and monotonic.
LEMMA SumAtMost ==
  ASSUME NEW R, IsFiniteSet(R), NEW f, NEW g,
         \A r \in R : f[r] \in Int /\ g[r] \in Int /\ f[r] <= g[r]
  PROVE  SumOver(R, f) <= SumOver(R, g)
  <1> DEFINE F == {T \in SUBSET R : SumOver(T, f) <= SumOver(T, g)}
  <1>1. {} \in F
    BY SumEmpty
  <1>2. ASSUME NEW T \in SUBSET R, NEW x \in R, T \in F, x \notin T
        PROVE  T \cup {x} \in F
    <2>1. IsFiniteSet(T)
      BY FS_Subset
    <2>2. /\ SumOver(T \cup {x}, f) = SumOver(T, f) + f[x]
          /\ SumOver(T \cup {x}, g) = SumOver(T, g) + g[x]
      BY <1>2, <2>1, SumAdd
    <2>3. SumOver(T, f) \in Int /\ SumOver(T, g) \in Int
      BY <2>1, SumInt
    <2> QED
      BY <1>2, <2>2, <2>3
  <1> HIDE DEF F
  <1>3. R \in F
    BY <1>1, <1>2, SetInduction
  <1> QED
    BY <1>3 DEF F

\* The sum over a union of disjoint sets.
LEMMA SumUnion ==
  ASSUME NEW R, IsFiniteSet(R), NEW Q, IsFiniteSet(Q), R \cap Q = {},
         NEW f, \A r \in R \cup Q : f[r] \in Int
  PROVE  SumOver(R \cup Q, f) = SumOver(R, f) + SumOver(Q, f)
  <1> DEFINE F == {T \in SUBSET Q : SumOver(R \cup T, f) = SumOver(R, f) + SumOver(T, f)}
  <1>0. SumOver(R, f) \in Int
    BY SumInt
  <1>1. {} \in F
    BY <1>0, SumEmpty, R \cup {} = R
  <1>2. ASSUME NEW T \in SUBSET Q, NEW x \in Q, T \in F, x \notin T
        PROVE  T \cup {x} \in F
    <2>1. IsFiniteSet(T) /\ IsFiniteSet(R \cup T)
      BY FS_Subset, FS_Union
    <2>2. SumOver(T \cup {x}, f) = SumOver(T, f) + f[x]
      BY <1>2, <2>1, SumAdd
    <2>3. SumOver((R \cup T) \cup {x}, f) = SumOver(R \cup T, f) + f[x]
      BY <1>2, <2>1, SumAdd
    <2>4. SumOver(T, f) \in Int /\ f[x] \in Int
      BY <2>1, SumInt
    <2>5. SumOver((R \cup T) \cup {x}, f) = SumOver(R \cup (T \cup {x}), f)
      BY (R \cup T) \cup {x} = R \cup (T \cup {x})
    <2>6. SumOver(R \cup T, f) = SumOver(R, f) + SumOver(T, f)
      BY <1>2
    <2>7. SumOver(R \cup (T \cup {x}), f) = SumOver(R, f) + SumOver(T \cup {x}, f)
      BY <1>0, <2>2, <2>3, <2>4, <2>5, <2>6
    <2> QED
      BY <2>7
  <1> HIDE DEF F
  <1>3. Q \in F
    BY <1>1, <1>2, SetInduction
  <1> QED
    BY <1>3 DEF F

\* Sums of natural numbers,
LEMMA SumNat ==
  ASSUME NEW R, IsFiniteSet(R), NEW f, \A r \in R : f[r] \in Nat
  PROVE  SumOver(R, f) \in Nat
  <1> DEFINE F == {T \in SUBSET R : SumOver(T, f) \in Nat}
  <1>0. \A r \in R : f[r] \in Int
    OBVIOUS
  <1>1. {} \in F
    BY SumEmpty
  <1>2. ASSUME NEW T \in SUBSET R, NEW x \in R, T \in F, x \notin T
        PROVE  T \cup {x} \in F
    <2>1. IsFiniteSet(T)
      BY FS_Subset
    <2>2. SumOver(T \cup {x}, f) = SumOver(T, f) + f[x]
      BY <1>0, <1>2, <2>1, SumAdd
    <2>3. SumOver(T \cup {x}, f) \in Nat
      BY <1>2, <2>2
    <2> QED
      BY <2>3
  <1> HIDE DEF F
  <1>3. R \in F
    BY <1>1, <1>2, SetInduction
  <1> QED
    BY <1>3 DEF F

\* of which a part is no more than all.
LEMMA SumPart ==
  ASSUME NEW R, IsFiniteSet(R), NEW Q \in SUBSET R, NEW f, \A r \in R : f[r] \in Nat
  PROVE  SumOver(Q, f) <= SumOver(R, f)
  <1>1. IsFiniteSet(Q) /\ IsFiniteSet(R \ Q) /\ Q \cup (R \ Q) = R /\ Q \cap (R \ Q) = {}
    BY FS_Subset
  <1>2. SumOver(Q, f) \in Nat /\ SumOver(R \ Q, f) \in Nat
    BY <1>1, SumNat
  <1>3. SumOver(R, f) = SumOver(Q, f) + SumOver(R \ Q, f)
    BY <1>1, SumUnion
  <1> QED
    BY <1>2, <1>3

\* Fewer than m each, if there are any.
LEMMA SumBelow ==
  ASSUME NEW R, IsFiniteSet(R), R # {}, NEW m \in Int, NEW f,
         \A r \in R : f[r] \in Int /\ f[r] < m
  PROVE  SumOver(R, f) < m * Cardinality(R)
  <1> DEFINE F == {T \in SUBSET R : T # {} => SumOver(T, f) < m * Cardinality(T)}
  <1>1. {} \in F
    OBVIOUS
  <1>2. ASSUME NEW T \in SUBSET R, NEW x \in R, T \in F, x \notin T
        PROVE  T \cup {x} \in F
    <2>1. IsFiniteSet(T) /\ Cardinality(T) \in Nat
      BY FS_Subset, FS_CardinalityType
    <2>2. /\ SumOver(T \cup {x}, f) = SumOver(T, f) + f[x]
          /\ SumOver(T, f) \in Int /\ f[x] \in Int /\ f[x] < m
      BY <1>2, <2>1, SumAdd, SumInt
    <2>3. Cardinality(T \cup {x}) = Cardinality(T) + 1
      BY <1>2, <2>1, FS_AddElement
    <2>4. m * (Cardinality(T) + 1) = m * Cardinality(T) + m /\ m * Cardinality(T) \in Int
      BY <2>1
    <2>5. CASE T = {}
      <3>1. SumOver(T, f) = 0 /\ Cardinality(T) = 0
        BY <2>5, SumEmpty, FS_EmptySet
      <3> QED
        BY <2>2, <2>3, <2>4, <3>1
    <2>6. CASE T # {}
      BY <1>2, <2>2, <2>3, <2>4, <2>6
    <2> QED
      BY <2>5, <2>6
  <1> HIDE DEF F
  <1>3. R \in F
    BY <1>1, <1>2, SetInduction
  <1> QED
    BY <1>3 DEF F

\* Nothing each is nothing,
LEMMA SumZero ==
  ASSUME NEW R, IsFiniteSet(R), NEW f, \A r \in R : f[r] = 0
  PROVE  SumOver(R, f) = 0
  <1>1. \A r \in R : f[r] \in Int /\ f[r] = f[r] + f[r]
    OBVIOUS
  <1>2. PICK s : s = SumOver(R, f)
    OBVIOUS
  <1>3. s \in Int
    BY <1>1, <1>2, SumInt
  <1>4. s = s + s
    BY <1>1, <1>2, SumPlus
  <1>5. s = 0
    BY <1>3, <1>4
  <1>6. QED
    BY <1>2, <1>5

\* and m times each is m times the sum.
LEMMA SumTimes ==
  ASSUME NEW R, IsFiniteSet(R), NEW m \in Int, NEW f, NEW g,
         \A r \in R : f[r] \in Int /\ g[r] = m * f[r]
  PROVE  SumOver(R, g) = m * SumOver(R, f)
  <1> DEFINE F == {T \in SUBSET R : SumOver(T, g) = m * SumOver(T, f)}
  <1>0. \A r \in R : g[r] \in Int
    OBVIOUS
  <1>1. {} \in F
    BY SumEmpty
  <1>2. ASSUME NEW T \in SUBSET R, NEW x \in R, T \in F, x \notin T
        PROVE  T \cup {x} \in F
    <2>1. IsFiniteSet(T)
      BY FS_Subset
    <2>2. /\ SumOver(T \cup {x}, f) = SumOver(T, f) + f[x]
          /\ SumOver(T, f) \in Int /\ f[x] \in Int
      BY <1>2, <2>1, SumAdd, SumInt
    <2>3. SumOver(T \cup {x}, g) = SumOver(T, g) + g[x]
      BY <1>0, <1>2, <2>1, SumAdd
    <2>4. SumOver(T, g) = m * SumOver(T, f) /\ g[x] = m * f[x]
      BY <1>2
    <2>5. m * (SumOver(T, f) + f[x]) = m * SumOver(T, f) + m * f[x]
      BY <2>2
    <2>6. SumOver(T \cup {x}, g) = m * SumOver(T \cup {x}, f)
      BY <2>2, <2>3, <2>4, <2>5
    <2>7. QED
      BY <2>6
  <1> HIDE DEF F
  <1>3. R \in F
    BY <1>1, <1>2, SetInduction
  <1>4. QED
    BY <1>3 DEF F

\* The numbers of a table add up the same by rows and by columns.
Table(R, Q, f) == \A r \in R : \A q \in Q : f[r][q] \in Int
Column(R, f, q) == [r \in R |-> f[r][q]]
LEMMA SumExchange ==
  ASSUME NEW R, IsFiniteSet(R), NEW Q, IsFiniteSet(Q), NEW f, Table(R, Q, f),
         NEW g, \A q \in Q : g[q] = SumOver(R, Column(R, f, q)),
         NEW h, \A r \in R : h[r] = SumOver(Q, f[r])
  PROVE  SumOver(Q, g) = SumOver(R, h)
  <1> DEFINE Partial(T) == [q \in Q |-> SumOver(T, Column(R, f, q))]
             F == {T \in SUBSET R : SumOver(Q, Partial(T)) = SumOver(T, h)}
  <1>1. \A q \in Q : \A r \in R : Column(R, f, q)[r] = f[r][q] /\ Column(R, f, q)[r] \in Int
    BY DEF Table, Column
  <1>2. \A r \in R : h[r] \in Int
    BY SumInt DEF Table
  <1>3. \A T : \A q \in Q : Partial(T)[q] = SumOver(T, Column(R, f, q))
    OBVIOUS
  <1>4. \A q \in Q : g[q] = SumOver(R, Column(R, f, q))
    OBVIOUS
  <1> HIDE DEF Partial
  <1>5. {} \in F
    <2>1. \A q \in Q : Partial({})[q] = 0
      BY <1>3, SumEmpty
    <2>2. QED
      BY <2>1, SumZero, SumEmpty
  <1>6. ASSUME NEW T \in SUBSET R, NEW x \in R, T \in F, x \notin T
        PROVE  T \cup {x} \in F
    <2>1. IsFiniteSet(T) /\ IsFiniteSet(T \cup {x})
      BY FS_Subset, FS_AddElement
    <2>2. ASSUME NEW q \in Q
          PROVE  /\ Partial(T)[q] \in Int /\ f[x][q] \in Int
                 /\ Partial(T \cup {x})[q] = Partial(T)[q] + f[x][q]
      <3>1. PICK c : c = Column(R, f, q)
        OBVIOUS
      <3>2. \A r \in T \cup {x} : c[r] \in Int
        BY <1>1, <3>1
      <3>3. SumOver(T \cup {x}, c) = SumOver(T, c) + c[x] /\ SumOver(T, c) \in Int
        BY <1>6, <2>1, <3>2, SumAdd, SumInt
      <3>4. QED
        BY <1>1, <1>3, <3>1, <3>3
    <2>3. SumOver(Q, Partial(T \cup {x})) = SumOver(Q, Partial(T)) + SumOver(Q, f[x])
      <3>1. PICK a, b, c : a = Partial(T) /\ b = f[x] /\ c = Partial(T \cup {x})
        OBVIOUS
      <3>2. \A q \in Q : a[q] \in Int /\ b[q] \in Int /\ c[q] = a[q] + b[q]
        BY <2>2, <3>1
      <3>3. SumOver(Q, c) = SumOver(Q, a) + SumOver(Q, b)
        BY <3>2, SumPlus
      <3>4. QED
        BY <3>1, <3>3
    <2>4. SumOver(T \cup {x}, h) = SumOver(T, h) + h[x]
      BY <1>2, <1>6, <2>1, SumAdd
    <2>5. SumOver(Q, Partial(T)) = SumOver(T, h) /\ h[x] = SumOver(Q, f[x])
      BY <1>6
    <2>6. QED
      BY <2>3, <2>4, <2>5
  <1> HIDE DEF F
  <1>7. R \in F
    BY <1>5, <1>6, SetInduction
  <1>8. SumOver(Q, Partial(R)) = SumOver(R, h)
    BY <1>7 DEF F
  <1>9. \A q \in Q : Partial(R)[q] = g[q] /\ Partial(R)[q] \in Int
    <2>1. SUFFICES ASSUME NEW q \in Q PROVE Partial(R)[q] = g[q] /\ Partial(R)[q] \in Int
      OBVIOUS
    <2>2. SumOver(R, Column(R, f, q)) \in Int
      BY <1>1, SumInt
    <2>3. QED
      BY <1>3, <1>4, <2>2
  <1>10. SumOver(Q, g) = SumOver(Q, Partial(R))
    BY <1>9, SumSame
  <1>11. QED
    BY <1>8, <1>10

\* One number is its own sum,
LEMMA SumSingle ==
  ASSUME NEW x, NEW f, f[x] \in Int
  PROVE  SumOver({x}, f) = f[x]
  <1>1. IsFiniteSet({}) /\ x \notin {} /\ \A r \in {} \cup {x} : f[r] \in Int
    BY FS_EmptySet
  <1>2. SumOver({} \cup {x}, f) = SumOver({}, f) + f[x]
    BY <1>1, SumAdd
  <1>3. {} \cup {x} = {x} /\ SumOver({}, f) = 0
    BY SumEmpty
  <1>4. QED
    BY <1>2, <1>3

\* and zeros add nothing.
LEMMA SumFiltered ==
  ASSUME NEW R, IsFiniteSet(R), NEW Q \in SUBSET R, NEW f, NEW g,
         \A x \in Q : f[x] \in Int /\ g[x] = f[x], \A x \in R \ Q : g[x] = 0
  PROVE  SumOver(R, g) = SumOver(Q, f)
  <1>1. IsFiniteSet(Q) /\ IsFiniteSet(R \ Q) /\ Q \cap (R \ Q) = {} /\ Q \cup (R \ Q) = R
    BY FS_Subset
  <1>2. \A x \in Q \cup (R \ Q) : g[x] \in Int
    OBVIOUS
  <1>3. SumOver(Q \cup (R \ Q), g) = SumOver(Q, g) + SumOver(R \ Q, g)
    BY <1>1, <1>2, SumUnion
  <1>4. SumOver(R \ Q, g) = 0
    BY <1>1, SumZero
  <1>5. SumOver(Q, g) = SumOver(Q, f) /\ SumOver(Q, f) \in Int
    BY <1>1, SumSame, SumInt
  <1>6. SumOver(R, g) = SumOver(Q, g) + SumOver(R \ Q, g)
    BY <1>1, <1>3
  <1>7. PICK a, b : a = SumOver(Q, f) /\ b = SumOver(R \ Q, g)
    OBVIOUS
  <1>8. a \in Int /\ b = 0 /\ SumOver(Q, g) = a
    BY <1>4, <1>5, <1>7
  <1>9. QED
    BY <1>6, <1>7, <1>8

\* Numbers add up the same class by class.
Class(R, k, c) == {x \in R : k[x] = c}
LEMMA SumClasses ==
  ASSUME NEW R, IsFiniteSet(R), NEW C, IsFiniteSet(C), NEW k, \A x \in R : k[x] \in C,
         NEW f, \A x \in R : f[x] \in Int,
         NEW h, \A c \in C : h[c] = SumOver(Class(R, k, c), f)
  PROVE  SumOver(R, f) = SumOver(C, h)
  <1> DEFINE T == [c \in C |-> [x \in R |-> IF k[x] = c THEN f[x] ELSE 0]]
  <1>1. \A c \in C : \A x \in R : T[c][x] = IF k[x] = c THEN f[x] ELSE 0
    OBVIOUS
  <1> HIDE DEF T
  <1>2. Table(C, R, T)
    BY <1>1 DEF Table
  <1>3. ASSUME NEW x \in R
        PROVE  f[x] = SumOver(C, Column(C, T, x))
    <2>1. PICK g : g = Column(C, T, x)
      OBVIOUS
    <2>2. PICK e : e = [c \in C |-> f[x]]
      OBVIOUS
    <2>3. {k[x]} \in SUBSET C
      OBVIOUS
    <2>4. /\ \A c \in {k[x]} : e[c] \in Int /\ g[c] = e[c]
          /\ \A c \in C \ {k[x]} : g[c] = 0
      BY <1>1, <2>1, <2>2 DEF Column
    <2>5. SumOver(C, g) = SumOver({k[x]}, e)
      BY <2>3, <2>4, SumFiltered
    <2>6. SumOver({k[x]}, e) = e[k[x]]
      BY <2>4, SumSingle
    <2>7. QED
      BY <2>1, <2>2, <2>5, <2>6
  <1>4. ASSUME NEW c \in C
        PROVE  h[c] = SumOver(R, T[c])
    <2>1. PICK g : g = T[c]
      OBVIOUS
    <2>2. Class(R, k, c) \in SUBSET R
      BY DEF Class
    <2>3. /\ \A x \in Class(R, k, c) : f[x] \in Int /\ g[x] = f[x]
          /\ \A x \in R \ Class(R, k, c) : g[x] = 0
      BY <1>1, <2>1 DEF Class
    <2>4. SumOver(R, g) = SumOver(Class(R, k, c), f)
      BY <2>2, <2>3, SumFiltered
    <2>5. QED
      BY <2>1, <2>4
  <1>5. QED
    BY <1>2, <1>3, <1>4, SumExchange

-------------------------------------------------------------------------------
(* The largest and the smallest of a set *)

LEMMA MinIsLeast ==
  ASSUME NEW T, T \subseteq Nat, T # {}
  PROVE  Min(T) \in T /\ \A x \in T : Min(T) <= x
  BY LeastNat DEF Min

LEMMA MaxIsGreatest ==
  ASSUME NEW T, NEW n \in Nat, T \subseteq 0..n, T # {}
  PROVE  Max(T) \in T /\ \A x \in T : x <= Max(T)
  <1> DEFINE U == {n - x : x \in T}
  <1>1. U \subseteq Nat /\ U # {}
    <2>1. \A x \in T : x \in 0..n /\ n - x \in Nat
      OBVIOUS
    <2>2. QED
      BY <2>1
  <1> HIDE DEF U
  <1>2. PICK m \in U : \A u \in U : m <= u
    BY <1>1, LeastNat
  <1>3. PICK y \in T : m = n - y
    BY DEF U
  <1>4. \A x \in T : y >= x
    <2>1. SUFFICES ASSUME NEW x \in T PROVE y >= x
      OBVIOUS
    <2>2. m <= n - x
      BY <1>2 DEF U
    <2>3. x \in 0..n /\ y \in 0..n
      OBVIOUS
    <2>4. QED
      BY <1>3, <2>2, <2>3
  <1>5. Max(T) \in T /\ \A x \in T : Max(T) >= x
    BY <1>4 DEF Max
  <1>6. QED
    BY <1>5

===============================================================================
