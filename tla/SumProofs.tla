------------------------------ MODULE SumProofs ------------------------------
(***************************************************************************)
(* Sums of a function over a finite set: SumFunctionOnSet of the module    *)
(* Functions, which adds the values one by one in an unspecified order.    *)
(***************************************************************************)
EXTENDS Integers, FiniteSets, Functions, FiniteSetTheorems, WellFoundedInduction, TLAPS

Pick(s) == CHOOSE x \in s : TRUE

(* g adds up f on every subset of S.                                       *)
Adds(g, f, S) ==
  g = [s \in SUBSET S |-> IF s = {} THEN 0 ELSE f[Pick(s)] + g[s \ {Pick(s)}]]

Adder(f, S) == CHOOSE g : Adds(g, f, S)

LEMMA SumIsAdder ==
  ASSUME NEW f, NEW S
  PROVE  SumFunctionOnSet(f, S) = Adder(f, S)[S]
  BY DEF SumFunctionOnSet, FoldFunctionOnSet, MapThenFoldSet, Adder, Adds, Pick

LEMMA PickIn == ASSUME NEW s, s # {} PROVE Pick(s) \in s
  BY DEF Pick

(* Among some finite sets there is one without a smaller one.              *)
LEMMA Minimal ==
  ASSUME NEW S, IsFiniteSet(S), NEW P \in SUBSET SUBSET S, P # {}
  PROVE  \E m \in P : \A n \in P : n \subseteq m => n = m
<1>1. P \subseteq FiniteSubsetsOf(S)
  BY FS_Subset DEF FiniteSubsetsOf
<1>2. PICK m \in P : \A n \in P : <<n, m>> \notin StrictSubsetOrdering(S)
  BY <1>1, FS_StrictSubsetOrderingWellFounded, WFMin
<1> QED
  BY <1>1, <1>2 DEF StrictSubsetOrdering

(* What is added up for a set does not depend on the function's domain.    *)
LEMMA AddersAgree ==
  ASSUME NEW f, NEW S, NEW T, IsFiniteSet(S), S \subseteq T,
         NEW g, Adds(g, f, S), NEW h, Adds(h, f, T)
  PROVE  \A s \in SUBSET S : g[s] = h[s]
<1> DEFINE P == {s \in SUBSET S : g[s] # h[s]}
<1> SUFFICES ASSUME P # {} PROVE FALSE
  OBVIOUS
<1>1. PICK m \in P : \A n \in P : n \subseteq m => n = m
  <2>1. P \in SUBSET SUBSET S
    OBVIOUS
  <2> HIDE DEF P
  <2> QED
    BY <2>1, Minimal
<1>2. m \in SUBSET S /\ m \in SUBSET T
  OBVIOUS
<1>3. /\ g[m] = IF m = {} THEN 0 ELSE f[Pick(m)] + g[m \ {Pick(m)}]
      /\ h[m] = IF m = {} THEN 0 ELSE f[Pick(m)] + h[m \ {Pick(m)}]
  BY <1>2 DEF Adds
<1>4. m # {}
  BY <1>3
<1>5. m \ {Pick(m)} \notin P
  BY <1>1, <1>4, PickIn
<1> QED
  BY <1>2, <1>3, <1>4, <1>5

(* Every finite set has a function that adds up its subsets.               *)
LEMMA AdderExists ==
  ASSUME NEW f, NEW S, IsFiniteSet(S)
  PROVE  Adds(Adder(f, S), f, S)
<1> DEFINE P == {s \in SUBSET S : ~ Adds(Adder(f, s), f, s)}
<1> SUFFICES ASSUME P # {} PROVE FALSE
  OBVIOUS
<1>1. PICK m \in P : \A n \in P : n \subseteq m => n = m
  <2>1. P \in SUBSET SUBSET S
    OBVIOUS
  <2> HIDE DEF P
  <2> QED
    BY <2>1, Minimal
<1> DEFINE A(s) == Adder(f, s)[s]
           h == [s \in SUBSET m |-> IF s = {} THEN 0
                                   ELSE f[Pick(s)] + A(s \ {Pick(s)})]
<1>2. ASSUME NEW s \in SUBSET m, s # m PROVE Adds(Adder(f, s), f, s)
  BY <1>1, <1>2
<1>3. ASSUME NEW s \in SUBSET m, s # m PROVE A(s) = h[s]
  <2>1. Adds(Adder(f, s), f, s)
    BY <1>2, <1>3
  <2>2. A(s) = IF s = {} THEN 0 ELSE f[Pick(s)] + Adder(f, s)[s \ {Pick(s)}]
    BY <2>1 DEF Adds
  <2>3. CASE s = {}
    BY <2>2, <2>3
  <2>4. CASE s # {}
    <3> DEFINE r == s \ {Pick(s)}
    <3>1. r \in SUBSET m /\ r # m /\ r \in SUBSET s /\ r \subseteq s
      BY <2>4, PickIn
    <3>2. IsFiniteSet(r)
      BY <3>1, FS_Subset
    <3>3. Adds(Adder(f, r), f, r)
      BY <3>1, <1>2
    <3> HIDE DEF r
    <3>4. Adder(f, r)[r] = Adder(f, s)[r]
      BY <3>1, <3>2, <3>3, <2>1, AddersAgree
    <3> QED
      BY <3>4, <2>2, <2>4 DEF r
  <2> QED
    BY <2>3, <2>4
<1>4. Adds(h, f, m)
  <2>1. ASSUME NEW s \in SUBSET m, s # {}
        PROVE  A(s \ {Pick(s)}) = h[s \ {Pick(s)}]
    <3>1. s \ {Pick(s)} \in SUBSET m /\ s \ {Pick(s)} # m
      BY <2>1, PickIn
    <3> HIDE DEF h, A
    <3> QED
      BY <3>1, <1>3
  <2> DEFINE B(s) == A(s \ {Pick(s)})
             C(s) == h[s \ {Pick(s)}]
  <2>2. ASSUME NEW s \in SUBSET m PROVE
          (IF s = {} THEN 0 ELSE f[Pick(s)] + B(s))
            = (IF s = {} THEN 0 ELSE f[Pick(s)] + C(s))
    BY <2>1
  <2>3. h = [s \in SUBSET m |-> IF s = {} THEN 0 ELSE f[Pick(s)] + B(s)]
    OBVIOUS
  <2>4. h = [s \in SUBSET m |-> IF s = {} THEN 0 ELSE f[Pick(s)] + C(s)]
    <3> HIDE DEF h, A, B, C
    <3> QED
      BY <2>2, <2>3
  <2> HIDE DEF h
  <2> QED
    BY <2>4 DEF Adds
<1>5. Adds(Adder(f, m), f, m)
  <2> HIDE DEF h
  <2> QED
  BY <1>4 DEF Adder
<1> QED
  BY <1>5

LEMMA SumOfNone == ASSUME NEW f PROVE SumFunctionOnSet(f, {}) = 0
<1>1. Adds(Adder(f, {}), f, {})
  BY AdderExists, FS_EmptySet
<1> QED
  BY <1>1, SumIsAdder DEF Adds

LEMMA SumOfSome ==
  ASSUME NEW f, NEW S, IsFiniteSet(S), S # {}
  PROVE  SumFunctionOnSet(f, S)
           = f[Pick(S)] + SumFunctionOnSet(f, S \ {Pick(S)})
<1> DEFINE R == S \ {Pick(S)}
<1>1. R \in SUBSET S /\ R \subseteq S /\ S \in SUBSET S /\ R \in SUBSET R
  OBVIOUS
<1>2. IsFiniteSet(R)
  BY <1>1, FS_Subset
<1>3. Adds(Adder(f, S), f, S) /\ Adds(Adder(f, R), f, R)
  BY <1>2, AdderExists
<1>4. Adder(f, S)[S] = f[Pick(S)] + Adder(f, S)[R]
  BY <1>1, <1>3 DEF Adds
<1> HIDE DEF R
<1>5. Adder(f, R)[R] = Adder(f, S)[R]
  BY <1>1, <1>2, <1>3, AddersAgree
<1> QED
  BY <1>4, <1>5, SumIsAdder DEF R

(* The sum of natural numbers is a natural number.                         *)
LEMMA SumType ==
  ASSUME NEW D, NEW f \in [D -> Nat], NEW S, IsFiniteSet(S), S \subseteq D
  PROVE  SumFunctionOnSet(f, S) \in Nat
<1> DEFINE P == {s \in SUBSET S : SumFunctionOnSet(f, s) \notin Nat}
<1> SUFFICES ASSUME P # {} PROVE FALSE
  OBVIOUS
<1>1. PICK m \in P : \A n \in P : n \subseteq m => n = m
  <2>1. P \in SUBSET SUBSET S
    OBVIOUS
  <2> HIDE DEF P
  <2> QED
    BY <2>1, Minimal
<1>2. m # {}
  BY SumOfNone
<1>3. IsFiniteSet(m)
  BY FS_Subset
<1>4. SumFunctionOnSet(f, m \ {Pick(m)}) \in Nat
  BY <1>1, <1>2, PickIn
<1>5. f[Pick(m)] \in Nat
  BY <1>2, PickIn
<1> QED
  BY <1>2, <1>3, <1>4, <1>5, SumOfSome

(* Any element may be taken out of a sum, not only the one picked.         *)
LEMMA SumRemove ==
  ASSUME NEW D, NEW f \in [D -> Nat], NEW S, IsFiniteSet(S), S \subseteq D,
         NEW x \in S
  PROVE  SumFunctionOnSet(f, S) = f[x] + SumFunctionOnSet(f, S \ {x})
<1> DEFINE Sum(s) == SumFunctionOnSet(f, s)
           P == {s \in SUBSET S : \E e \in s : Sum(s) # f[e] + Sum(s \ {e})}
<1>0. ASSUME NEW s \in SUBSET S PROVE Sum(s) \in Nat
  BY FS_Subset, SumType
<1>1. ASSUME NEW s \in SUBSET S, s # {} PROVE Sum(s) = f[Pick(s)] + Sum(s \ {Pick(s)})
  BY <1>1, FS_Subset, SumOfSome
<1> HIDE DEF Sum
<1>2. P = {}
  <2> SUFFICES ASSUME P # {} PROVE FALSE
    OBVIOUS
  <2>1. PICK m \in P : \A n \in P : n \subseteq m => n = m
    <3>1. P \in SUBSET SUBSET S
      OBVIOUS
    <3> HIDE DEF P
    <3> QED
      BY <3>1, Minimal
  <2>2. PICK e \in m : Sum(m) # f[e] + Sum(m \ {e})
    OBVIOUS
  <2> DEFINE p == Pick(m)
  <2>3. p \in m /\ p # e
    BY <1>1, <2>2, PickIn
  <2>4. Sum(m) = f[p] + Sum(m \ {p})
    BY <1>1, <2>2
  <2> HIDE DEF p
  <2>5. Sum(m \ {p}) = f[e] + Sum((m \ {p}) \ {e})
    BY <2>1, <2>3, m \ {p} \notin P
  <2>6. Sum(m \ {e}) = f[p] + Sum((m \ {e}) \ {p})
    BY <2>1, <2>2, <2>3, m \ {e} \notin P
  <2>7. Sum((m \ {p}) \ {e}) = Sum((m \ {e}) \ {p})
    <3>1. (m \ {p}) \ {e} = (m \ {e}) \ {p}
      OBVIOUS
    <3> QED
      BY <3>1
  <2>8. f[p] \in Nat /\ f[e] \in Nat /\ Sum((m \ {e}) \ {p}) \in Nat
    BY <1>0, <2>3
  <2> QED
    BY <2>2, <2>4, <2>5, <2>6, <2>7, <2>8
<1> QED
  BY <1>2, S \in SUBSET S DEF Sum

LEMMA SumAdd ==
  ASSUME NEW D, NEW f \in [D -> Nat], NEW S, IsFiniteSet(S), S \subseteq D,
         NEW x \in D, x \notin S
  PROVE  SumFunctionOnSet(f, S \union {x}) = SumFunctionOnSet(f, S) + f[x]
<1>1. IsFiniteSet(S \union {x})
  BY FS_AddElement
<1>2. SumFunctionOnSet(f, S \union {x})
        = f[x] + SumFunctionOnSet(f, (S \union {x}) \ {x})
  BY <1>1, SumRemove
<1>3. (S \union {x}) \ {x} = S
  OBVIOUS
<1> QED
  BY <1>2, <1>3, SumType

(* Functions that agree on a set have the same sum over it.                *)
LEMMA SumSame ==
  ASSUME NEW f, NEW g, NEW S, IsFiniteSet(S), \A x \in S : f[x] = g[x]
  PROVE  SumFunctionOnSet(f, S) = SumFunctionOnSet(g, S)
<1> DEFINE P == {s \in SUBSET S :
                   SumFunctionOnSet(f, s) # SumFunctionOnSet(g, s)}
<1> SUFFICES ASSUME P # {} PROVE FALSE
  BY S \in SUBSET S
<1>1. PICK m \in P : \A n \in P : n \subseteq m => n = m
  <2>1. P \in SUBSET SUBSET S
    OBVIOUS
  <2> HIDE DEF P
  <2> QED
    BY <2>1, Minimal
<1>2. m # {}
  BY SumOfNone
<1>3. IsFiniteSet(m)
  BY FS_Subset
<1>4. SumFunctionOnSet(f, m \ {Pick(m)}) = SumFunctionOnSet(g, m \ {Pick(m)})
  BY <1>1, <1>2, PickIn
<1>5. f[Pick(m)] = g[Pick(m)]
  BY <1>2, PickIn
<1> QED
  BY <1>2, <1>3, <1>4, <1>5, SumOfSome

(* A sum grows with its terms.                                             *)
LEMMA SumMonotone ==
  ASSUME NEW D, NEW f \in [D -> Nat], NEW g \in [D -> Nat],
         NEW S, IsFiniteSet(S), S \subseteq D, \A x \in S : f[x] <= g[x]
  PROVE  SumFunctionOnSet(f, S) <= SumFunctionOnSet(g, S)
<1> DEFINE P == {s \in SUBSET S :
                   ~ SumFunctionOnSet(f, s) <= SumFunctionOnSet(g, s)}
<1> SUFFICES ASSUME P # {} PROVE FALSE
  BY S \in SUBSET S
<1>1. PICK m \in P : \A n \in P : n \subseteq m => n = m
  <2>1. P \in SUBSET SUBSET S
    OBVIOUS
  <2> HIDE DEF P
  <2> QED
    BY <2>1, Minimal
<1>2. m # {}
  BY SumOfNone
<1> DEFINE r == m \ {Pick(m)}
<1>3. IsFiniteSet(m) /\ IsFiniteSet(r)
  BY FS_Subset
<1>4. SumFunctionOnSet(f, r) <= SumFunctionOnSet(g, r)
  BY <1>1, <1>2, PickIn
<1>5. f[Pick(m)] <= g[Pick(m)] /\ f[Pick(m)] \in Nat /\ g[Pick(m)] \in Nat
  BY <1>2, PickIn
<1>6. SumFunctionOnSet(f, r) \in Nat /\ SumFunctionOnSet(g, r) \in Nat
  BY <1>3, SumType
<1>7. /\ SumFunctionOnSet(f, m) = f[Pick(m)] + SumFunctionOnSet(f, r)
      /\ SumFunctionOnSet(g, m) = g[Pick(m)] + SumFunctionOnSet(g, r)
  BY <1>2, <1>3, SumOfSome
<1> HIDE DEF r
<1>8. SumFunctionOnSet(f, m) <= SumFunctionOnSet(g, m)
  BY <1>4, <1>5, <1>6, <1>7
<1> QED
  BY <1>8

-----------------------------------------------------------------------------
(* Counts of the processes that are at one of some places.                 *)
At(pc, S, A) == {s \in S : pc[s] \in A}
HowMany(pc, S, A) == Cardinality(At(pc, S, A))

LEMMA CountType ==
  ASSUME NEW S, IsFiniteSet(S), NEW pc, NEW A
  PROVE  /\ IsFiniteSet(At(pc, S, A))
         /\ HowMany(pc, S, A) \in Nat /\ HowMany(pc, S, A) <= Cardinality(S)
         /\ Cardinality(S) \in Nat
         /\ HowMany(pc, S, A) = Cardinality(S) => \A s \in S : pc[s] \in A
         /\ HowMany(pc, S, A) = 0 => \A s \in S : pc[s] \notin A
<1>1. At(pc, S, A) \in SUBSET S
  BY DEF At
<1>2. /\ IsFiniteSet(At(pc, S, A))
      /\ Cardinality(At(pc, S, A)) <= Cardinality(S)
      /\ Cardinality(S) = Cardinality(At(pc, S, A)) => S = At(pc, S, A)
  BY <1>1, FS_Subset
<1>3. Cardinality(S) \in Nat /\ Cardinality(At(pc, S, A)) \in Nat
  BY <1>2, FS_CardinalityType
<1>4. Cardinality(At(pc, S, A)) = 0 => At(pc, S, A) = {}
  BY <1>2, FS_EmptySet
<1> QED
  BY <1>2, <1>3, <1>4 DEF At, HowMany

(* One process moves.                                                      *)
OnlyMoves(x, pc, new, S) == x \in S /\ \A y \in S \ {x} : new[y] = pc[y]

LEMMA CountMove ==
  ASSUME NEW S, IsFiniteSet(S), NEW pc, NEW new, NEW x, OnlyMoves(x, pc, new, S), NEW A
  PROVE  HowMany(new, S, A) = HowMany(pc, S, A) - (IF pc[x] \in A THEN 1 ELSE 0)
                                               + (IF new[x] \in A THEN 1 ELSE 0)
<1> USE DEF OnlyMoves
<1>1. IsFiniteSet(At(pc, S, A)) /\ HowMany(pc, S, A) \in Nat
  BY CountType
<1>2. CASE pc[x] \in A /\ new[x] \in A
  <2>1. At(new, S, A) = At(pc, S, A)
    BY <1>2 DEF At
  <2> QED
    BY <1>1, <1>2, <2>1 DEF HowMany
<1>3. CASE pc[x] \notin A /\ new[x] \notin A
  <2>1. At(new, S, A) = At(pc, S, A)
    BY <1>3 DEF At
  <2> QED
    BY <1>1, <1>3, <2>1 DEF HowMany
<1>4. CASE pc[x] \in A /\ new[x] \notin A
  <2>1. At(new, S, A) = At(pc, S, A) \ {x} /\ x \in At(pc, S, A)
    BY <1>4 DEF At
  <2>2. Cardinality(At(new, S, A)) = Cardinality(At(pc, S, A)) - 1
    BY <1>1, <2>1, FS_RemoveElement
  <2> QED
    BY <1>1, <1>4, <2>2 DEF HowMany
<1>5. CASE pc[x] \notin A /\ new[x] \in A
  <2>1. At(new, S, A) = At(pc, S, A) \union {x} /\ x \notin At(pc, S, A)
    BY <1>5 DEF At
  <2>2. Cardinality(At(new, S, A)) = Cardinality(At(pc, S, A)) + 1
    BY <1>1, <2>1, FS_AddElement
  <2> QED
    BY <1>1, <1>5, <2>2 DEF HowMany
<1> QED
  BY <1>2, <1>3, <1>4, <1>5

(* Nobody is at two places.                                                *)
LEMMA CountSplit ==
  ASSUME NEW S, IsFiniteSet(S), NEW pc, NEW A, NEW B, A \intersect B = {}
  PROVE  HowMany(pc, S, A \union B) = HowMany(pc, S, A) + HowMany(pc, S, B)
<1>1. IsFiniteSet(At(pc, S, A)) /\ IsFiniteSet(At(pc, S, B))
      /\ HowMany(pc, S, A) \in Nat /\ HowMany(pc, S, B) \in Nat
  BY CountType
<1>2. /\ At(pc, S, A \union B) = At(pc, S, A) \union At(pc, S, B)
      /\ At(pc, S, A) \intersect At(pc, S, B) = {}
  BY DEF At
<1>3. Cardinality(At(pc, S, A) \union At(pc, S, B))
        = Cardinality(At(pc, S, A)) + Cardinality(At(pc, S, B)) - Cardinality({})
  BY <1>1, <1>2, FS_Union
<1>4. Cardinality({}) = 0
  BY FS_EmptySet, Zenon
<1>5. /\ HowMany(pc, S, A \union B) = Cardinality(At(pc, S, A) \union At(pc, S, B))
      /\ HowMany(pc, S, A) = Cardinality(At(pc, S, A))
      /\ HowMany(pc, S, B) = Cardinality(At(pc, S, B))
  BY <1>2, Zenon DEF HowMany
<1> QED
  BY <1>1, <1>3, <1>4, <1>5

LEMMA SumOfZeros ==
  ASSUME NEW f, NEW S, IsFiniteSet(S), \A x \in S : f[x] = 0
  PROVE  SumFunctionOnSet(f, S) = 0
<1> DEFINE g == [x \in S |-> 0]
           P == {s \in SUBSET S : SumFunctionOnSet(g, s) # 0}
<1>1. SumFunctionOnSet(f, S) = SumFunctionOnSet(g, S)
  BY SumSame
<1>2. P = {}
  <2> SUFFICES ASSUME P # {} PROVE FALSE
    OBVIOUS
  <2>1. PICK m \in P : \A n \in P : n \subseteq m => n = m
    <3>1. P \in SUBSET SUBSET S
      OBVIOUS
    <3> HIDE DEF P
    <3> QED
      BY <3>1, Minimal
  <2>2. m # {}
    BY <2>1, SumOfNone
  <2>3. PICK x \in m : TRUE
    BY <2>2
  <2>4. IsFiniteSet(m) /\ m \subseteq S
    BY <2>1, FS_Subset
  <2>5. SumFunctionOnSet(g, m) = g[x] + SumFunctionOnSet(g, m \ {x})
    <3>1. g \in [S -> Nat]
      OBVIOUS
    <3> HIDE DEF g
    <3> QED
      BY <3>1, <2>4, SumRemove
  <2>6. m \ {x} \notin P /\ m \ {x} \in SUBSET S
    BY <2>1, <2>3, <2>4
  <2>7. SumFunctionOnSet(g, m \ {x}) = 0 /\ g[x] = 0
    BY <2>6, <2>4, <2>3
  <2> QED
    BY <2>1, <2>5, <2>7
<1> QED
  BY <1>1, <1>2, S \in SUBSET S

(* One more of one of them is one more of the sum, if it is among them.    *)
LEMMA SumOneMore ==
  ASSUME NEW D, NEW f \in [D -> Nat], NEW S, IsFiniteSet(S), S \subseteq D, NEW x \in D
  PROVE  SumFunctionOnSet([f EXCEPT ![x] = @ + 1], S)
           = SumFunctionOnSet(f, S) + (IF x \in S THEN 1 ELSE 0)
<1> DEFINE g == [f EXCEPT ![x] = @ + 1]
<1>1. g \in [D -> Nat] /\ g[x] = f[x] + 1 /\ \A y \in D : y # x => g[y] = f[y]
  OBVIOUS
<1> HIDE DEF g
<1>2. SumFunctionOnSet(f, S) \in Nat
  BY SumType
<1>3. CASE x \in S
  <2>1. IsFiniteSet(S \ {x}) /\ S \ {x} \subseteq D
    BY FS_Subset
  <2>2. SumFunctionOnSet(g, S \ {x}) = SumFunctionOnSet(f, S \ {x})
    <3>1. \A y \in S \ {x} : g[y] = f[y]
      BY <1>1
    <3> QED
      BY <3>1, <2>1, SumSame
  <2>3. SumFunctionOnSet(g, S) = g[x] + SumFunctionOnSet(g, S \ {x})
    BY <1>1, <1>3, SumRemove
  <2>4. SumFunctionOnSet(f, S) = f[x] + SumFunctionOnSet(f, S \ {x})
    BY <1>3, SumRemove
  <2>5. SumFunctionOnSet(f, S \ {x}) \in Nat /\ f[x] \in Nat
    BY <2>1, SumType
  <2>6. SumFunctionOnSet(g, S) = SumFunctionOnSet(f, S) + 1
    BY <2>2, <2>3, <2>4, <2>5, <1>1
  <2> QED
    BY <2>6, <1>3 DEF g
<1>4. CASE x \notin S
  <2>1. SumFunctionOnSet(g, S) = SumFunctionOnSet(f, S)
    <3>1. \A y \in S : g[y] = f[y]
      BY <1>1, <1>4
    <3> QED
      BY <3>1, SumSame
  <2> QED
    BY <2>1, <1>2, <1>4 DEF g
<1> QED
  BY <1>3, <1>4

LEMMA SumSubset ==
  ASSUME NEW D, NEW f \in [D -> Nat], NEW T, IsFiniteSet(T), T \subseteq D, NEW S \in SUBSET T
  PROVE  SumFunctionOnSet(f, S) <= SumFunctionOnSet(f, T)
<1> DEFINE P == {s \in SUBSET T : S \subseteq s
                                  /\ ~(SumFunctionOnSet(f, S) <= SumFunctionOnSet(f, s))}
<1> SUFFICES ASSUME P # {} PROVE FALSE
  OBVIOUS
<1>1. PICK m \in P : \A n \in P : n \subseteq m => n = m
  <2>1. P \in SUBSET SUBSET T
    OBVIOUS
  <2> HIDE DEF P
  <2> QED
    BY <2>1, Minimal
<1>2. IsFiniteSet(m) /\ m \subseteq D /\ IsFiniteSet(S) /\ S \subseteq D
  BY <1>1, FS_Subset
<1>3. SumFunctionOnSet(f, S) \in Nat
  BY <1>2, SumType
<1>4. PICK x \in m : x \notin S
  <2>1. m # S
    BY <1>1, <1>3
  <2> QED
    BY <1>1, <2>1
<1>5. m \ {x} \in SUBSET T /\ S \subseteq m \ {x} /\ m \ {x} \notin P
  BY <1>1, <1>4
<1>6. SumFunctionOnSet(f, m) = f[x] + SumFunctionOnSet(f, m \ {x})
  BY <1>2, SumRemove
<1>7. SumFunctionOnSet(f, m \ {x}) \in Nat /\ f[x] \in Nat
  <2>1. IsFiniteSet(m \ {x}) /\ m \ {x} \subseteq D
    BY <1>2, FS_Subset
  <2> QED
    BY <2>1, <1>2, SumType
<1>8. SumFunctionOnSet(f, S) <= SumFunctionOnSet(f, m \ {x})
  BY <1>5
<1> QED
  BY <1>1, <1>3, <1>6, <1>7, <1>8

LEMMA SumOfSomething ==
  ASSUME NEW S, IsFiniteSet(S), NEW f \in [S -> Nat], NEW d \in S, f[d] > 0
  PROVE  SumFunctionOnSet(f, S) # 0
<1>1. SumFunctionOnSet(f, S) = f[d] + SumFunctionOnSet(f, S \ {d})
  BY SumRemove, S \subseteq S
<1>2. IsFiniteSet(S \ {d}) /\ S \ {d} \subseteq S
  BY FS_Subset
<1>3. SumFunctionOnSet(f, S \ {d}) \in Nat
  BY <1>2, SumType
<1> QED
  BY <1>1, <1>3

-----------------------------------------------------------------------------
(* The least of some numbers, and the largest of finitely many.            *)

LEMMA NatMin ==
  ASSUME NEW S \in SUBSET Nat, S # {} PROVE \E n \in S : \A m \in S : n <= m
<1>1. PICK n \in S : \A m \in S : <<m, n>> \notin OpToRel(<, Nat)
  BY NatLessThanWellFounded, WFMin
<1>2. \A m \in S : ~(m < n)
  BY <1>1 DEF OpToRel
<1> QED
  BY <1>2

LEMMA FiniteMax ==
  ASSUME NEW S, IsFiniteSet(S)
  PROVE  S \subseteq Nat /\ S # {} => \E b \in S : \A c \in S : c <= b
<1>0. \A Q \in SUBSET SUBSET S : Q # {} => \E m \in Q : \A n \in Q : n \subseteq m => n = m
  BY Minimal
<1> DEFINE P == {s \in SUBSET S : s # {} /\ ~\E b \in s : \A c \in s : c <= b}
<1> SUFFICES ASSUME S \subseteq Nat, P # {} PROVE FALSE
  BY S \in SUBSET S
<1>1. PICK m \in P : \A n \in P : n \subseteq m => n = m
  <2>2. P \in SUBSET SUBSET S
    OBVIOUS
  <2> HIDE DEF P
  <2> QED
    BY <1>0, <2>2
<1>2. PICK x \in m : x \in Nat
  BY <1>1
<1>3. m \ {x} # {}
  BY <1>1, <1>2
<1>4. m \ {x} \in SUBSET S /\ m \ {x} \notin P
  BY <1>1, <1>2
<1>5. PICK b \in m \ {x} : \A c \in m \ {x} : c <= b
  BY <1>3, <1>4
<1>6. b \in Nat /\ \A c \in m : c \in Nat
  BY <1>1, <1>5
<1>7. CASE x <= b
  BY <1>1, <1>2, <1>5, <1>7
<1>8. CASE ~(x <= b)
  <2>1. \A c \in m : c <= x
    BY <1>2, <1>5, <1>6, <1>8
  <2> QED
    BY <1>1, <1>2, <2>1, Zenon
<1> QED
  BY <1>7, <1>8
=============================================================================
