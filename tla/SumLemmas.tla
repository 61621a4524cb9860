------------------------------ MODULE SumLemmas ------------------------------
(***************************************************************************)
(* What SumFunctionOnSet computes on finite sets: the sum of integers that *)
(* the proofs about chips, prizes and credits need.  Its definition        *)
(* recurses over the subsets of the index set, each time on an element of  *)
(* its choice, so the lemmas rest on induction over subsets.               *)
(***************************************************************************)
EXTENDS Integers, FiniteSets, Functions, FiniteSetTheorems, TLAPS

-----------------------------------------------------------------------------
(* Induction *)

LEMMA SubsetInduction ==
  ASSUME NEW S, IsFiniteSet(S), NEW P \in SUBSET SUBSET S,
         \A T \in SUBSET S : (\A R \in SUBSET T : R # T => R \in P) => T \in P
  PROVE  P = SUBSET S
<1> DEFINE Q == (SUBSET S) \ P
<1> SUFFICES ASSUME Q # {} PROVE FALSE
  OBVIOUS
<1>1. IsWellFoundedOn(StrictSubsetOrdering(S), FiniteSubsetsOf(S))
  BY FS_StrictSubsetOrderingWellFounded
<1>2. Q \subseteq FiniteSubsetsOf(S)
  BY FS_FiniteSubsetsOfFinite
<1>3. PICK T \in Q : \A R \in Q : ~(<<R, T>> \in StrictSubsetOrdering(S))
  <2> HIDE DEF Q
  <2>. QED  BY <1>1, <1>2, WFMin
<1>4. \A R \in SUBSET T : R # T => R \in P
  BY <1>3 DEF StrictSubsetOrdering
<1>. QED  BY <1>3, <1>4

LEMMA SetInduction ==
  ASSUME NEW S, IsFiniteSet(S), NEW P \in SUBSET SUBSET S, {} \in P,
         \A T \in P, x \in S : x \notin T => T \cup {x} \in P
  PROVE  S \in P
<1>1. ASSUME NEW T \in SUBSET S, \A R \in SUBSET T : R # T => R \in P
      PROVE  T \in P
  <2>1. CASE T = {}
    BY <2>1
  <2>2. CASE T # {}
    <3>1. PICK x \in T : TRUE
      BY <2>2
    <3>2. T \ {x} \in P
      BY <1>1
    <3>3. (T \ {x}) \cup {x} = T
      OBVIOUS
    <3>4. x \notin T \ {x} /\ x \in S
      OBVIOUS
    <3>. QED  BY <3>2, <3>3, <3>4
  <2>. QED  BY <2>1, <2>2
<1>. QED  BY <1>1, SubsetInduction

LEMMA LeastNat ==
  ASSUME NEW Q \in SUBSET Nat, Q # {}
  PROVE  \E n \in Q : \A m \in Q : n <= m
<1>1. PICK n \in Q : \A m \in Q : ~(<<m, n>> \in OpToRel(<, Nat))
  BY NatLessThanWellFounded, WFMin
<1>2. ASSUME NEW m \in Q, ~(n <= m) PROVE FALSE
  <2>1. m < n /\ m \in Nat /\ n \in Nat
    BY <1>2
  <2>2. <<m, n>> \in OpToRel(<, Nat)
    BY <2>1 DEF OpToRel
  <2>. QED  BY <1>1, <2>2
<1>. QED  BY <1>2

-----------------------------------------------------------------------------
(* The sum is well defined *)

Pick(s) == CHOOSE x \in s : TRUE

\* g gives the sum of f over each subset of T, as FoldFunctionOnSet has it.
SumsOver(g, f, T) ==
  g = [s \in SUBSET T |-> IF s = {} THEN 0 ELSE f[Pick(s)] + g[s \ {Pick(s)}]]

LEMMA SumsUnique ==
  ASSUME NEW f, NEW S, IsFiniteSet(S), NEW T \in SUBSET S, NEW R \in SUBSET S,
         NEW g, NEW h, SumsOver(g, f, T), SumsOver(h, f, R)
  PROVE  \A s \in SUBSET (T \cap R) : g[s] = h[s]
<1> DEFINE P == {s \in SUBSET (T \cap R) : g[s] = h[s]}
<1>1. IsFiniteSet(T \cap R)
  BY FS_Subset
<1>2. ASSUME NEW s \in SUBSET (T \cap R),
             \A r \in SUBSET s : r # s => r \in P
      PROVE  s \in P
  <2>1. CASE s = {}
    BY <2>1 DEF SumsOver
  <2>2. CASE s # {}
    <3>1. Pick(s) \in s
      BY <2>2 DEF Pick
    <3>2. g[s \ {Pick(s)}] = h[s \ {Pick(s)}]
      BY <1>2, <3>1
    <3>3. s \in SUBSET T /\ s \in SUBSET R
      OBVIOUS
    <3>4. g[s] = f[Pick(s)] + g[s \ {Pick(s)}]
      BY <2>2, <3>3 DEF SumsOver
    <3>5. h[s] = f[Pick(s)] + h[s \ {Pick(s)}]
      BY <2>2, <3>3 DEF SumsOver
    <3>. QED  BY <3>2, <3>4, <3>5
  <2>. QED  BY <2>1, <2>2
<1>. HIDE DEF P
<1>3. P = SUBSET (T \cap R)
  <2>. P \in SUBSET SUBSET (T \cap R)
    BY DEF P
  <2>. QED  BY <1>1, <1>2, SubsetInduction
<1>. QED  BY <1>3 DEF P

LEMMA SumsExist ==
  ASSUME NEW f, NEW S, IsFiniteSet(S)
  PROVE  \A T \in SUBSET S : \E g : SumsOver(g, f, T)
<1> DEFINE P == {T \in SUBSET S : \E g : SumsOver(g, f, T)}
<1>1. ASSUME NEW T \in SUBSET S, \A R \in SUBSET T : R # T => R \in P
      PROVE  T \in P
  <2> DEFINE below == [R \in (SUBSET T) \ {T} |-> CHOOSE g : SumsOver(g, f, R)]
             g == [s \in SUBSET T |->
                     IF s = {} THEN 0
                     ELSE f[Pick(s)] + below[s \ {Pick(s)}][s \ {Pick(s)}]]
  <2>1. \A R \in (SUBSET T) \ {T} : SumsOver(below[R], f, R)
    BY <1>1
  <2> HIDE DEF below
  <2>2. \A s \in SUBSET T : s # {} =>
          /\ Pick(s) \in s
          /\ s \ {Pick(s)} \in (SUBSET T) \ {T}
    BY DEF Pick
  \* What each smaller function says of itself is what g says.
  <2>3. \A R \in (SUBSET T) \ {T} : below[R][R] = g[R]
    <3> SUFFICES ASSUME NEW R \in (SUBSET T) \ {T} PROVE below[R][R] = g[R]
      OBVIOUS
    <3>1. CASE R = {}
      BY <2>1, <3>1 DEF SumsOver
    <3>2. CASE R # {}
      <4>1. PICK r : r = R \ {Pick(R)}
        OBVIOUS
      <4>2. r \in (SUBSET T) \ {T} /\ r \in SUBSET R
        BY <2>2, <3>2, <4>1
      <4>3. SumsOver(below[R], f, R) /\ SumsOver(below[r], f, r)
        BY <2>1, <4>2
      <4>4. below[R][r] = below[r][r]
        <5>1. R \in SUBSET S /\ r \in SUBSET S /\ r \in SUBSET (R \cap r)
          BY <4>2
        <5>. QED  BY <4>3, <5>1, SumsUnique
      <4>5. below[R][R] = f[Pick(R)] + below[R][r]
        BY <3>2, <4>1, <4>3 DEF SumsOver
      <4>6. g[R] = f[Pick(R)] + below[r][r]
        BY <3>2, <4>1
      <4>. QED  BY <4>4, <4>5, <4>6
    <3>. QED  BY <3>1, <3>2
  <2>4. \A s \in SUBSET T : s # {} =>
          g[s] = f[Pick(s)] + g[s \ {Pick(s)}]
    <3> SUFFICES ASSUME NEW s \in SUBSET T, s # {}
                 PROVE  g[s] = f[Pick(s)] + g[s \ {Pick(s)}]
      OBVIOUS
    <3>1. g[s] = f[Pick(s)] + below[s \ {Pick(s)}][s \ {Pick(s)}]
      OBVIOUS
    <3> HIDE DEF g
    <3>. QED  BY <2>2, <2>3, <3>1
  <2>5. g[{}] = 0
    OBVIOUS
  <2>6. g = [s \in SUBSET T |-> g[s]]
    OBVIOUS
  <2> HIDE DEF g
  <2>7. SumsOver(g, f, T)
    BY <2>4, <2>5, <2>6 DEF SumsOver
  <2>. QED  BY <2>7
<1>2. P \in SUBSET SUBSET S
  OBVIOUS
<1>. HIDE DEF P
<1>3. P = SUBSET S
  BY <1>1, <1>2, SubsetInduction
<1>. QED  BY <1>3 DEF P

LEMMA SumIsSums ==
  ASSUME NEW f, NEW S, IsFiniteSet(S), NEW g, SumsOver(g, f, S)
  PROVE  \A T \in SUBSET S : SumFunctionOnSet(f, T) = g[T]
<1> SUFFICES ASSUME NEW T \in SUBSET S PROVE SumFunctionOnSet(f, T) = g[T]
  OBVIOUS
<1> DEFINE h == CHOOSE h : SumsOver(h, f, T)
<1>1. SumsOver(h, f, T)
  BY SumsExist
<1>2. SumFunctionOnSet(f, T) = h[T]
  BY DEF SumFunctionOnSet, FoldFunctionOnSet, MapThenFoldSet, SumsOver, Pick
<1> HIDE DEF h
<1>. QED  BY <1>1, <1>2, SumsUnique

-----------------------------------------------------------------------------
(* The laws of sums *)

\* f gives integers on S.
IntOn(f, S) == \A x \in S : f[x] \in Int

LEMMA SumEmpty == ASSUME NEW f PROVE SumFunctionOnSet(f, {}) = 0
<1>1. IsFiniteSet({})
  BY FS_EmptySet
<1>2. PICK g : SumsOver(g, f, {})
  BY <1>1, SumsExist
<1>3. g[{}] = 0
  BY <1>2 DEF SumsOver
<1>. QED  BY <1>1, <1>2, <1>3, SumIsSums

\* The recursion of the definition, at whatever element it picks.
LEMMA SumPick ==
  ASSUME NEW f, NEW S, IsFiniteSet(S), S # {}
  PROVE  /\ Pick(S) \in S
         /\ SumFunctionOnSet(f, S) = f[Pick(S)] + SumFunctionOnSet(f, S \ {Pick(S)})
<1>1. PICK g : SumsOver(g, f, S)
  BY SumsExist
<1>2. g[S] = f[Pick(S)] + g[S \ {Pick(S)}]
  BY <1>1 DEF SumsOver
<1>3. SumFunctionOnSet(f, S) = g[S]
  BY <1>1, SumIsSums
<1>4. SumFunctionOnSet(f, S \ {Pick(S)}) = g[S \ {Pick(S)}]
  BY <1>1, SumIsSums
<1>. QED  BY <1>2, <1>3, <1>4 DEF Pick

LEMMA SumInt ==
  ASSUME NEW f, NEW S, IsFiniteSet(S), IntOn(f, S)
  PROVE  SumFunctionOnSet(f, S) \in Int
<1> DEFINE P == {T \in SUBSET S : SumFunctionOnSet(f, T) \in Int}
<1>1. ASSUME NEW T \in SUBSET S, \A R \in SUBSET T : R # T => R \in P
      PROVE  T \in P
  <2>1. CASE T = {}
    BY <2>1, SumEmpty
  <2>2. CASE T # {}
    <3>1. /\ Pick(T) \in T
          /\ SumFunctionOnSet(f, T) = f[Pick(T)] + SumFunctionOnSet(f, T \ {Pick(T)})
      BY <2>2, SumPick, FS_Subset
    <3>2. SumFunctionOnSet(f, T \ {Pick(T)}) \in Int
      BY <1>1, <3>1
    <3>. QED  BY <3>1, <3>2 DEF IntOn
  <2>. QED  BY <2>1, <2>2
<1>2. P \in SUBSET SUBSET S
  OBVIOUS
<1> HIDE DEF P
<1>3. P = SUBSET S
  BY <1>1, <1>2, SubsetInduction
<1>. QED  BY <1>3 DEF P

LEMMA SumSplit ==
  ASSUME NEW f, NEW S, IsFiniteSet(S), IntOn(f, S)
  PROVE  \A e \in S : SumFunctionOnSet(f, S) = f[e] + SumFunctionOnSet(f, S \ {e})
<1> DEFINE P == {T \in SUBSET S : \A e \in T :
                   SumFunctionOnSet(f, T) = f[e] + SumFunctionOnSet(f, T \ {e})}
<1>1. ASSUME NEW T \in SUBSET S, \A R \in SUBSET T : R # T => R \in P
      PROVE  T \in P
  <2> SUFFICES ASSUME NEW e \in T
               PROVE  SumFunctionOnSet(f, T) = f[e] + SumFunctionOnSet(f, T \ {e})
    OBVIOUS
  <2>1. PICK p \in T :
          SumFunctionOnSet(f, T) = f[p] + SumFunctionOnSet(f, T \ {p})
    BY SumPick, FS_Subset
  <2>2. CASE p = e
    BY <2>1, <2>2
  <2>3. CASE p # e
    <3>1. PICK m : m = SumFunctionOnSet(f, (T \ {p}) \ {e})
      OBVIOUS
    <3>2. T \ {p} \in P /\ T \ {e} \in P
      BY <1>1
    <3>3. SumFunctionOnSet(f, T \ {p}) = f[e] + m
      BY <2>3, <3>1, <3>2
    <3>4. (T \ {e}) \ {p} = (T \ {p}) \ {e}
      OBVIOUS
    <3>5. SumFunctionOnSet(f, T \ {e}) = f[p] + m
      BY <2>3, <3>1, <3>2, <3>4
    <3>6. IsFiniteSet((T \ {p}) \ {e}) /\ IntOn(f, (T \ {p}) \ {e})
      BY FS_Subset DEF IntOn
    <3>7. m \in Int /\ f[p] \in Int /\ f[e] \in Int
      BY <3>1, <3>6, SumInt DEF IntOn
    <3>. QED  BY <2>1, <3>3, <3>5, <3>7
  <2>. QED  BY <2>2, <2>3
<1>2. P \in SUBSET SUBSET S
  OBVIOUS
<1> HIDE DEF P
<1>3. P = SUBSET S
  BY <1>1, <1>2, SubsetInduction
<1>. QED  BY <1>3 DEF P

LEMMA SumAdd ==
  ASSUME NEW f, NEW S, IsFiniteSet(S), NEW e, e \notin S, IntOn(f, S \cup {e})
  PROVE  SumFunctionOnSet(f, S \cup {e}) = f[e] + SumFunctionOnSet(f, S)
<1>1. (S \cup {e}) \ {e} = S /\ IsFiniteSet(S \cup {e})
  BY FS_AddElement
<1>. QED  BY <1>1, SumSplit

LEMMA SumSame ==
  ASSUME NEW f, NEW h, NEW S, IsFiniteSet(S), IntOn(f, S), \A x \in S : f[x] = h[x]
  PROVE  SumFunctionOnSet(f, S) = SumFunctionOnSet(h, S)
<1> DEFINE P == {T \in SUBSET S : SumFunctionOnSet(f, T) = SumFunctionOnSet(h, T)}
<1>1. {} \in P
  BY SumEmpty
<1>2. ASSUME NEW T \in P, NEW x \in S, x \notin T PROVE T \cup {x} \in P
  <2>1. IsFiniteSet(T) /\ IntOn(f, T \cup {x}) /\ IntOn(h, T \cup {x})
    BY FS_Subset DEF IntOn
  <2>. QED  BY <1>2, <2>1, SumAdd
<1>3. P \in SUBSET SUBSET S
  OBVIOUS
<1> HIDE DEF P
<1>4. S \in P
  BY <1>1, <1>2, <1>3, SetInduction
<1>. QED  BY <1>4 DEF P

\* A function changed at one place.
LEMMA SumChanged ==
  ASSUME NEW f, NEW h, NEW S, IsFiniteSet(S), NEW e \in S, IntOn(f, S), IntOn(h, S),
         \A x \in S \ {e} : f[x] = h[x]
  PROVE  SumFunctionOnSet(h, S) = SumFunctionOnSet(f, S) - f[e] + h[e]
<1>1. IsFiniteSet(S \ {e}) /\ IntOn(f, S \ {e})
  BY FS_Subset DEF IntOn
<1>2. SumFunctionOnSet(f, S \ {e}) = SumFunctionOnSet(h, S \ {e})
  BY <1>1, SumSame
<1>3. /\ SumFunctionOnSet(f, S) = f[e] + SumFunctionOnSet(f, S \ {e})
      /\ SumFunctionOnSet(h, S) = h[e] + SumFunctionOnSet(h, S \ {e})
  BY SumSplit
<1>4. SumFunctionOnSet(f, S \ {e}) \in Int /\ f[e] \in Int /\ h[e] \in Int
  BY <1>1, SumInt DEF IntOn
<1>. QED  BY <1>2, <1>3, <1>4

LEMMA SumConstant ==
  ASSUME NEW f, NEW S, IsFiniteSet(S), NEW c \in Int, \A x \in S : f[x] = c
  PROVE  SumFunctionOnSet(f, S) = Cardinality(S) * c
<1> DEFINE P == {T \in SUBSET S : SumFunctionOnSet(f, T) = Cardinality(T) * c}
<1>1. {} \in P
  BY SumEmpty, FS_EmptySet
<1>2. ASSUME NEW T \in P, NEW x \in S, x \notin T PROVE T \cup {x} \in P
  <2>1. IsFiniteSet(T) /\ IntOn(f, T \cup {x})
    BY FS_Subset DEF IntOn
  <2>2. SumFunctionOnSet(f, T \cup {x}) = c + SumFunctionOnSet(f, T)
    BY <1>2, <2>1, SumAdd
  <2>3. PICK n \in Nat : n = Cardinality(T)
    BY <2>1, FS_CardinalityType
  <2>4. Cardinality(T \cup {x}) = n + 1
    BY <1>2, <2>1, <2>3, FS_AddElement
  <2>5. c + n * c = (n + 1) * c
    OBVIOUS
  <2>. QED  BY <2>2, <2>3, <2>4, <2>5
<1>3. P \in SUBSET SUBSET S
  OBVIOUS
<1> HIDE DEF P
<1>4. S \in P
  BY <1>1, <1>2, <1>3, SetInduction
<1>. QED  BY <1>4 DEF P

LEMMA SumUnion ==
  ASSUME NEW f, NEW S, NEW R, IsFiniteSet(S), IsFiniteSet(R), S \cap R = {},
         IntOn(f, S \cup R)
  PROVE  SumFunctionOnSet(f, S \cup R)
           = SumFunctionOnSet(f, S) + SumFunctionOnSet(f, R)
<1> DEFINE P == {T \in SUBSET R :
                   SumFunctionOnSet(f, S \cup T)
                     = SumFunctionOnSet(f, S) + SumFunctionOnSet(f, T)}
<1>0. SumFunctionOnSet(f, S) \in Int
  BY SumInt DEF IntOn
<1>1. {} \in P
  BY <1>0, SumEmpty
<1>2. ASSUME NEW T \in P, NEW x \in R, x \notin T PROVE T \cup {x} \in P
  <2>1. IsFiniteSet(T) /\ IntOn(f, T) /\ IntOn(f, T \cup {x})
    BY FS_Subset DEF IntOn
  <2>2. /\ IsFiniteSet(S \cup T) /\ IntOn(f, (S \cup T) \cup {x})
        /\ x \notin S \cup T /\ S \cup (T \cup {x}) = (S \cup T) \cup {x}
    BY <1>2, <2>1, FS_Union DEF IntOn
  <2>3. SumFunctionOnSet(f, S \cup (T \cup {x}))
          = f[x] + SumFunctionOnSet(f, S \cup T)
    <3>1. SumFunctionOnSet(f, (S \cup T) \cup {x})
            = f[x] + SumFunctionOnSet(f, S \cup T)
      BY <2>2, SumAdd
    <3>. QED  BY <2>2, <3>1, Zenon
  <2>4. SumFunctionOnSet(f, T \cup {x}) = f[x] + SumFunctionOnSet(f, T)
    BY <1>2, <2>1, SumAdd
  <2>5. SumFunctionOnSet(f, T) \in Int /\ f[x] \in Int
    BY <2>1, SumInt DEF IntOn
  <2>6. SumFunctionOnSet(f, S \cup T)
          = SumFunctionOnSet(f, S) + SumFunctionOnSet(f, T)
    BY <1>2
  <2>7. SumFunctionOnSet(f, S \cup (T \cup {x}))
          = SumFunctionOnSet(f, S) + SumFunctionOnSet(f, T \cup {x})
    BY <1>0, <2>3, <2>4, <2>5, <2>6
  <2>. QED  BY <1>2, <2>7
<1>3. P \in SUBSET SUBSET R
  OBVIOUS
<1> HIDE DEF P
<1>4. R \in P
  BY <1>1, <1>2, <1>3, SetInduction
<1>. QED  BY <1>4 DEF P

LEMMA SumMonotone ==
  ASSUME NEW f, NEW h, NEW S, IsFiniteSet(S), IntOn(f, S), IntOn(h, S),
         \A x \in S : f[x] <= h[x]
  PROVE  SumFunctionOnSet(f, S) <= SumFunctionOnSet(h, S)
<1> DEFINE P == {T \in SUBSET S : SumFunctionOnSet(f, T) <= SumFunctionOnSet(h, T)}
<1>1. {} \in P
  BY SumEmpty
<1>2. ASSUME NEW T \in P, NEW x \in S, x \notin T PROVE T \cup {x} \in P
  <2>1. /\ IsFiniteSet(T) /\ IntOn(f, T \cup {x}) /\ IntOn(h, T \cup {x})
        /\ IntOn(f, T) /\ IntOn(h, T)
    BY FS_Subset DEF IntOn
  <2>2. /\ SumFunctionOnSet(f, T \cup {x}) = f[x] + SumFunctionOnSet(f, T)
        /\ SumFunctionOnSet(h, T \cup {x}) = h[x] + SumFunctionOnSet(h, T)
    BY <1>2, <2>1, SumAdd
  <2>3. /\ SumFunctionOnSet(f, T) \in Int /\ SumFunctionOnSet(h, T) \in Int
        /\ f[x] \in Int /\ h[x] \in Int
    BY <2>1, SumInt DEF IntOn
  <2>4. f[x] <= h[x] /\ SumFunctionOnSet(f, T) <= SumFunctionOnSet(h, T)
    BY <1>2
  <2>5. SumFunctionOnSet(f, T \cup {x}) <= SumFunctionOnSet(h, T \cup {x})
    BY <2>2, <2>3, <2>4
  <2>. QED  BY <1>2, <2>5
<1>3. P \in SUBSET SUBSET S
  OBVIOUS
<1> HIDE DEF P
<1>4. S \in P
  BY <1>1, <1>2, <1>3, SetInduction
<1>. QED  BY <1>4 DEF P

\* The sums of two functions add up.
LEMMA SumBoth ==
  ASSUME NEW f, NEW h, NEW k, NEW S, IsFiniteSet(S), IntOn(f, S), IntOn(h, S),
         \A x \in S : k[x] = f[x] + h[x]
  PROVE  SumFunctionOnSet(k, S) = SumFunctionOnSet(f, S) + SumFunctionOnSet(h, S)
<1> DEFINE P == {T \in SUBSET S : SumFunctionOnSet(k, T)
                   = SumFunctionOnSet(f, T) + SumFunctionOnSet(h, T)}
<1>1. {} \in P
  BY SumEmpty
<1>2. ASSUME NEW T \in P, NEW x \in S, x \notin T PROVE T \cup {x} \in P
  <2>1. /\ IsFiniteSet(T) /\ IntOn(f, T) /\ IntOn(h, T)
        /\ IntOn(f, T \cup {x}) /\ IntOn(h, T \cup {x}) /\ IntOn(k, T \cup {x})
    BY FS_Subset DEF IntOn
  <2>2. /\ SumFunctionOnSet(f, T \cup {x}) = f[x] + SumFunctionOnSet(f, T)
        /\ SumFunctionOnSet(h, T \cup {x}) = h[x] + SumFunctionOnSet(h, T)
        /\ SumFunctionOnSet(k, T \cup {x}) = k[x] + SumFunctionOnSet(k, T)
    BY <1>2, <2>1, SumAdd
  <2>3. /\ SumFunctionOnSet(f, T) \in Int /\ SumFunctionOnSet(h, T) \in Int
        /\ f[x] \in Int /\ h[x] \in Int
    BY <2>1, SumInt DEF IntOn
  <2>4. /\ k[x] = f[x] + h[x]
        /\ SumFunctionOnSet(k, T) = SumFunctionOnSet(f, T) + SumFunctionOnSet(h, T)
    BY <1>2
  <2>5. SumFunctionOnSet(k, T \cup {x})
          = SumFunctionOnSet(f, T \cup {x}) + SumFunctionOnSet(h, T \cup {x})
    BY <2>2, <2>3, <2>4
  <2>. QED  BY <1>2, <2>5
<1>3. P \in SUBSET SUBSET S
  OBVIOUS
<1> HIDE DEF P
<1>4. S \in P
  BY <1>1, <1>2, <1>3, SetInduction
<1>. QED  BY <1>4 DEF P

\* The elements of a set with a value among T, counted value by value.
Valued(X, h, T) == {x \in X : h[x] \in T}

LEMMA SumCounts ==
  ASSUME NEW X, IsFiniteSet(X), NEW h, NEW f, NEW S, IsFiniteSet(S),
         \A y \in S : f[y] = Cardinality(Valued(X, h, {y}))
  PROVE  SumFunctionOnSet(f, S) = Cardinality(Valued(X, h, S))
<1> DEFINE P == {T \in SUBSET S : SumFunctionOnSet(f, T)
                   = Cardinality(Valued(X, h, T))}
<1>0. \A y \in S : f[y] \in Int
  <2> SUFFICES ASSUME NEW y \in S PROVE f[y] \in Int
    OBVIOUS
  <2>1. IsFiniteSet(Valued(X, h, {y}))
    BY FS_Subset DEF Valued
  <2>2. Cardinality(Valued(X, h, {y})) \in Nat
    BY <2>1, FS_CardinalityType
  <2>3. f[y] = Cardinality(Valued(X, h, {y}))
    OBVIOUS
  <2>. QED  BY <2>2, <2>3
<1>1. {} \in P
  <2>1. Valued(X, h, {}) = {}
    BY DEF Valued
  <2>. QED  BY <2>1, SumEmpty, FS_EmptySet
<1>2. ASSUME NEW T \in P, NEW y \in S, y \notin T PROVE T \cup {y} \in P
  <2>1. IsFiniteSet(T) /\ IntOn(f, T \cup {y})
    BY <1>0, FS_Subset DEF IntOn
  <2>2. SumFunctionOnSet(f, T \cup {y}) = f[y] + SumFunctionOnSet(f, T)
    BY <1>2, <2>1, SumAdd
  <2>3. PICK ones, others, all :
          /\ ones = Valued(X, h, {y})
          /\ others = Valued(X, h, T)
          /\ all = Valued(X, h, T \cup {y})
    OBVIOUS
  <2>4. all = ones \cup others /\ ones \cap others = {}
    BY <1>2, <2>3 DEF Valued
  <2>5. IsFiniteSet(ones) /\ IsFiniteSet(others)
    BY <2>3, FS_Subset DEF Valued
  <2>6. Cardinality(all) = Cardinality(ones) + Cardinality(others)
    <3>1. Cardinality(ones \cup others)
            = Cardinality(ones) + Cardinality(others) - Cardinality(ones \cap others)
      BY <2>5, FS_Union
    <3>2. Cardinality(ones \cap others) = 0
      BY <2>4, FS_EmptySet
    <3>3. Cardinality(ones) \in Nat /\ Cardinality(others) \in Nat
      BY <2>5, FS_CardinalityType
    <3>. QED  BY <2>4, <3>1, <3>2, <3>3
  <2>7. f[y] = Cardinality(ones)
    BY <2>3
  <2>8. SumFunctionOnSet(f, T) = Cardinality(others)
    BY <1>2, <2>3
  <2>9. SumFunctionOnSet(f, T \cup {y}) = Cardinality(all)
    BY <2>2, <2>6, <2>7, <2>8
  <2>. QED  BY <1>2, <2>3, <2>9
<1>3. P \in SUBSET SUBSET S
  OBVIOUS
<1> HIDE DEF P
<1>4. S \in P
  BY <1>1, <1>2, <1>3, SetInduction
<1>. QED  BY <1>4 DEF P

=============================================================================
