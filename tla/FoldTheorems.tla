---------------------------- MODULE FoldTheorems ---------------------------
(***************************************************************************)
(* Sums over finite sets, as MapThenSumSet of FiniteSetsExt computes them,  *)
(* and folds, as MapThenFoldSet of Folds and FoldLeft of SequencesExt do:   *)
(* what the proofs about counters that are added up, and about sequences    *)
(* that are worked off, need to know.                                       *)
(*                                                                          *)
(* The library's induction theorems take a predicate as a parameter.  The   *)
(* inductions here are over the set of the counterexamples instead: it has  *)
(* a minimal element, by FS_StrictSubsetOrderingWellFounded and WFMin, and  *)
(* the induction step shows that it is none.                                *)
(***************************************************************************)
EXTENDS FiniteSetsExt, Integers, FiniteSetTheorems, TLAPS

(* The sum of g[x] over the x in S. *)
SumOf(g, S) == MapThenSumSet(LAMBDA x : g[x], S)

(* The recursion behind it. *)
Chosen(s) == CHOOSE y \in s : TRUE
IsSumUpTo(sum, g, S) ==
  sum = [s \in SUBSET S |-> IF s = {} THEN 0
                            ELSE g[Chosen(s)] + sum[s \ {Chosen(s)}]]

(* SumOf, down to the function MapThenFoldSet chooses. *)
LEMMA SumOfUnfolded ==
  ASSUME NEW g, NEW S
  PROVE  SumOf(g, S) = (CHOOSE sum : IsSumUpTo(sum, g, S))[S]
BY DEF SumOf, MapThenSumSet, MapThenFoldSet, IsSumUpTo, Chosen
-----------------------------------------------------------------------------
(* A set of sets, if not empty, has an element that contains no other. *)
LEMMA SmallestSet ==
  ASSUME NEW S, IsFiniteSet(S), NEW B \in SUBSET SUBSET S, B # {}
  PROVE  \E s \in B : \A t \in SUBSET s : t # s => t \notin B
<1> DEFINE R == StrictSubsetOrdering(S)
<1>1. IsWellFoundedOn(R, SUBSET S)
  BY FS_StrictSubsetOrderingWellFounded, FS_FiniteSubsetsOfFinite
<1>2. \E s \in B : \A t \in B : <<t, s>> \notin R
  <2> HIDE DEF R
  <2> QED BY <1>1, WFMin
<1>3. \A s, t \in SUBSET S : <<t, s>> \in R <=> t \subseteq s /\ t # s
  BY DEF StrictSubsetOrdering
<1> QED BY <1>2, <1>3

(* So has a set of numbers. *)
LEMMA SmallestNumber ==
  ASSUME NEW B \in SUBSET Nat, B # {}
  PROVE  \E n \in B : \A m \in Nat : m < n => m \notin B
<1> DEFINE R == OpToRel(<, Nat)
<1>1. IsWellFoundedOn(R, Nat)
  BY NatLessThanWellFounded
<1>2. \E n \in B : \A m \in B : <<m, n>> \notin R
  <2> HIDE DEF R
  <2> QED BY <1>1, WFMin
<1>3. \A m, n \in Nat : <<m, n>> \in R <=> m < n
  BY DEF OpToRel
<1> QED BY <1>2, <1>3

(* A finite set of numbers has a greatest one as well. *)
LEMMA GreatestNumber ==
  ASSUME NEW S \in SUBSET Nat, IsFiniteSet(S), S # {}
  PROVE  \E n \in S : \A m \in S : m <= n
<1> DEFINE Capped(s) == \E n \in s : \A m \in s : m <= n
           B == {s \in SUBSET S : s # {} /\ ~Capped(s)}
<1> SUFFICES ASSUME B # {} PROVE FALSE
  OBVIOUS
<1>1. PICK s \in B : \A t \in SUBSET s : t # s => t \notin B
  <2>1. B \in SUBSET SUBSET S
    OBVIOUS
  <2> HIDE DEF B
  <2> QED BY <2>1, SmallestSet
<1>2. PICK x \in s : x \in Nat
  OBVIOUS
<1>3. CASE s = {x}
  BY <1>2, <1>3
<1>4. CASE s # {x}
  <2>1. s \ {x} # {} /\ s \ {x} \in SUBSET S
    BY <1>2, <1>4
  <2>2. Capped(s \ {x})
    BY <1>1, <1>2, <2>1
  <2>3. PICK n \in s \ {x} : \A m \in s \ {x} : m <= n
    BY <2>2
  <2>4. n \in Nat /\ \A m \in s : m \in Nat
    BY <2>1
  <2>5. Capped(s)
    BY <1>2, <2>3, <2>4
  <2> QED BY <2>5
<1> QED BY <1>3, <1>4
-----------------------------------------------------------------------------
(* The recursion has a solution: it is built up by cardinality. *)
LEMMA SumUpToExists ==
  ASSUME NEW S, IsFiniteSet(S), NEW g
  PROVE  \E sum : IsSumUpTo(sum, g, S)
<1> DEFINE Small(n) == {s \in SUBSET S : Cardinality(s) <= n}
           Step(sum, s) == IF s = {} THEN 0
                           ELSE g[Chosen(s)] + sum[s \ {Chosen(s)}]
           Solved(n) == \E sum : sum = [s \in Small(n) |-> Step(sum, s)]
           Bad == {n \in Nat : ~Solved(n)}
<1>1. \A s \in SUBSET S : /\ Cardinality(s) \in Nat
                          /\ Cardinality(s) <= Cardinality(S)
                          /\ Cardinality(s) = 0 <=> s = {}
  BY FS_Subset, FS_CardinalityType, FS_EmptySet
<1>2. \A s \in SUBSET S : s # {} =>
        /\ Chosen(s) \in s /\ s \ {Chosen(s)} \in SUBSET S
        /\ Cardinality(s \ {Chosen(s)}) = Cardinality(s) - 1
  BY FS_Subset, FS_RemoveElement DEF Chosen
<1>3. Solved(0)
  <2>1. \A s \in Small(0) : s = {}
    BY <1>1
  <2> DEFINE sum == [s \in Small(0) |-> 0]
  <2>2. sum = [s \in Small(0) |-> Step(sum, s)]
    BY <2>1
  <2> QED BY <2>2
<1>4. ASSUME NEW n \in Nat, Solved(n) PROVE Solved(n + 1)
  <2>1. PICK old : old = [s \in Small(n) |-> Step(old, s)]
    BY <1>4
  <2> DEFINE sum == [s \in Small(n + 1) |-> Step(old, s)]
  <2>2. \A s \in Small(n) : s \in Small(n + 1) /\ sum[s] = old[s]
    <3>1. Small(n) \subseteq Small(n + 1)
      BY <1>1
    <3> HIDE DEF Small, Step
    <3> QED BY <2>1, <3>1
  <2>3. ASSUME NEW s \in Small(n + 1) PROVE Step(sum, s) = Step(old, s)
    <3>1. s # {} => s \ {Chosen(s)} \in Small(n)
      BY <1>1, <1>2
    <3> HIDE DEF sum, Small
    <3> QED BY <2>2, <3>1
  <2>4. sum = [s \in Small(n + 1) |-> Step(sum, s)]
    BY <2>3
  <2> QED BY <2>4
<1>5. Solved(Cardinality(S))
  <2>1. Bad = {}
    <3> SUFFICES ASSUME Bad # {} PROVE FALSE
      OBVIOUS
    <3> HIDE DEF Solved
    <3>1. PICK n \in Bad : \A m \in Nat : m < n => m \notin Bad
      BY SmallestNumber
    <3>2. n # 0 /\ n \in Nat
      BY <1>3
    <3>3. n - 1 \in Nat /\ n - 1 < n
      BY <3>2
    <3>4. Solved(n - 1)
      BY <3>1, <3>3
    <3>5. Solved((n - 1) + 1)
      BY <1>4, <3>3, <3>4
    <3>6. (n - 1) + 1 = n
      BY <3>2
    <3> QED BY <3>5, <3>6
  <2> HIDE DEF Solved
  <2> QED BY <1>1, <2>1
<1>6. Small(Cardinality(S)) = SUBSET S
  BY <1>1
<1> QED
  BY <1>5, <1>6 DEF IsSumUpTo

(* Two solutions, for two functions and sets, agree where those agree. *)
LEMMA SumUpToUnique ==
  ASSUME NEW S, NEW T, NEW g, NEW h, NEW a, NEW b,
         IsSumUpTo(a, g, S), IsSumUpTo(b, h, T),
         NEW U, IsFiniteSet(U), U \subseteq S, U \subseteq T,
         \A x \in U : g[x] = h[x]
  PROVE  a[U] = b[U]
<1> DEFINE Bad == {s \in SUBSET U : a[s] # b[s]}
<1>1. Bad = {}
  <2> SUFFICES ASSUME Bad # {} PROVE FALSE
    OBVIOUS
  <2>1. PICK s \in Bad : \A t \in SUBSET s : t # s => t \notin Bad
    <3>1. Bad \in SUBSET SUBSET U /\ Bad # {}
      OBVIOUS
    <3> HIDE DEF Bad
    <3> QED BY <3>1, SmallestSet
  <2>2. CASE s = {}
    BY <2>2 DEF IsSumUpTo
  <2>3. CASE s # {}
    <3> DEFINE x == Chosen(s)  t == s \ {x}
    <3>1. x \in s
      BY <2>3 DEF Chosen
    <3>2. t \in SUBSET s /\ t # s /\ s \in SUBSET S /\ s \in SUBSET T
      BY <3>1
    <3>3. a[t] = b[t]
      BY <2>1, <3>2
    <3>4. a[s] = g[x] + a[t] /\ b[s] = h[x] + b[t]
      BY <2>3, <3>2 DEF IsSumUpTo
    <3> QED BY <3>1, <3>3, <3>4
  <2> QED BY <2>2, <2>3
<1> QED BY <1>1

(* A sum depends on the values added up only. *)
THEOREM SumOfEqual ==
  ASSUME NEW S, IsFiniteSet(S), NEW g, NEW h, \A x \in S : g[x] = h[x]
  PROVE  SumOf(g, S) = SumOf(h, S)
<1> DEFINE a == CHOOSE sum : IsSumUpTo(sum, g, S)
           b == CHOOSE sum : IsSumUpTo(sum, h, S)
<1>1. IsSumUpTo(a, g, S) /\ IsSumUpTo(b, h, S)
  BY SumUpToExists
<1>2. SumOf(g, S) = a[S] /\ SumOf(h, S) = b[S]
  BY SumOfUnfolded
<1> HIDE DEF a, b
<1> QED BY <1>1, <1>2, SumUpToUnique

(* The sum of nothing, and of something. *)
LEMMA SumOfChosen ==
  ASSUME NEW S, IsFiniteSet(S), NEW g
  PROVE  /\ S = {} => SumOf(g, S) = 0
         /\ S # {} => /\ Chosen(S) \in S
                      /\ SumOf(g, S)
                           = g[Chosen(S)] + SumOf(g, S \ {Chosen(S)})
<1> DEFINE T == S \ {Chosen(S)}
           a == CHOOSE sum : IsSumUpTo(sum, g, S)
           b == CHOOSE sum : IsSumUpTo(sum, g, T)
<1>1. IsFiniteSet(T)
  BY FS_Subset
<1>2. IsSumUpTo(a, g, S) /\ IsSumUpTo(b, g, T)
  BY <1>1, SumUpToExists
<1>3. SumOf(g, S) = a[S] /\ SumOf(g, T) = b[T]
  BY SumOfUnfolded
<1>4. S # {} => Chosen(S) \in S
  BY DEF Chosen
<1>5. a[S] = IF S = {} THEN 0 ELSE g[Chosen(S)] + a[T]
  BY <1>2 DEF IsSumUpTo
<1>6. a[T] = b[T]
  <2> HIDE DEF a, b
  <2> QED BY <1>1, <1>2, SumUpToUnique
<1> QED BY <1>3, <1>4, <1>5, <1>6
-----------------------------------------------------------------------------
(* A sum of integers is one, and of natural numbers. *)
THEOREM SumOfType ==
  ASSUME NEW S, IsFiniteSet(S), NEW g
  PROVE  /\ (\A x \in S : g[x] \in Int) => SumOf(g, S) \in Int
         /\ (\A x \in S : g[x] \in Nat) => SumOf(g, S) \in Nat
<1> DEFINE Bad(N) == {s \in SUBSET S : SumOf(g, s) \notin N}
<1>1. ASSUME NEW N \in {Int, Nat}, \A x \in S : g[x] \in N, Bad(N) # {}
      PROVE  FALSE
  <2>1. PICK s \in Bad(N) : \A t \in SUBSET s : t # s => t \notin Bad(N)
    <3>1. Bad(N) \in SUBSET SUBSET S /\ Bad(N) # {}
      BY <1>1
    <3> HIDE DEF Bad
    <3> QED BY <3>1, SmallestSet
  <2>2. s \in SUBSET S /\ IsFiniteSet(s) /\ SumOf(g, s) \notin N
    BY FS_Subset
  <2>3. s # {} /\ Chosen(s) \in s
        /\ SumOf(g, s) = g[Chosen(s)] + SumOf(g, s \ {Chosen(s)})
    <3>1. 0 \in N
      BY <1>1
    <3> QED BY <2>2, <3>1, SumOfChosen
  <2>4. SumOf(g, s \ {Chosen(s)}) \in N
    BY <2>1, <2>2, <2>3
  <2> QED BY <1>1, <2>2, <2>3, <2>4
<1> QED BY <1>1

(* Any element may be added last. *)
THEOREM SumOfRemove ==
  ASSUME NEW S, IsFiniteSet(S), NEW g, \A x \in S : g[x] \in Int, NEW x \in S
  PROVE  SumOf(g, S) = g[x] + SumOf(g, S \ {x})
<1> DEFINE Bad == {s \in SUBSET S :
                     \E y \in s : SumOf(g, s) # g[y] + SumOf(g, s \ {y})}
<1>1. Bad = {}
  <2> SUFFICES ASSUME Bad # {} PROVE FALSE
    OBVIOUS
  <2>1. PICK s \in Bad : \A t \in SUBSET s : t # s => t \notin Bad
    <3>1. Bad \in SUBSET SUBSET S /\ Bad # {}
      OBVIOUS
    <3> HIDE DEF Bad
    <3> QED BY <3>1, SmallestSet
  <2>2. PICK y \in s : SumOf(g, s) # g[y] + SumOf(g, s \ {y})
    OBVIOUS
  <2>3. s \in SUBSET S /\ IsFiniteSet(s)
    BY FS_Subset
  <2> DEFINE c == Chosen(s)  sy == s \ {y}  sc == s \ {c}
             syc == s \ {y, c}
  <2>4. c \in s /\ SumOf(g, s) = g[c] + SumOf(g, sc)
    BY <2>3, SumOfChosen
  <2>5. y # c
    BY <2>2, <2>4
  <2>6. SumOf(g, sc) = g[y] + SumOf(g, syc)
    <3>1. sc \in SUBSET s /\ sc # s /\ y \in sc /\ syc = sc \ {y}
      BY <2>4, <2>5
    <3> QED BY <2>1, <2>3, <3>1
  <2>7. SumOf(g, sy) = g[c] + SumOf(g, syc)
    <3>1. sy \in SUBSET s /\ sy # s /\ c \in sy /\ syc = sy \ {c}
      BY <2>4, <2>5
    <3> QED BY <2>1, <2>3, <3>1
  <2>8. SumOf(g, syc) \in Int /\ g[y] \in Int /\ g[c] \in Int
    <3>1. IsFiniteSet(syc)
      BY <2>3, FS_Subset
    <3> QED BY <2>3, <2>4, <3>1, SumOfType
  <2> HIDE DEF c, sy, sc, syc
  <2>9. SumOf(g, s) = g[y] + SumOf(g, sy)
    BY <2>4, <2>6, <2>7, <2>8
  <2> QED BY <2>2, <2>9 DEF sy
<1> QED BY <1>1

(* One value changes, and the sum by as much. *)
THEOREM SumOfChange ==
  ASSUME NEW S, IsFiniteSet(S), NEW x \in S, NEW g, NEW h,
         \A y \in S : g[y] \in Int /\ h[y] \in Int,
         \A y \in S \ {x} : h[y] = g[y]
  PROVE  SumOf(h, S) = SumOf(g, S) + h[x] - g[x]
<1> DEFINE T == S \ {x}
<1>1. IsFiniteSet(T)
  BY FS_Subset
<1>2. SumOf(g, T) = SumOf(h, T)
  BY <1>1, SumOfEqual
<1>3. SumOf(g, T) \in Int /\ g[x] \in Int /\ h[x] \in Int
  BY <1>1, SumOfType
<1>4. SumOf(g, S) = g[x] + SumOf(g, T) /\ SumOf(h, S) = h[x] + SumOf(h, T)
  BY SumOfRemove
<1> QED BY <1>2, <1>3, <1>4

(* The sum of zeros. *)
THEOREM SumOfZero ==
  ASSUME NEW S, IsFiniteSet(S), NEW g, \A x \in S : g[x] = 0
  PROVE  SumOf(g, S) = 0
<1> DEFINE Bad == {s \in SUBSET S : SumOf(g, s) # 0}
<1>1. Bad = {}
  <2> SUFFICES ASSUME Bad # {} PROVE FALSE
    OBVIOUS
  <2>1. PICK s \in Bad : \A t \in SUBSET s : t # s => t \notin Bad
    <3>1. Bad \in SUBSET SUBSET S /\ Bad # {}
      OBVIOUS
    <3> HIDE DEF Bad
    <3> QED BY <3>1, SmallestSet
  <2>2. s \in SUBSET S /\ IsFiniteSet(s) /\ SumOf(g, s) # 0
    BY FS_Subset
  <2>3. s # {} /\ Chosen(s) \in s
        /\ SumOf(g, s) = g[Chosen(s)] + SumOf(g, s \ {Chosen(s)})
    BY <2>2, SumOfChosen
  <2>4. SumOf(g, s \ {Chosen(s)}) = 0
    BY <2>1, <2>2, <2>3
  <2> QED BY <2>2, <2>3, <2>4
<1> QED BY <1>1

(* The sum of sums. *)
THEOREM SumOfPlus ==
  ASSUME NEW S, IsFiniteSet(S), NEW f, NEW g, NEW h,
         \A x \in S : f[x] \in Int /\ g[x] \in Int /\ h[x] = f[x] + g[x]
  PROVE  SumOf(h, S) = SumOf(f, S) + SumOf(g, S)
<1> DEFINE Bad == {s \in SUBSET S :
                     SumOf(h, s) # SumOf(f, s) + SumOf(g, s)}
<1>1. Bad = {}
  <2> SUFFICES ASSUME Bad # {} PROVE FALSE
    OBVIOUS
  <2>1. PICK s \in Bad : \A t \in SUBSET s : t # s => t \notin Bad
    <3>1. Bad \in SUBSET SUBSET S /\ Bad # {}
      OBVIOUS
    <3> HIDE DEF Bad
    <3> QED BY <3>1, SmallestSet
  <2>2. /\ s \in SUBSET S /\ IsFiniteSet(s)
        /\ SumOf(h, s) # SumOf(f, s) + SumOf(g, s)
    BY FS_Subset
  <2>3. s # {}
    <3> SUFFICES ASSUME s = {} PROVE FALSE
      OBVIOUS
    <3>1. SumOf(f, s) = 0 /\ SumOf(g, s) = 0
      BY <2>2, SumOfChosen
    <3>2. SumOf(h, s) = 0
      BY <2>2, SumOfChosen
    <3> QED BY <2>2, <3>1, <3>2
  <2> DEFINE c == Chosen(s)  t == s \ {c}
  <2>4. /\ c \in s /\ c \in S /\ t \in SUBSET s /\ t # s /\ IsFiniteSet(t)
        /\ SumOf(h, s) = h[c] + SumOf(h, t)
        /\ SumOf(f, s) = f[c] + SumOf(f, t)
        /\ SumOf(g, s) = g[c] + SumOf(g, t)
    BY <2>2, <2>3, SumOfChosen, FS_Subset
  <2>5. SumOf(h, t) = SumOf(f, t) + SumOf(g, t)
    BY <2>1, <2>2, <2>4
  <2>6. /\ SumOf(f, t) \in Int /\ SumOf(g, t) \in Int
        /\ f[c] \in Int /\ g[c] \in Int /\ h[c] = f[c] + g[c]
    BY <2>2, <2>4, SumOfType
  <2> QED BY <2>2, <2>4, <2>5, <2>6
<1> QED BY <1>1

(* Zeros may be left out of a sum. *)
THEOREM SumOfSubset ==
  ASSUME NEW S, IsFiniteSet(S), NEW T \in SUBSET S, NEW g,
         \A x \in S : g[x] \in Int, \A x \in S \ T : g[x] = 0
  PROVE  SumOf(g, S) = SumOf(g, T)
<1> DEFINE Bad == {s \in SUBSET S :
                     T \subseteq s /\ SumOf(g, s) # SumOf(g, T)}
<1>1. Bad = {}
  <2> SUFFICES ASSUME Bad # {} PROVE FALSE
    OBVIOUS
  <2>1. PICK s \in Bad : \A t \in SUBSET s : t # s => t \notin Bad
    <3>1. Bad \in SUBSET SUBSET S /\ Bad # {}
      OBVIOUS
    <3> HIDE DEF Bad
    <3> QED BY <3>1, SmallestSet
  <2>2. /\ s \in SUBSET S /\ IsFiniteSet(s) /\ T \subseteq s
        /\ SumOf(g, s) # SumOf(g, T)
    BY FS_Subset
  <2>3. PICK x \in s : x \notin T
    BY <2>2
  <2>4. SumOf(g, s) = g[x] + SumOf(g, s \ {x})
    BY <2>2, SumOfRemove
  <2>5. SumOf(g, s \ {x}) = SumOf(g, T)
    BY <2>1, <2>2, <2>3
  <2>6. SumOf(g, T) \in Int
    BY <2>2, FS_Subset, SumOfType
  <2> QED BY <2>2, <2>3, <2>4, <2>5, <2>6
<1> QED BY <1>1

(* A sum is not less than any of the numbers added up. *)
THEOREM SumOfAtLeast ==
  ASSUME NEW S, IsFiniteSet(S), NEW g, \A x \in S : g[x] \in Nat, NEW x \in S
  PROVE  g[x] <= SumOf(g, S)
<1>1. SumOf(g, S) = g[x] + SumOf(g, S \ {x})
  BY SumOfRemove
<1>2. SumOf(g, S \ {x}) \in Nat
  BY FS_Subset, SumOfType
<1> QED BY <1>1, <1>2
-----------------------------------------------------------------------------
(* The recursion of MapThenFoldSet, for a choice function c and a function  *)
(* G of an element and of the result for the others.                        *)
IsFold(it, G, base, c, S) ==
  it = [s \in SUBSET S |-> IF s = {} THEN base
                           ELSE G[c[s]][it[s \ {c[s]}]]]

(* It has a solution, which is built up by cardinality. *)
THEOREM FoldExists ==
  ASSUME NEW S, IsFiniteSet(S), NEW G, NEW base, NEW c,
         \A s \in SUBSET S : s # {} => c[s] \in s
  PROVE  \E it : IsFold(it, G, base, c, S)
<1> DEFINE Small(n) == {s \in SUBSET S : Cardinality(s) <= n}
           Step(it, s) == IF s = {} THEN base ELSE G[c[s]][it[s \ {c[s]}]]
           Solved(n) == \E it : it = [s \in Small(n) |-> Step(it, s)]
           Bad == {n \in Nat : ~Solved(n)}
<1>1. \A s \in SUBSET S : /\ Cardinality(s) \in Nat
                          /\ Cardinality(s) <= Cardinality(S)
                          /\ Cardinality(s) = 0 <=> s = {}
  BY FS_Subset, FS_CardinalityType, FS_EmptySet
<1>2. \A s \in SUBSET S : s # {} =>
        /\ c[s] \in s /\ s \ {c[s]} \in SUBSET S
        /\ Cardinality(s \ {c[s]}) = Cardinality(s) - 1
  BY FS_Subset, FS_RemoveElement
<1>3. Solved(0)
  <2>1. \A s \in Small(0) : s = {}
    BY <1>1
  <2> DEFINE it == [s \in Small(0) |-> base]
  <2>2. it = [s \in Small(0) |-> Step(it, s)]
    BY <2>1
  <2> QED BY <2>2
<1>4. ASSUME NEW n \in Nat, Solved(n) PROVE Solved(n + 1)
  <2>1. PICK old : old = [s \in Small(n) |-> Step(old, s)]
    BY <1>4
  <2> DEFINE it == [s \in Small(n + 1) |-> Step(old, s)]
  <2>2. \A s \in Small(n) : s \in Small(n + 1) /\ it[s] = old[s]
    <3>1. Small(n) \subseteq Small(n + 1)
      BY <1>1
    <3> HIDE DEF Small, Step
    <3> QED BY <2>1, <3>1
  <2>3. ASSUME NEW s \in Small(n + 1) PROVE Step(it, s) = Step(old, s)
    <3>1. s # {} => s \ {c[s]} \in Small(n)
      BY <1>1, <1>2
    <3> HIDE DEF it, Small
    <3> QED BY <2>2, <3>1
  <2>4. it = [s \in Small(n + 1) |-> Step(it, s)]
    BY <2>3
  <2> QED BY <2>4
<1>5. Solved(Cardinality(S))
  <2>1. Bad = {}
    <3> SUFFICES ASSUME Bad # {} PROVE FALSE
      OBVIOUS
    <3> HIDE DEF Solved
    <3>1. PICK n \in Bad : \A m \in Nat : m < n => m \notin Bad
      BY SmallestNumber
    <3>2. n # 0 /\ n \in Nat
      BY <1>3
    <3>3. n - 1 \in Nat /\ n - 1 < n
      BY <3>2
    <3>4. Solved(n - 1)
      BY <3>1, <3>3
    <3>5. Solved((n - 1) + 1)
      BY <1>4, <3>3, <3>4
    <3>6. (n - 1) + 1 = n
      BY <3>2
    <3> QED BY <3>5, <3>6
  <2> HIDE DEF Solved
  <2> QED BY <1>1, <2>1
<1>6. Small(Cardinality(S)) = SUBSET S
  BY <1>1
<1> QED BY <1>5, <1>6 DEF IsFold

(* A fold over a sequence works from its first element to its last, as it   *)
(* always chooses the greatest index there is.                              *)
THEOREM GreatestIndex ==
  ASSUME NEW n \in Nat
  PROVE  /\ \A s \in SUBSET (1 .. n) : s # {} => Max(s) \in s
         /\ \A k \in 1 .. n : Max(1 .. k) = k /\ (1 .. k) \ {k} = 1 .. (k - 1)
<1>1. \A s \in SUBSET (1 .. n) : s # {} => Max(s) \in s
  <2> SUFFICES ASSUME NEW s \in SUBSET (1 .. n), s # {}
               PROVE  \E x \in s : \A y \in s : x >= y
    BY DEF Max
  <2> DEFINE B == {n - x : x \in s}
  <2>1. \A x \in s : x \in Int /\ n - x \in Nat
    OBVIOUS
  <2>2. B \in SUBSET Nat /\ B # {}
    BY <2>1
  <2>3. PICK b \in B : \A m \in Nat : m < b => m \notin B
    <3> HIDE DEF B
    <3> QED BY <2>2, SmallestNumber
  <2>4. PICK x \in s : b = n - x
    OBVIOUS
  <2>5. ASSUME NEW y \in s PROVE x >= y
    <3>1. n - y \in Nat /\ n - y \in B
      BY <2>1
    <3>2. ~(n - y < n - x)
      BY <2>3, <2>4, <3>1
    <3> QED BY <2>1, <3>2
  <2> QED BY <2>5
<1>2. ASSUME NEW k \in 1 .. n PROVE Max(1 .. k) = k
  BY DEF Max
<1>3. \A k \in 1 .. n : (1 .. k) \ {k} = 1 .. (k - 1)
  OBVIOUS
<1> QED BY <1>1, <1>2, <1>3

(* The recursion behind FoldLeft over a sequence of length n, for a function *)
(* G that takes an index and a result to the next result.                   *)
IsFoldLeft(it, G, base, n) ==
  it = [s \in SUBSET (1 .. n) |->
          IF s = {} THEN base ELSE G[Max(s)][it[s \ {Max(s)}]]]

(* If A is closed under G there is a solution with all its results in A.    *)
THEOREM FoldLeftExists ==
  ASSUME NEW n \in Nat, NEW A, NEW G, NEW base \in A,
         \A k \in 1 .. n : \A x \in A : G[k][x] \in A
  PROVE  \E it : /\ IsFoldLeft(it, G, base, n)
                 /\ \A s \in SUBSET (1 .. n) : it[s] \in A
<1> DEFINE S == 1 .. n
           c == [s \in SUBSET S |-> Max(s)]
<1>1. IsFiniteSet(S)
  <2>1. 1 \in Int /\ n \in Int
    OBVIOUS
  <2> QED BY <2>1, FS_Interval
<1>2. \A s \in SUBSET S : s # {} => c[s] \in s
  BY GreatestIndex
<1>3. PICK it : IsFold(it, G, base, c, S)
  <2> HIDE DEF S, c
  <2> QED BY <1>1, <1>2, FoldExists
<1>4. IsFoldLeft(it, G, base, n)
  <2>1. it = [s \in SUBSET S |-> IF s = {} THEN base
                                 ELSE G[c[s]][it[s \ {c[s]}]]]
    BY <1>3 DEF IsFold
  <2>2. \A s \in SUBSET S : c[s] = Max(s)
    OBVIOUS
  <2> HIDE DEF c
  <2> QED BY <2>1, <2>2 DEF IsFoldLeft
<1> DEFINE Bad == {s \in SUBSET S : it[s] \notin A}
<1>5. Bad = {}
  <2> SUFFICES ASSUME Bad # {} PROVE FALSE
    OBVIOUS
  <2>1. PICK s \in Bad : \A t \in SUBSET s : t # s => t \notin Bad
    <3>1. Bad \in SUBSET SUBSET S /\ Bad # {}
      OBVIOUS
    <3> HIDE DEF Bad, S
    <3> QED BY <1>1, <3>1, SmallestSet
  <2>2. s \in SUBSET S /\ it[s] \notin A
    OBVIOUS
  <2>3. it[s] = IF s = {} THEN base ELSE G[Max(s)][it[s \ {Max(s)}]]
    BY <1>4, <2>2 DEF IsFoldLeft
  <2>4. s # {}
    BY <2>2, <2>3
  <2>5. Max(s) \in s /\ Max(s) \in 1 .. n
    BY <2>2, <2>4, GreatestIndex
  <2>6. it[s \ {Max(s)}] \in A
    <3>1. s \ {Max(s)} \in SUBSET s /\ s \ {Max(s)} # s
      BY <2>5
    <3> QED BY <2>1, <2>2, <3>1
  <2> QED BY <2>2, <2>3, <2>4, <2>5, <2>6
<1>6. \A s \in SUBSET (1 .. n) : it[s] \in A
  BY <1>5
<1> QED BY <1>4, <1>6

(* Its result for the first k elements is had from that for the first k - 1 *)
(* of them.                                                                 *)
THEOREM FoldLeftSteps ==
  ASSUME NEW n \in Nat, NEW G, NEW base, NEW it, IsFoldLeft(it, G, base, n)
  PROVE  /\ it[1 .. 0] = base
         /\ \A k \in 1 .. n : it[1 .. k] = G[k][it[1 .. (k - 1)]]
<1>1. it[1 .. 0] = base
  <2>1. 1 .. 0 = {}
    OBVIOUS
  <2> QED BY <2>1 DEF IsFoldLeft
<1>2. ASSUME NEW k \in 1 .. n PROVE it[1 .. k] = G[k][it[1 .. (k - 1)]]
  <2>1. 1 .. k \in SUBSET (1 .. n) /\ 1 .. k # {}
    OBVIOUS
  <2>2. Max(1 .. k) = k /\ (1 .. k) \ {k} = 1 .. (k - 1)
    BY GreatestIndex
  <2> QED BY <2>1, <2>2 DEF IsFoldLeft
<1> QED BY <1>1, <1>2

(* Two sequences of results that start alike and are continued alike end    *)
(* alike.                                                                   *)
THEOREM StepsAgree ==
  ASSUME NEW n \in Nat, NEW f, NEW g, NEW G, f[0] = g[0],
         \A k \in 1 .. n : f[k] = G[k][f[k - 1]] /\ g[k] = G[k][g[k - 1]]
  PROVE  \A k \in 0 .. n : f[k] = g[k]
<1> DEFINE Bad == {k \in 0 .. n : f[k] # g[k]}
<1>1. Bad = {}
  <2> SUFFICES ASSUME Bad # {} PROVE FALSE
    OBVIOUS
  <2>1. PICK k \in Bad : \A m \in Nat : m < k => m \notin Bad
    <3>1. Bad \in SUBSET Nat /\ Bad # {}
      OBVIOUS
    <3> HIDE DEF Bad
    <3> QED BY <3>1, SmallestNumber
  <2>2. k \in 1 .. n
    OBVIOUS
  <2>3. f[k - 1] = g[k - 1]
    BY <2>1, <2>2
  <2> QED BY <2>2, <2>3
<1> QED BY <1>1
-----------------------------------------------------------------------------
(* The sum over a sequence's indices, when one is added at its end ...      *)
THEOREM SumOfLonger ==
  ASSUME NEW n \in Nat, NEW g, \A i \in 1 .. n + 1 : g[i] \in Int
  PROVE  SumOf(g, 1 .. n + 1) = SumOf(g, 1 .. n) + g[n + 1]
<1>1. IsFiniteSet(1 .. n + 1) /\ IsFiniteSet(1 .. n)
  <2>1. 1 \in Int /\ n \in Int /\ n + 1 \in Int
    OBVIOUS
  <2> QED BY <2>1, FS_Interval
<1>2. n + 1 \in 1 .. n + 1 /\ (1 .. n + 1) \ {n + 1} = 1 .. n
  OBVIOUS
<1>3. SumOf(g, 1 .. n + 1) = g[n + 1] + SumOf(g, 1 .. n)
  <2>1. SumOf(g, 1 .. n + 1) = g[n + 1] + SumOf(g, (1 .. n + 1) \ {n + 1})
    BY <1>1, <1>2, SumOfRemove
  <2> QED BY <1>2, <2>1
<1>4. SumOf(g, 1 .. n) \in Int /\ g[n + 1] \in Int
  <2>1. \A i \in 1 .. n : g[i] \in Int
    OBVIOUS
  <2> QED BY <1>1, <1>2, <2>1, SumOfType
<1> QED BY <1>3, <1>4

(* ... and when its first is taken away.                                    *)
THEOREM SumOfShifted ==
  ASSUME NEW n \in Nat, NEW g, NEW h, \A i \in 1 .. n + 1 : g[i] \in Int,
         \A i \in 1 .. n : h[i] = g[i + 1]
  PROVE  SumOf(g, 1 .. n + 1) = g[1] + SumOf(h, 1 .. n)
<1> DEFINE P(m) == SumOf(g, 1 .. m + 1) = g[1] + SumOf(h, 1 .. m)
           Bad == {m \in 0 .. n : ~P(m)}
<1>1. P(0)
  <2>1. 1 .. 0 = {} /\ 0 + 1 = 1
    OBVIOUS
  <2>2. SumOf(g, 1 .. 0) = 0 /\ SumOf(h, 1 .. 0) = 0
    BY <2>1, FS_EmptySet, SumOfChosen
  <2>3. \A i \in 1 .. 0 + 1 : g[i] \in Int
    OBVIOUS
  <2>4. SumOf(g, 1 .. 0 + 1) = SumOf(g, 1 .. 0) + g[0 + 1]
    BY <2>3, SumOfLonger
  <2>5. g[1] \in Int
    OBVIOUS
  <2> QED BY <2>1, <2>2, <2>4, <2>5
<1>2. ASSUME NEW m \in 1 .. n, P(m - 1) PROVE P(m)
  <2>1. /\ \A i \in 1 .. m + 1 : g[i] \in Int
        /\ \A i \in 1 .. m : h[i] \in Int
        /\ h[m] = g[m + 1] /\ m - 1 \in Nat /\ m \in Nat
        /\ (m - 1) + 1 = m
    OBVIOUS
  <2>2. SumOf(g, 1 .. m + 1) = SumOf(g, 1 .. m) + g[m + 1]
    BY <2>1, SumOfLonger
  <2>3. SumOf(h, 1 .. m) = SumOf(h, 1 .. m - 1) + h[m]
    <3>1. \A i \in 1 .. (m - 1) + 1 : h[i] \in Int
      BY <2>1
    <3>2. SumOf(h, 1 .. (m - 1) + 1) = SumOf(h, 1 .. m - 1) + h[(m - 1) + 1]
      BY <2>1, <3>1, SumOfLonger
    <3> QED BY <2>1, <3>2
  <2>4. SumOf(g, 1 .. m) = g[1] + SumOf(h, 1 .. m - 1)
    BY <1>2, <2>1
  <2>5. g[1] \in Int /\ g[m + 1] \in Int /\ SumOf(h, 1 .. m - 1) \in Int
    <3>1. IsFiniteSet(1 .. m - 1)
      <4>1. 1 \in Int /\ m - 1 \in Int
        OBVIOUS
      <4> QED BY <4>1, FS_Interval
    <3>2. \A i \in 1 .. m - 1 : h[i] \in Int
      BY <2>1
    <3>3. SumOf(h, 1 .. m - 1) \in Int
      BY <3>1, <3>2, SumOfType
    <3>4. 1 \in 1 .. m + 1 /\ m + 1 \in 1 .. m + 1
      BY <2>1
    <3> QED BY <2>1, <3>3, <3>4
  <2> QED BY <2>1, <2>2, <2>3, <2>4, <2>5
<1>3. Bad = {}
  <2> SUFFICES ASSUME Bad # {} PROVE FALSE
    OBVIOUS
  <2> HIDE DEF P
  <2>1. PICK m \in Bad : \A k \in Nat : k < m => k \notin Bad
    <3>1. Bad \in SUBSET Nat /\ Bad # {}
      OBVIOUS
    <3> HIDE DEF Bad
    <3> QED BY <3>1, SmallestNumber
  <2>2. m # 0 /\ m \in 0 .. n /\ ~P(m)
    BY <1>1
  <2>3. m \in 1 .. n /\ m - 1 \in Nat /\ m - 1 \in 0 .. n /\ m - 1 < m
    BY <2>2
  <2>4. P(m - 1)
    BY <2>1, <2>3
  <2> QED BY <1>2, <2>2, <2>3, <2>4
<1>4. P(n)
  <2> HIDE DEF P
  <2> QED BY <1>3
<1> QED BY <1>4
=============================================================================
