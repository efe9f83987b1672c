--------------------------- MODULE GenerateProofs ---------------------------
(* Proofs about Generate, for every catalogue, room, taste, history and     *)
(* playlist length, with the three modes and the relaxation steps as fitted. *)
EXTENDS Generate, FiniteSetTheorems, SequenceTheorems, WellFoundedInduction, TLAPS

-----------------------------------------------------------------------------
(* Induction over numbers and finite sets, by the least counterexample      *)

\* Numbers have a least.
LEMMA LeastNumber ==
  ASSUME NEW T \in SUBSET Nat, T # {}
  PROVE  \E x \in T : \A y \in T : x <= y
<1> DEFINE R == OpToRel(<, Nat)
<1>1. \A x, y \in Nat : x < y => <<x, y>> \in R
  BY Zenon DEF OpToRel
<1>2. IsWellFoundedOn(R, Nat)
  BY NatLessThanWellFounded, Zenon
<1> HIDE DEF R
<1>3. PICK x \in T : \A y \in T : ~(<<y, x>> \in R)
  BY <1>2, WFMin
<1>4. \A y \in T : ~(y < x)
  BY <1>1, <1>3
<1>5. QED
  BY <1>4

\* Of some subsets of a finite set, one holds no other of them.
LEMMA SmallestSet ==
  ASSUME NEW S, IsFiniteSet(S), NEW F \in SUBSET SUBSET S, F # {}
  PROVE  \E T \in F : \A U \in F : U \subseteq T => U = T
<1> DEFINE sizes == {Cardinality(T) : T \in F}
<1>1. \A T \in F : IsFiniteSet(T) /\ Cardinality(T) \in Nat
  BY FS_Subset, FS_CardinalityType
<1>2. sizes \in SUBSET Nat /\ sizes # {}
  BY <1>1
<1>3. PICK n \in sizes : \A m \in sizes : n <= m
  BY <1>2, LeastNumber
<1>4. PICK T \in F : n = Cardinality(T)
  OBVIOUS
<1>5. ASSUME NEW U \in F, U \subseteq T PROVE U = T
  <2>1. Cardinality(T) <= Cardinality(U) /\ Cardinality(U) <= Cardinality(T)
    BY <1>1, <1>3, <1>4, <1>5, FS_Subset
  <2>2. QED
    BY <1>1, <1>5, <2>1, FS_Subset
<1>6. QED
  BY <1>5

-----------------------------------------------------------------------------
(* Sums                                                                    *)

\* The element that a fold takes next, and the function that it computes: g is
\* the sum of f over every subset of S.
AnyOf(S) == CHOOSE x \in S : TRUE

IsSumOf(g, f, S) ==
  g = [T \in SUBSET S |-> IF T = {} THEN 0 ELSE f[AnyOf(T)] + g[T \ {AnyOf(T)}]]

LEMMA AnyOfSome ==
  ASSUME NEW S, S # {}
  PROVE  AnyOf(S) \in S /\ S \ {AnyOf(S)} \subseteq S /\ S \ {AnyOf(S)} # S
  BY DEF AnyOf

\* The sum of the community modules is such a function, if there is one.
LEMMA SumFold ==
  ASSUME NEW f, NEW S
  PROVE  SumFunctionOnSet(f, S) = (CHOOSE g : IsSumOf(g, f, S))[S]
BY Zenon DEF SumFunctionOnSet, FoldFunctionOnSet, MapThenFoldSet, IsSumOf, AnyOf

\* There is at most one, and it looks at nothing but f on S.
LEMMA SumsAgree ==
  ASSUME NEW f, NEW g, NEW S, NEW T, NEW a, NEW b, IsFiniteSet(S), S \subseteq T,
         IsSumOf(a, f, S), IsSumOf(b, g, T), \A x \in S : f[x] = g[x]
  PROVE  \A U \in SUBSET S : a[U] = b[U]
<1> DEFINE F == {U \in SUBSET S : a[U] # b[U]}
<1>1. SUFFICES ASSUME F # {} PROVE FALSE
  OBVIOUS
<1>2. F \in SUBSET SUBSET S
  OBVIOUS
<1>3. PICK U \in F : \A V \in F : V \subseteq U => V = U
  <2> HIDE DEF F
  <2>1. QED
    BY <1>1, <1>2, SmallestSet
<1>4. /\ a[U] = IF U = {} THEN 0 ELSE f[AnyOf(U)] + a[U \ {AnyOf(U)}]
      /\ b[U] = IF U = {} THEN 0 ELSE g[AnyOf(U)] + b[U \ {AnyOf(U)}]
  BY DEF IsSumOf
<1>5. U # {}
  BY <1>4
<1>6. AnyOf(U) \in S /\ a[U \ {AnyOf(U)}] = b[U \ {AnyOf(U)}]
  BY <1>3, <1>5, AnyOfSome
<1>7. QED
  BY <1>4, <1>5, <1>6

\* There is one: the sums of smaller sets make up that of the next.
LEMMA PartialSums ==
  ASSUME NEW f, NEW S, IsFiniteSet(S)
  PROVE  \E g : IsSumOf(g, f, S)
<1> DEFINE F == {T \in SUBSET S : ~ \E g : IsSumOf(g, f, T)}
           Sums(T) == CHOOSE g : IsSumOf(g, f, T)
<1>1. SUFFICES ASSUME F # {} PROVE FALSE
  OBVIOUS
<1>2. F \in SUBSET SUBSET S
  OBVIOUS
<1>3. PICK T \in F : \A U \in F : U \subseteq T => U = T
  <2> HIDE DEF F
  <2>1. QED
    BY <1>1, <1>2, SmallestSet
<1>4. \A U \in SUBSET T : U # T => IsSumOf(Sums(U), f, U)
  BY <1>3
<1> DEFINE h == [U \in SUBSET T |-> IF U = {} THEN 0
                                    ELSE f[AnyOf(U)] + Sums(U \ {AnyOf(U)})[U \ {AnyOf(U)}]]
<1> HIDE DEF Sums
<1>5. ASSUME NEW U \in SUBSET T, U # T PROVE h[U] = Sums(U)[U]
  <2>1. Sums(U)[U] = IF U = {} THEN 0 ELSE f[AnyOf(U)] + Sums(U)[U \ {AnyOf(U)}]
    BY <1>4, <1>5 DEF IsSumOf
  <2>2. CASE U = {}
    BY <2>1, <2>2
  <2>3. CASE U # {}
    <3> DEFINE W == U \ {AnyOf(U)}
    <3>1. W \subseteq U /\ W # T /\ W \in SUBSET T /\ IsFiniteSet(W)
      BY <1>5, <2>3, AnyOfSome, FS_Subset
    <3>2. IsSumOf(Sums(W), f, W) /\ IsSumOf(Sums(U), f, U)
      BY <1>4, <1>5, <3>1
    <3>3. Sums(W)[W] = Sums(U)[W]
      <4> HIDE DEF W
      <4>1. QED
        BY <3>1, <3>2, SumsAgree
    <3>4. QED
      BY <2>1, <2>3, <3>3
  <2>4. QED
    BY <2>2, <2>3
<1>6. h = [U \in SUBSET T |-> IF U = {} THEN 0 ELSE f[AnyOf(U)] + h[U \ {AnyOf(U)}]]
  <2>1. ASSUME NEW U \in SUBSET T, U # {}
        PROVE  h[U \ {AnyOf(U)}] = Sums(U \ {AnyOf(U)})[U \ {AnyOf(U)}]
    <3>1. U \ {AnyOf(U)} \in SUBSET T /\ U \ {AnyOf(U)} # T
      BY <2>1, AnyOfSome
    <3> HIDE DEF h
    <3>2. QED
      BY <1>5, <3>1
  <2>2. QED
    BY <2>1
<1>7. IsSumOf(h, f, T)
  <2> HIDE DEF h
  <2>1. QED
    BY <1>6 DEF IsSumOf
<1>8. QED
  BY <1>3, <1>7

\* A sum is one summand and the sum of the rest.
LEMMA SumStep ==
  ASSUME NEW f, NEW S, IsFiniteSet(S)
  PROVE  SumFunctionOnSet(f, S) =
           IF S = {} THEN 0 ELSE f[AnyOf(S)] + SumFunctionOnSet(f, S \ {AnyOf(S)})
<1> DEFINE g == CHOOSE a : IsSumOf(a, f, S)
           T == S \ {AnyOf(S)}
           h == CHOOSE a : IsSumOf(a, f, T)
<1>1. T \in SUBSET S /\ IsFiniteSet(T)
  BY FS_Subset
<1>2. IsSumOf(g, f, S) /\ IsSumOf(h, f, T)
  BY <1>1, PartialSums, Zenon
<1>3. SumFunctionOnSet(f, S) = g[S] /\ SumFunctionOnSet(f, T) = h[T]
  BY SumFold
<1> HIDE DEF g, h, T
<1>4. g[T] = h[T]
  BY <1>1, <1>2, SumsAgree
<1>5. g[S] = IF S = {} THEN 0 ELSE f[AnyOf(S)] + g[T]
  BY <1>2 DEF IsSumOf, T
<1>6. QED
  BY <1>3, <1>4, <1>5 DEF T

\* A sum depends on its summands alone.
LEMMA SumSame ==
  ASSUME NEW f, NEW g, NEW S, IsFiniteSet(S), \A x \in S : f[x] = g[x]
  PROVE  SumFunctionOnSet(f, S) = SumFunctionOnSet(g, S)
<1> DEFINE a == CHOOSE sum : IsSumOf(sum, f, S)
           b == CHOOSE sum : IsSumOf(sum, g, S)
<1>1. IsSumOf(a, f, S) /\ IsSumOf(b, g, S)
  BY PartialSums, Zenon
<1>2. SumFunctionOnSet(f, S) = a[S] /\ SumFunctionOnSet(g, S) = b[S]
  BY SumFold
<1> HIDE DEF a, b
<1>3. QED
  BY <1>1, <1>2, SumsAgree

LEMMA SumType ==
  ASSUME NEW f, NEW S, IsFiniteSet(S), \A x \in S : f[x] \in Nat
  PROVE  SumFunctionOnSet(f, S) \in Nat
<1> DEFINE F == {U \in SUBSET S : SumFunctionOnSet(f, U) \notin Nat}
<1>1. SUFFICES ASSUME F # {} PROVE FALSE
  OBVIOUS
<1>2. F \in SUBSET SUBSET S
  OBVIOUS
<1>3. PICK U \in F : \A V \in F : V \subseteq U => V = U
  <2> HIDE DEF F
  <2>1. QED
    BY <1>1, <1>2, SmallestSet
<1>4. SumFunctionOnSet(f, U) =
        IF U = {} THEN 0 ELSE f[AnyOf(U)] + SumFunctionOnSet(f, U \ {AnyOf(U)})
  BY SumStep, FS_Subset
<1>5. U # {}
  BY <1>4
<1>6. AnyOf(U) \in S /\ SumFunctionOnSet(f, U \ {AnyOf(U)}) \in Nat
  BY <1>3, <1>5, AnyOfSome
<1>7. QED
  BY <1>4, <1>5, <1>6

\* It does not matter which summand is taken out.
LEMMA SumAdd ==
  ASSUME NEW f, NEW S, IsFiniteSet(S), NEW e \in S, \A x \in S : f[x] \in Nat
  PROVE  SumFunctionOnSet(f, S) = f[e] + SumFunctionOnSet(f, S \ {e})
<1> DEFINE Of(U) == SumFunctionOnSet(f, U)
           F == {U \in SUBSET S : \E x \in U : Of(U) # f[x] + Of(U \ {x})}
<1>1. SUFFICES ASSUME F # {} PROVE FALSE
  OBVIOUS
<1>2. F \in SUBSET SUBSET S
  OBVIOUS
<1>3. PICK U \in F : \A V \in F : V \subseteq U => V = U
  <2> HIDE DEF F
  <2>1. QED
    BY <1>1, <1>2, SmallestSet
<1>4. \A V \in SUBSET S : IsFiniteSet(V) /\ Of(V) \in Nat
  <2>1. SUFFICES ASSUME NEW V \in SUBSET S PROVE IsFiniteSet(V) /\ Of(V) \in Nat
    OBVIOUS
  <2>2. IsFiniteSet(V) /\ \A x \in V : f[x] \in Nat
    BY FS_Subset
  <2>3. QED
    BY <2>2, SumType
<1>5. PICK x \in U : Of(U) # f[x] + Of(U \ {x})
  OBVIOUS
<1> DEFINE y == AnyOf(U)
<1>6. U # {} /\ y \in U /\ Of(U) = f[y] + Of(U \ {y})
  BY <1>4, <1>5, SumStep, AnyOfSome
<1> HIDE DEF y, Of
<1>7. y # x
  BY <1>5, <1>6
<1>8. Of(U \ {y}) = f[x] + Of((U \ {y}) \ {x})
  BY <1>3, <1>6, <1>7
<1>9. Of(U \ {x}) = f[y] + Of((U \ {x}) \ {y})
  BY <1>3, <1>6, <1>7
<1>10. PICK rest \in Nat : rest = Of((U \ {y}) \ {x})
  BY <1>4
<1>11. (U \ {x}) \ {y} = (U \ {y}) \ {x}
  OBVIOUS
<1>12. Of(U \ {y}) = f[x] + rest /\ Of(U \ {x}) = f[y] + rest
  BY <1>8, <1>9, <1>10, <1>11
<1>13. f[x] \in Nat /\ f[y] \in Nat
  BY <1>6
<1>14. QED
  BY <1>5, <1>6, <1>12, <1>13

\* A sum of natural numbers is zero only if they all are.
LEMMA SumZero ==
  ASSUME NEW f, NEW S, IsFiniteSet(S), \A x \in S : f[x] \in Nat, SumFunctionOnSet(f, S) = 0
  PROVE  \A x \in S : f[x] = 0
<1> SUFFICES ASSUME NEW x \in S PROVE f[x] = 0
  OBVIOUS
<1>1. SumFunctionOnSet(f, S) = f[x] + SumFunctionOnSet(f, S \ {x})
  BY SumAdd
<1>2. SumFunctionOnSet(f, S \ {x}) \in Nat
  BY SumType, FS_Subset
<1>3. QED
  BY <1>1, <1>2
-----------------------------------------------------------------------------
(* Operators                                                               *)

LEMMA ItemSets ==
  ASSUME NEW S \in SUBSET Items
  PROVE  IsFiniteSet(S) /\ Cardinality(S) \in Nat
  BY CatalogueAssumption, FS_Subset, FS_CardinalityType

\* A rank is a natural number: an item is at least tied with itself.
LEMMA RankType ==
  ASSUME NEW value, NEW S \in SUBSET Items, NEW c \in S
  PROVE  Rank(value, S, c) \in Nat
<1> DEFINE below == {d \in S : value[d] < value[c]}
           tied == {d \in S : value[d] = value[c]}
<1>1. below \in SUBSET Items /\ tied \in SUBSET Items /\ c \in tied
  OBVIOUS
<1>2. Cardinality(below) \in Nat /\ Cardinality(tied) \in Nat /\ IsFiniteSet(tied)
  BY <1>1, ItemSets
<1>3. Cardinality(tied) # 0
  BY <1>1, <1>2, FS_EmptySet
<1>4. 2 * Cardinality(below) + Cardinality(tied) - 1 \in Nat
  BY <1>2, <1>3
<1>5. QED
  BY <1>4 DEF Rank

LEMMA PoolType == Pool \in SUBSET Items
BY DEF Pool, Candidates, Top

\* Nothing gathers what a member has heard: neither the best of each member,
\* nor the popular, nor the top-up.
LEMMA PoolUnheard == Pool \cap Heard = {}
BY DEF Pool, Candidates, Top

LEMMA ChosenType ==
  ASSUME TypeOK, NEW i \in DOMAIN chosen
  PROVE  chosen[i].item \in pool /\ chosen[i].item \in Items
<1> DEFINE Slot == [item : pool, served : members]
<1>1. chosen \in Seq(Slot) /\ pool \in SUBSET Items
  BY DEF TypeOK
<1>2. chosen[i] \in Slot
  <2> HIDE DEF Slot
  <2>1. i \in 1..Len(chosen)
    BY <1>1
  <2>2. QED
    BY <1>1, <2>1, ElementOfSeq
<1>3. QED
  BY <1>1, <1>2

\* The last relaxation step removes the veto of every mode.
LEMMA LastStepVetoesNothing ==
  ASSUME TypeOK
  PROVE  Survivors(Tau(Len(RelaxationSteps))) = pool
<1>1. Tau(4) = 0
  BY DEF Tau, Modes, RelaxationSteps, TypeOK
<1>2. Len(RelaxationSteps) = 4
  BY DEF RelaxationSteps
<1>3. \A c \in pool, m \in members : 100 * scores[m][c] >= 0 * Scale
  <2>1. Scale \in Int
    <3>1. Cardinality(pool) \in Nat
      BY ItemSets DEF TypeOK
    <3>2. QED
      BY <3>1 DEF Scale
  <2>2. \A c \in pool, m \in members : scores[m][c] \in Nat
    BY DEF TypeOK
  <2>3. QED
    BY <2>1, <2>2
<1>4. QED
  BY <1>1, <1>2, <1>3 DEF Survivors

-----------------------------------------------------------------------------
(* Type correctness                                                        *)

\* The type invariant: in particular the percentiles are natural numbers.
THEOREM TypeCorrect == Spec => []TypeOK
<1>1. Init => TypeOK
  BY RunsAssumption DEF Init, TypeOK, RelaxationSteps
<1>2. TypeOK /\ [Next]_vars => TypeOK'
  <2> SUFFICES ASSUME TypeOK, [Next]_vars PROVE TypeOK'
    OBVIOUS
  <2>1. CASE Gather
    <3>1. /\ pool' \in SUBSET Items
          /\ UNCHANGED <<members, raw, heard, mode, k, seed, previous>>
      BY <2>1, PoolType DEF Gather, request
    <3>2. scores' \in [members -> [pool' -> Nat]]
      BY <2>1, <3>1, RankType DEF Gather
    <3>3. novelty' \in [pool' -> Nat]
      BY <2>1, <3>1, RankType DEF Gather
    <3>4. available' \in SUBSET pool'
      BY <2>1 DEF Gather, Survivors
    <3>5. step' \in DOMAIN RelaxationSteps /\ chosen' = <<>>
          /\ cumulative' \in [members -> Nat]
      BY <2>1 DEF Gather, StartPass, RelaxationSteps
    <3>6. phase' \in {"done", "selecting"}
      BY <2>1 DEF Gather
    <3>7. QED
      BY <3>1, <3>2, <3>3, <3>4, <3>5, <3>6 DEF TypeOK
  <2>2. CASE PickSlot
    <3>1. PICK u \in members, c \in available :
            /\ chosen' = Append(chosen, [item |-> c, served |-> u])
            /\ cumulative' = [m \in members |-> cumulative[m] + scores[m][c]]
            /\ available' = available \ {c}
      BY <2>2 DEF PickSlot
    <3>2. UNCHANGED <<request, phase, ranking, step, seed, previous>>
      BY <2>2 DEF PickSlot
    <3>3. c \in pool /\ [item |-> c, served |-> u] \in [item : pool, served : members]
      BY DEF TypeOK
    <3>4. chosen' \in Seq([item : pool, served : members])
      BY <3>1, <3>3 DEF TypeOK
    <3>5. cumulative' \in [members -> Nat]
      <4>1. \A m \in members : cumulative[m] \in Nat /\ scores[m][c] \in Nat
        BY <3>3 DEF TypeOK
      <4>2. QED
        BY <3>1, <4>1
    <3>6. QED
      BY <3>1, <3>2, <3>4, <3>5 DEF TypeOK, request, ranking
  <2>3. CASE Relax
    <3>1. step' = step + 1 /\ step + 1 \in DOMAIN RelaxationSteps
      BY <2>3 DEF Relax, StartPass, TypeOK, RelaxationSteps
    <3>2. /\ chosen' = <<>> /\ cumulative' = [m \in members |-> 0]
          /\ available' \in SUBSET pool
          /\ UNCHANGED <<request, phase, ranking, seed, previous>>
      BY <2>3 DEF Relax, StartPass, Survivors
    <3>3. QED
      BY <3>1, <3>2 DEF TypeOK, request, ranking
  <2>4. CASE Finish
    BY <2>4 DEF Finish, TypeOK, request, ranking
  <2>5. CASE Regenerate
    <3>1. ItemsOf(chosen) \in Seq(Items)
      <4>1. Len(chosen) \in Nat /\ DOMAIN chosen = 1..Len(chosen)
        BY DEF TypeOK
      <4>2. \A i \in 1..Len(chosen) : chosen[i].item \in Items
        BY <4>1, ChosenType
      <4>3. ItemsOf(chosen) \in [1..Len(chosen) -> Items]
        BY <4>1, <4>2 DEF ItemsOf
      <4>4. QED
        BY <4>1, <4>3, SeqDef
    <3>2. seed + 1 \in 0..MaxRuns
      BY <2>5, RunsAssumption DEF Regenerate, TypeOK
    <3>3. QED
      BY <2>5, <3>1, <3>2 DEF Regenerate, TypeOK, request, ranking
  <2>6. CASE UNCHANGED vars
    BY <2>6 DEF vars, TypeOK, request, ranking
  <2>7. QED
    BY <2>1, <2>2, <2>3, <2>4, <2>5, <2>6 DEF Next
<1>3. QED
  BY <1>1, <1>2, PTL DEF Spec

-----------------------------------------------------------------------------
(* The slots filled so far                                                 *)

\* Every survivor of this pass is in the list once or still available, and every
\* earlier, stricter pass fell short.
SlotsInv ==
  /\ ChosenItems \cap available = {}
  /\ ChosenItems \cup available = Survivors(Tau(step))
  /\ Cardinality(ChosenItems) = Len(chosen)
  /\ Len(chosen) <= k
  /\ phase = "done" => \/ Len(chosen) = k
                       \/ step = Len(RelaxationSteps) /\ available = {}
                       \/ pool = {}
  /\ \A s \in 1..(step - 1) : Cardinality(Survivors(Tau(s))) < k
  /\ NothingHeard

\* What passes the veto depends on the request and the ranking alone.
LEMMA SurvivorsUnchanged ==
  ASSUME UNCHANGED <<request, ranking>>, NEW s
  PROVE  Survivors(Tau(s))' = Survivors(Tau(s))
  BY DEF Survivors, Tau, Scale, request, ranking

LEMMA NoneChosen ==
  ASSUME chosen = <<>>
  PROVE  ChosenItems = {} /\ Cardinality(ChosenItems) = 0 /\ Len(chosen) = 0
  BY FS_EmptySet DEF ChosenItems

LEMMA SlotsInit == Init => SlotsInv
<1> SUFFICES ASSUME Init PROVE SlotsInv
  OBVIOUS
<1>1. ChosenItems = {} /\ Cardinality(ChosenItems) = 0 /\ Len(chosen) = 0
  BY NoneChosen DEF Init
<1>2. Survivors(Tau(step)) = {} /\ pool = {} /\ available = {} /\ step = 1
  BY DEF Init, Survivors
<1>3. k \in Nat /\ phase # "done"
  BY LengthsAssumption DEF Init
<1>4. QED
  BY <1>1, <1>2, <1>3 DEF SlotsInv, NothingHeard

LEMMA SlotsStep == TypeOK /\ TypeOK' /\ SlotsInv /\ [Next]_vars => SlotsInv'
<1> SUFFICES ASSUME TypeOK, TypeOK', SlotsInv, [Next]_vars PROVE SlotsInv'
  OBVIOUS
<1>k. k \in Nat \ {0} /\ step \in 1..4 /\ Len(RelaxationSteps) = 4
  BY LengthsAssumption DEF TypeOK, RelaxationSteps
<1>1. CASE Gather
  <2>1. chosen' = <<>> /\ step' = 1 /\ k' = k /\ heard' = heard /\ members' = members
    BY <1>1 DEF Gather, StartPass, request
  <2>2. ChosenItems' = {} /\ Cardinality(ChosenItems') = 0 /\ Len(chosen') = 0
    BY <2>1, NoneChosen, FS_EmptySet DEF ChosenItems
  <2>3. available' = Survivors(Tau(step))'
    BY <1>1, <2>1 DEF Gather, Survivors, Tau
  <2>4. phase' = "done" => pool' = {}
    BY <1>1 DEF Gather
  <2>5. NothingHeard'
    BY <1>1, <2>1, PoolUnheard DEF Gather, NothingHeard, Heard
  <2>6. QED
    BY <1>k, <2>1, <2>2, <2>3, <2>4, <2>5 DEF SlotsInv
<1>2. CASE PickSlot
  <2>1. PICK u \in members, c \in available :
          /\ chosen' = Append(chosen, [item |-> c, served |-> u])
          /\ available' = available \ {c}
    BY <1>2 DEF PickSlot
  <2>2. /\ UNCHANGED <<request, phase, ranking, step, seed, previous>>
        /\ phase = "selecting" /\ Len(chosen) < k
    BY <1>2 DEF PickSlot
  <2>3. Len(chosen) \in Nat /\ DOMAIN chosen = 1..Len(chosen)
    BY DEF TypeOK
  <2>4. /\ Len(chosen') = Len(chosen) + 1
        /\ DOMAIN chosen' = 1..(Len(chosen) + 1)
        /\ \A i \in 1..Len(chosen) : chosen'[i] = chosen[i]
        /\ chosen'[Len(chosen) + 1] = [item |-> c, served |-> u]
    BY <2>1, <2>3 DEF TypeOK
  <2>5. ChosenItems' = ChosenItems \cup {c}
    <3>1. ChosenItems' \subseteq ChosenItems \cup {c}
      BY <2>3, <2>4 DEF ChosenItems
    <3>2. c \in ChosenItems'
      <4>1. Len(chosen) + 1 \in DOMAIN chosen' /\ chosen'[Len(chosen) + 1].item = c
        BY <2>3, <2>4
      <4>2. QED
        BY <4>1 DEF ChosenItems
    <3>3. ChosenItems \subseteq ChosenItems'
      <4>1. \A i \in DOMAIN chosen : i \in DOMAIN chosen' /\ chosen'[i] = chosen[i]
        BY <2>3, <2>4
      <4>2. QED
        BY <4>1 DEF ChosenItems
    <3>4. QED
      BY <3>1, <3>2, <3>3
  <2>6. c \notin ChosenItems /\ ChosenItems \in SUBSET Items
    <3>1. c \notin ChosenItems
      BY <2>1 DEF SlotsInv
    <3>2. ChosenItems \in SUBSET Items
      BY ChosenType DEF ChosenItems
    <3>3. QED
      BY <3>1, <3>2
  <2>7. Cardinality(ChosenItems') = Cardinality(ChosenItems) + 1
    BY <2>5, <2>6, ItemSets, FS_AddElement
  <2>8. ChosenItems' \cap available' = {} /\ ChosenItems' \cup available' = Survivors(Tau(step))
    BY <2>1, <2>5, <2>6 DEF SlotsInv
  <2>9. /\ Survivors(Tau(step))' = Survivors(Tau(step))
        /\ \A s \in 1..(step - 1) : Survivors(Tau(s))' = Survivors(Tau(s))
    <3>1. Survivors(Tau(step))' = Survivors(Tau(step))
      BY <2>2 DEF Survivors, Tau, Scale, request, ranking
    <3>2. QED
      BY <2>2, <3>1, SurvivorsUnchanged
  <2>10. NothingHeard'
    BY <2>2 DEF SlotsInv, NothingHeard, Heard, request, ranking
  <2>11. step' = step /\ k' = k /\ phase' = "selecting"
    BY <2>2 DEF request
  <2>12. Cardinality(ChosenItems') = Len(chosen') /\ Len(chosen') <= k'
    BY <1>k, <2>2, <2>3, <2>4, <2>7, <2>11 DEF SlotsInv
  <2>13. \A s \in 1..(step - 1) : Cardinality(Survivors(Tau(s))') < k
    BY <2>9 DEF SlotsInv
  <2>14. QED
    BY <2>8, <2>9, <2>10, <2>11, <2>12, <2>13 DEF SlotsInv
<1>3. CASE Relax
  <2>1. /\ step' = step + 1 /\ chosen' = <<>> /\ available' = Survivors(Tau(step + 1))
        /\ UNCHANGED <<request, phase, ranking>>
        /\ phase = "selecting" /\ available = {} /\ Len(chosen) < k
    BY <1>k, <1>3 DEF Relax, StartPass, PassOver, TypeOK
  <2>2. Cardinality(Survivors(Tau(step))) < k
    <3>1. Survivors(Tau(step)) = ChosenItems
      BY <2>1 DEF SlotsInv
    <3>2. QED
      BY <2>1, <3>1 DEF SlotsInv
  <2>3. ChosenItems' = {} /\ Cardinality(ChosenItems') = 0 /\ Len(chosen') = 0
    BY <2>1, FS_EmptySet DEF ChosenItems
  <2>4. \A s \in 1..step : Cardinality(Survivors(Tau(s))') < k
    <3> SUFFICES ASSUME NEW s \in 1..step PROVE Cardinality(Survivors(Tau(s))') < k
      OBVIOUS
    <3>1. Survivors(Tau(s))' = Survivors(Tau(s))
      BY <2>1, SurvivorsUnchanged
    <3>2. CASE s = step
      BY <2>2, <3>1, <3>2
    <3>3. CASE s # step
      BY <1>k, <3>1, <3>3 DEF SlotsInv
    <3>4. QED
      BY <3>2, <3>3
  <2>5. available' = Survivors(Tau(step))'
    BY <2>1 DEF Survivors, Tau, Scale, request, ranking
  <2>6. NothingHeard'
    BY <2>1 DEF SlotsInv, NothingHeard, Heard, request, ranking
  <2>7. k' = k /\ phase' = "selecting" /\ step' - 1 = step
    BY <1>k, <2>1 DEF request
  <2>8. QED
    BY <1>k, <2>3, <2>4, <2>5, <2>6, <2>7 DEF SlotsInv
<1>4. CASE Finish
  <2>1. /\ UNCHANGED <<request, ranking, step, available, chosen>>
        /\ Len(chosen) >= k \/ (step = Len(RelaxationSteps) /\ available = {})
    BY <1>4 DEF Finish, PassOver
  <2>2. Survivors(Tau(step))' = Survivors(Tau(step))
    BY <2>1 DEF Survivors, Tau, Scale, request, ranking
  <2>3. \A s \in 1..(step - 1) : Survivors(Tau(s))' = Survivors(Tau(s))
    BY <2>1, SurvivorsUnchanged
  <2>4. ChosenItems' = ChosenItems /\ k' = k /\ NothingHeard'
    BY <2>1 DEF ChosenItems, SlotsInv, NothingHeard, Heard, request, ranking
  <2>5. Len(chosen) \in Nat /\ Len(chosen) <= k
    BY DEF TypeOK, SlotsInv
  <2>6. Len(chosen) = k \/ (step = Len(RelaxationSteps) /\ available = {})
    BY <1>k, <2>1, <2>5
  <2>7. \A s \in 1..(step - 1) : Cardinality(Survivors(Tau(s))') < k
    BY <2>3 DEF SlotsInv
  <2>8. QED
    BY <2>1, <2>2, <2>4, <2>6, <2>7 DEF SlotsInv
<1>5. ASSUME UNCHANGED <<request, ranking, step, available, chosen>>,
             phase' = phase \/ phase' = "asked"
      PROVE SlotsInv'
  <2>1. Survivors(Tau(step))' = Survivors(Tau(step))
    BY <1>5 DEF Survivors, Tau, Scale, request, ranking
  <2>2. \A s \in 1..(step - 1) : Survivors(Tau(s))' = Survivors(Tau(s))
    BY <1>5, SurvivorsUnchanged
  <2>3. ChosenItems' = ChosenItems /\ k' = k /\ pool' = pool /\ NothingHeard'
    BY <1>5 DEF ChosenItems, SlotsInv, NothingHeard, Heard, request, ranking
  <2>4. \A s \in 1..(step - 1) : Cardinality(Survivors(Tau(s))') < k
    BY <2>2 DEF SlotsInv
  <2>5. QED
    BY <1>5, <2>1, <2>3, <2>4 DEF SlotsInv
<1>6. CASE Regenerate
  BY <1>5, <1>6 DEF Regenerate
<1>7. CASE UNCHANGED vars
  BY <1>5, <1>7 DEF vars
<1>8. QED
  BY <1>1, <1>2, <1>3, <1>4, <1>6, <1>7 DEF Next

LEMMA SlotsInvariant == Spec => [](TypeOK /\ SlotsInv)
BY SlotsInit, SlotsStep, TypeCorrect, PTL DEF Spec

\* However divided the room, the list is as long as asked or holds the whole
\* pool, and no item twice.
THEOREM PlaylistAlwaysFills == Spec => []PlaylistFills
<1>1. TypeOK /\ SlotsInv => PlaylistFills
  <2> SUFFICES ASSUME TypeOK, SlotsInv, phase = "done", Len(chosen) # k
               PROVE Len(chosen) < k /\ ChosenItems = pool
    BY DEF SlotsInv, PlaylistFills
  <2>1. Len(chosen) < k
    BY LengthsAssumption DEF SlotsInv, TypeOK
  <2>2. CASE step = Len(RelaxationSteps) /\ available = {}
    <3>1. ChosenItems = Survivors(Tau(Len(RelaxationSteps)))
      BY <2>2 DEF SlotsInv
    <3>2. QED
      BY <2>1, <3>1, LastStepVetoesNothing
  <2>3. CASE pool = {}
    BY <2>1, <2>3 DEF SlotsInv, Survivors
  <2>4. QED
    BY <2>2, <2>3 DEF SlotsInv
<1>2. QED
  BY <1>1, SlotsInvariant, PTL

\* No weighting of the other terms plays a track that a member scores below the
\* threshold in force.
THEOREM VetoIsHard == Spec => []NobodyOverruled
<1>1. SlotsInv => NobodyOverruled
  <2> SUFFICES ASSUME SlotsInv, NEW c \in ChosenItems, NEW m \in members
               PROVE 100 * scores[m][c] >= Tau(step) * Scale
    BY DEF NobodyOverruled
  <2>1. c \in Survivors(Tau(step))
    BY DEF SlotsInv
  <2>2. QED
    BY <2>1 DEF Survivors
<1>2. QED
  BY <1>1, SlotsInvariant, PTL

\* The veto is loosened only past thresholds that leave fewer than k tracks.
THEOREM RelaxationIsForced == Spec => []RelaxedOnlyAfterShortage
<1>1. SlotsInv => RelaxedOnlyAfterShortage
  BY DEF SlotsInv, RelaxedOnlyAfterShortage
<1>2. QED
  BY <1>1, SlotsInvariant, PTL

\* Nobody is played what they have heard.
THEOREM NothingHeardAgain == Spec => []NothingHeard
BY SlotsInvariant, PTL DEF SlotsInv

-----------------------------------------------------------------------------
(* An empty playlist                                                       *)

\* The first of a ranking exists: of the items with fewest before them, none
\* has any.
LEMMA TopOfSome ==
  ASSUME NEW S \in SUBSET Items, S # {}, NEW n \in Nat, n > 0
  PROVE  Top(n, Popularity, S) # {}
<1> DEFINE Before(c) == {d \in S : \/ Popularity[d] > Popularity[c]
                                   \/ Popularity[d] = Popularity[c] /\ d < c}
           T == {Cardinality(Before(c)) : c \in S}
<1>1. ASSUME NEW c \in S PROVE IsFiniteSet(Before(c)) /\ Cardinality(Before(c)) \in Nat
  BY ItemSets
<1>2. PICK c \in S : \A d \in S : Cardinality(Before(c)) <= Cardinality(Before(d))
  <2>1. T \in SUBSET Nat /\ T # {}
    BY <1>1
  <2> HIDE DEF Before
  <2>2. PICK x \in T : \A y \in T : x <= y
    BY <2>1, LeastNumber
  <2>3. QED
    BY <2>2
<1>3. Before(c) = {}
  <2> SUFFICES ASSUME NEW d \in Before(c) PROVE FALSE
    OBVIOUS
  <2>1. d \in S /\ \A e \in S : e \in Nat /\ Popularity[e] \in Nat
    BY CatalogueAssumption, PopularityAssumption
  <2>2. Before(d) \subseteq Before(c) /\ d \notin Before(d)
    BY <2>1
  <2>3. Cardinality(Before(d)) <= Cardinality(Before(c)) /\ Before(d) # Before(c)
    BY <1>1, <2>2, FS_Subset
  <2>4. Cardinality(Before(d)) # Cardinality(Before(c))
    BY <1>1, <2>2, <2>3, FS_Subset
  <2>5. Cardinality(Before(c)) <= Cardinality(Before(d))
    BY <1>2, <2>1
  <2>6. Cardinality(Before(c)) \in Nat /\ Cardinality(Before(d)) \in Nat
    BY <1>1, <2>1
  <2> HIDE DEF Before
  <2>7. QED
    BY <2>3, <2>4, <2>5, <2>6
<1>4. Cardinality(Before(c)) < n
  BY <1>3, FS_EmptySet
<1>5. QED
  BY <1>4 DEF Top

\* The top-up finds something wherever there is anything unheard.
LEMMA PoolOfSome ==
  ASSUME Pool = {}
  PROVE  Items \ Heard = {}
<1>1. Candidates = {} /\ Cardinality(Candidates) = 0
  BY FS_EmptySet DEF Pool
<1>2. Top(MinPool, Popularity, Items \ Heard) = {}
  <2>1. MinPool - Cardinality(Candidates) = MinPool /\ Heard \cup Candidates = Heard
    BY <1>1, PoolAssumption
  <2>2. QED
    BY <2>1 DEF Pool
<1>3. QED
  BY <1>2, TopOfSome, PoolAssumption

EmptyInv == phase # "asked" /\ pool = {} => Items \ Heard = {}

LEMMA EmptyStep == EmptyInv /\ [Next]_vars => EmptyInv'
<1> SUFFICES ASSUME EmptyInv, [Next]_vars PROVE EmptyInv'
  OBVIOUS
<1>1. CASE Gather
  <2>1. pool' = Pool /\ Heard' = Heard
    BY <1>1 DEF Gather, request, Heard
  <2>2. QED
    BY <2>1, PoolOfSome DEF EmptyInv
<1>2. CASE Regenerate
  BY <1>2 DEF Regenerate, EmptyInv
<1>3. CASE PickSlot \/ Relax \/ Finish \/ UNCHANGED vars
  <2>1. UNCHANGED <<pool, Heard>> /\ (phase' = "asked" => phase = "asked")
    <3>1. UNCHANGED <<request, ranking>>
      BY <1>3 DEF PickSlot, Relax, Finish, vars
    <3>2. phase' = "asked" => phase = "asked"
      BY <1>3 DEF PickSlot, Relax, Finish, vars
    <3>3. QED
      BY <3>1, <3>2 DEF request, ranking, Heard
  <2>2. phase = "asked" => phase' = "asked"
    BY <1>3 DEF PickSlot, Relax, Finish, PassOver, vars
  <2>3. QED
    BY <2>1, <2>2 DEF EmptyInv
<1>4. QED
  BY <1>1, <1>2, <1>3 DEF Next

\* An empty playlist is never for want of candidates, only of anything unheard:
\* whatever the catalogue, the histories and the sizes of the pool.
THEOREM EmptyOnlyIfAllHeard == Spec => []EmptyMeansAllHeard
<1>1. Init => EmptyInv
  BY DEF Init, EmptyInv
<1>2. TypeOK /\ PlaylistFills /\ EmptyInv => EmptyMeansAllHeard
  <2> SUFFICES ASSUME TypeOK, PlaylistFills, EmptyInv, phase = "done", chosen = <<>>
               PROVE Heard = Items
    BY DEF EmptyMeansAllHeard
  <2>1. Len(chosen) = 0 /\ ChosenItems = {}
    BY NoneChosen
  <2>2. k # 0
    BY LengthsAssumption DEF TypeOK
  <2>3. pool = {}
    BY <2>1, <2>2 DEF PlaylistFills
  <2>4. Heard \subseteq Items
    BY HistoriesAssumption DEF Heard, TypeOK
  <2>5. QED
    BY <2>3, <2>4 DEF EmptyInv
<1>3. QED
  BY <1>1, <1>2, EmptyStep, TypeCorrect, PlaylistAlwaysFills, PTL DEF Spec

-----------------------------------------------------------------------------
(* Who has been served                                                     *)

\* What a list gives member m before slot i, by a table of scores.
Gained(list, table, m, i) ==
  SumFunctionOnSet([j \in 1..(i - 1) |-> table[m][list[j].item]], 1..(i - 1))

\* Later slots do not change it.
LEMMA GainedSame ==
  ASSUME NEW list, NEW longer, NEW table, NEW m, NEW i \in Nat,
         \A j \in 1..(i - 1) : list[j] = longer[j]
  PROVE  Gained(list, table, m, i) = Gained(longer, table, m, i)
<1>1. IsFiniteSet(1..(i - 1))
  BY FS_Interval
<1>2. QED
  BY <1>1, SumSame DEF Gained

LEMMA GainedType ==
  ASSUME NEW list, NEW table, NEW m, NEW i \in Nat,
         \A j \in 1..(i - 1) : table[m][list[j].item] \in Nat
  PROVE  Gained(list, table, m, i) \in Nat
<1>1. IsFiniteSet(1..(i - 1))
  BY FS_Interval
<1>2. QED
  BY <1>1, SumType DEF Gained

LEMMA GainedNext ==
  ASSUME NEW list, NEW table, NEW m, NEW n \in Nat,
         \A j \in 1..(n + 1) : table[m][list[j].item] \in Nat
  PROVE  Gained(list, table, m, n + 2)
           = Gained(list, table, m, n + 1) + table[m][list[n + 1].item]
<1> DEFINE f == [j \in 1..(n + 1) |-> table[m][list[j].item]]
           g == [j \in 1..n |-> table[m][list[j].item]]
<1>1. IsFiniteSet(1..(n + 1)) /\ IsFiniteSet(1..n)
  <2>1. 1 \in Int /\ n \in Int /\ n + 1 \in Int
    OBVIOUS
  <2>2. QED
    BY ONLY <2>1, FS_Interval
<1>2. (n + 2) - 1 = n + 1 /\ (n + 1) - 1 = n /\ (1..(n + 1)) \ {n + 1} = 1..n
  OBVIOUS
<1>3. Gained(list, table, m, n + 2) = SumFunctionOnSet(f, 1..(n + 1))
  BY <1>2 DEF Gained
<1>4. Gained(list, table, m, n + 1) = SumFunctionOnSet(g, 1..n)
  BY <1>2 DEF Gained
<1>5. SumFunctionOnSet(f, 1..(n + 1)) = f[n + 1] + SumFunctionOnSet(f, 1..n)
  BY <1>1, <1>2, SumAdd
<1>6. SumFunctionOnSet(f, 1..n) = SumFunctionOnSet(g, 1..n)
  BY <1>1, SumSame
<1>7. SumFunctionOnSet(g, 1..n) \in Nat /\ f[n + 1] \in Nat
  BY <1>1, SumType
<1>8. QED
  BY <1>3, <1>4, <1>5, <1>6, <1>7

LEMMA Given ==
  ASSUME TypeOK, NEW m \in members
  PROVE  \A j \in DOMAIN chosen : scores[m][chosen[j].item] \in Nat
  BY ChosenType DEF TypeOK

\* The running totals of select are what the list has given each member, and
\* each slot named the one who had been given least.
ServedInv ==
  /\ \A m \in members : cumulative[m] = Gained(chosen, scores, m, Len(chosen) + 1)
  /\ \A i \in DOMAIN chosen, m \in members :
       \/ Gained(chosen, scores, chosen[i].served, i) < Gained(chosen, scores, m, i)
       \/ /\ Gained(chosen, scores, chosen[i].served, i) = Gained(chosen, scores, m, i)
          /\ chosen[i].served <= m

LEMMA ServedByNone ==
  \A list, table, m : Gained(list, table, m, 1) = 0
<1>1. IsFiniteSet({}) /\ 1..(1 - 1) = {}
  BY FS_EmptySet
<1>2. \A f : SumFunctionOnSet(f, {}) = 0
  BY <1>1, SumStep
<1>3. QED
  BY <1>1, <1>2 DEF Gained

LEMMA ServedStep == TypeOK /\ ServedInv /\ [Next]_vars => ServedInv'
<1> SUFFICES ASSUME TypeOK, ServedInv, [Next]_vars PROVE ServedInv'
  OBVIOUS
<1>1. CASE Gather \/ Relax
  <2>1. chosen' = <<>> /\ cumulative' = [m \in members |-> 0] /\ members' = members
    BY <1>1 DEF Gather, Relax, StartPass, request
  <2>2. Len(chosen') + 1 = 1 /\ DOMAIN chosen' = {}
    BY <2>1
  <2>3. QED
    BY <2>1, <2>2, ServedByNone DEF ServedInv
<1>2. CASE PickSlot
  <2>1. PICK u \in members, c \in available :
          /\ IsNeediest(u)
          /\ chosen' = Append(chosen, [item |-> c, served |-> u])
          /\ cumulative' = [m \in members |-> cumulative[m] + scores[m][c]]
    BY <1>2 DEF PickSlot
  <2>2. scores' = scores /\ members' = members
    BY <1>2 DEF PickSlot, request, ranking
  <2> DEFINE n == Len(chosen)
  <2>3. n \in Nat /\ DOMAIN chosen = 1..n /\ c \in pool
    BY DEF TypeOK
  <2>4. PICK list : list = chosen'
    OBVIOUS
  <2>5. /\ Len(list) = n + 1
        /\ DOMAIN list = 1..(n + 1)
        /\ \A i \in 1..n : list[i] = chosen[i]
        /\ list[n + 1] = [item |-> c, served |-> u]
    BY <2>1, <2>3, <2>4 DEF TypeOK
  <2> HIDE DEF n
  <2>6. \A m : \A i \in 1..(n + 1) : Gained(list, scores, m, i) = Gained(chosen, scores, m, i)
    <3> SUFFICES ASSUME NEW m, NEW i \in 1..(n + 1)
                 PROVE  Gained(list, scores, m, i) = Gained(chosen, scores, m, i)
      OBVIOUS
    <3>1. \A j \in 1..(i - 1) : list[j] = chosen[j]
      BY <2>3, <2>5
    <3>2. i \in Nat
      BY <2>3
    <3>3. QED
      BY <3>1, <3>2, GainedSame
  <2>7. ASSUME NEW m \in members
        PROVE  cumulative'[m] = Gained(list, scores, m, (n + 1) + 1)
    <3>1. \A j \in 1..(n + 1) : scores[m][list[j].item] \in Nat
      <4>1. \A j \in 1..n : scores[m][list[j].item] \in Nat
        BY <2>3, <2>5, Given
      <4>2. scores[m][c] \in Nat
        BY <2>3 DEF TypeOK
      <4>3. QED
        BY <2>3, <2>5, <4>1, <4>2
    <3>2. Gained(list, scores, m, n + 2)
            = Gained(list, scores, m, n + 1) + scores[m][list[n + 1].item]
      BY <2>3, <3>1, GainedNext
    <3>3. Gained(list, scores, m, n + 1) = Gained(chosen, scores, m, n + 1)
      BY <2>3, <2>6
    <3>4. (n + 1) + 1 = n + 2 /\ list[n + 1].item = c
      BY <2>3, <2>5
    <3>5. cumulative'[m] = Gained(chosen, scores, m, n + 1) + scores[m][c]
      BY <2>1 DEF ServedInv, n
    <3>6. QED
      BY <3>2, <3>3, <3>4, <3>5
  <2>8. ASSUME NEW i \in 1..(n + 1), NEW m \in members
        PROVE  \/ Gained(list, scores, list[i].served, i) < Gained(list, scores, m, i)
               \/ /\ Gained(list, scores, list[i].served, i) = Gained(list, scores, m, i)
                  /\ list[i].served <= m
    <3>1. /\ Gained(list, scores, m, i) = Gained(chosen, scores, m, i)
          /\ Gained(list, scores, list[i].served, i) = Gained(chosen, scores, list[i].served, i)
      BY <2>6
    <3>2. CASE i \in 1..n
      BY <2>3, <2>5, <3>1, <3>2 DEF ServedInv
    <3>3. CASE i = n + 1
      <4>1. list[i].served = u
        BY <2>5, <3>3
      <4>2. /\ cumulative[u] = Gained(chosen, scores, u, i)
            /\ cumulative[m] = Gained(chosen, scores, m, i)
        BY <3>3 DEF ServedInv, n
      <4>3. QED
        BY <2>1, <3>1, <4>1, <4>2 DEF IsNeediest
    <3>4. QED
      BY <2>3, <3>2, <3>3
  <2>9. QED
    BY <2>2, <2>4, <2>5, <2>7, <2>8 DEF ServedInv
<1>3. CASE Finish \/ Regenerate \/ UNCHANGED vars
  <2>1. UNCHANGED <<chosen, cumulative, scores, members>>
    BY <1>3 DEF Finish, Regenerate, vars, request, ranking
  <2>2. QED
    BY <2>1 DEF ServedInv
<1>4. QED
  BY <1>1, <1>2, <1>3 DEF Next

LEMMA ServedInvariant == Spec => []ServedInv
<1>1. Init => ServedInv
  <2> SUFFICES ASSUME Init PROVE ServedInv
    OBVIOUS
  <2>1. Len(chosen) + 1 = 1 /\ DOMAIN chosen = {} /\ cumulative = [m \in members |-> 0]
    BY DEF Init
  <2>2. QED
    BY <2>1, ServedByNone DEF ServedInv
<1>2. QED
  BY <1>1, ServedStep, TypeCorrect, PTL DEF Spec

\* The member a reason names is the one the list before it served least.
THEOREM ServedIsLeast == Spec => []ServedLeast
<1>1. ServedInv => ServedLeast
  BY DEF ServedInv, ServedLeast, ServedSoFar, Gained
<1>2. QED
  BY <1>1, ServedInvariant, PTL

-----------------------------------------------------------------------------
(* The terms of a track                                                    *)

LEMMA Room ==
  ASSUME TypeOK
  PROVE  /\ members # {} /\ members \subseteq Nat /\ IsFiniteSet(members)
         /\ Cardinality(members) \in Nat
<1>1. PICK n \in 1..MaxRoom : members = 1..n
  BY DEF TypeOK
<1>2. n \in Nat /\ 1 \in 1..n /\ 1..n \subseteq Nat
  BY <1>1
<1>3. IsFiniteSet(1..n)
  BY <1>2, FS_Interval
<1>4. QED
  BY <1>1, <1>2, <1>3, FS_CardinalityType

\* Somebody gives the least score.
LEMMA MinimumIs ==
  ASSUME TypeOK, NEW c \in pool
  PROVE  /\ Minimum(c) \in Nat
         /\ \E m \in members : scores[m][c] = Minimum(c)
         /\ \A m \in members : Minimum(c) <= scores[m][c]
<1> DEFINE T == {scores[m][c] : m \in members}
<1>1. T \subseteq Nat /\ T # {}
  BY Room DEF TypeOK
<1>2. \E x \in T : \A y \in T : x <= y
  BY <1>1, LeastNumber
<1>3. \E x \in T : \A m \in members : x <= scores[m][c]
  BY <1>2
<1>4. Minimum(c) \in T /\ \A m \in members : Minimum(c) <= scores[m][c]
  BY <1>3 DEF Minimum
<1>5. QED
  BY <1>1, <1>4

LEMMA SumIs ==
  ASSUME TypeOK, NEW c \in pool
  PROVE  /\ Sum(c) \in Nat
         /\ Sum(c) = 0 => \A m \in members : scores[m][c] = 0
<1> DEFINE f == [m \in members |-> scores[m][c]]
<1>1. \A m \in members : f[m] \in Nat
  BY DEF TypeOK
<1>2. SumFunctionOnSet(f, members) \in Nat
  BY <1>1, Room, SumType
<1>3. SumFunctionOnSet(f, members) = 0 => \A m \in members : f[m] = 0
  BY <1>1, Room, SumZero
<1>4. QED
  BY <1>2, <1>3 DEF Sum

LEMMA Product ==
  ASSUME NEW x \in Nat, NEW y \in Nat
  PROVE  x * y \in Nat
  OBVIOUS

LEMMA Weights ==
  ASSUME TypeOK
  PROVE  /\ mode.alpha \in Nat /\ mode.alpha > 0 /\ 100 - mode.alpha \in Nat
         /\ mode.rep \in Nat /\ mode.nov \in Nat /\ mode.fair \in Nat
         /\ mode.tau \in Nat /\ mode.tau > 0
<1>1. mode \in Modes
  BY DEF TypeOK
<1>2. QED
  BY ONLY <1>1 DEF Modes

LEMMA ScaleIs ==
  ASSUME TypeOK, pool # {}
  PROVE  Scale \in Nat /\ Scale > 0
<1>1. Cardinality(pool) \in Nat /\ Cardinality(pool) # 0
  BY ItemSets, FS_EmptySet DEF TypeOK
<1>2. QED
  BY <1>1 DEF Scale

-----------------------------------------------------------------------------
(* The handler ends                                                        *)

LEMMA TotalType ==
  ASSUME TypeOK, NEW c \in pool, NEW u \in members
  PROVE  Total(c, u) \in Int
<1>1. PICK n \in Nat : n = Cardinality(members)
  BY Room
<1>2. \A x, y \in Int : x * y \in Int
  OBVIOUS
<1>3. /\ Sum(c) \in Int /\ Minimum(c) \in Int /\ Scale \in Int /\ Repeats(c) \in Int
      /\ novelty[c] \in Int /\ scores[u][c] \in Int
  <2>1. Sum(c) \in Int /\ Minimum(c) \in Int /\ Scale \in Int
    BY SumIs, MinimumIs, ScaleIs
  <2>2. novelty[c] \in Int /\ scores[u][c] \in Int
    BY DEF TypeOK
  <2>3. Repeats(c) \in Int
    <3>1. IsFiniteSet(DOMAIN chosen)
      <4>1. Len(chosen) \in Nat /\ DOMAIN chosen = 1..Len(chosen)
        BY DEF TypeOK
      <4>2. QED
        BY <4>1, FS_Interval
    <3>2. QED
      BY <3>1, FS_Subset, FS_CardinalityType DEF Repeats
  <2>4. QED
    BY <2>1, <2>2, <2>3
<1>4. /\ mode.alpha \in Int /\ 100 - mode.alpha \in Int /\ mode.rep \in Int /\ mode.nov \in Int
      /\ mode.fair \in Int
  BY Weights
<1> DEFINE sum == mode.alpha * Sum(c)
           least == (100 - mode.alpha) * n * Minimum(c)
           repeated == mode.rep * n * Scale * Repeats(c)
           new == mode.nov * n * novelty[c]
           fair == mode.fair * n * scores[u][c]
<1>5. sum \in Int
  BY <1>2, <1>3, <1>4
<1>6. least \in Int
  <2>1. (100 - mode.alpha) * n \in Int
    BY <1>2, <1>4
  <2>2. QED
    BY <1>2, <1>3, <2>1
<1>7. repeated \in Int
  <2>1. mode.rep * n \in Int
    BY <1>2, <1>4
  <2>2. mode.rep * n * Scale \in Int
    BY <1>2, <1>3, <2>1
  <2>3. QED
    BY <1>2, <1>3, <2>2
<1>8. new \in Int /\ fair \in Int
  <2>1. mode.nov * n \in Int /\ mode.fair * n \in Int
    BY <1>2, <1>4
  <2>2. QED
    BY <1>2, <1>3, <2>1
<1>9. Total(c, u) = sum + least - repeated + new + fair
  BY <1>1 DEF Total
<1> HIDE DEF sum, least, repeated, new, fair
<1>10. QED
  BY <1>5, <1>6, <1>7, <1>8, <1>9

\* Of a finite set of numbered things one is best, and of those tied the first.
LEMMA SomeBest ==
  ASSUME NEW S, IsFiniteSet(S), S # {}, S \subseteq Nat, NEW f \in [S -> Int]
  PROVE  \E c \in S : \A d \in S : f[d] < f[c] \/ (f[d] = f[c] /\ c <= d)
<1> DEFINE AtLeast(c) == {d \in S : f[d] >= f[c]}
           F == {AtLeast(c) : c \in S}
<1>0. \A c \in S : AtLeast(c) \subseteq S /\ \A d \in S : d \in AtLeast(c) <=> f[d] >= f[c]
  OBVIOUS
<1> HIDE DEF AtLeast
<1>1. F \in SUBSET SUBSET S /\ F # {} /\ \A c \in S : AtLeast(c) \in F
  BY <1>0
<1>a. \A T \in F : \E c \in S : T = AtLeast(c)
  OBVIOUS
<1> HIDE DEF F
<1>2. PICK T \in F : \A U \in F : U \subseteq T => U = T
  <2>1. F \in SUBSET SUBSET S /\ F # {} /\ IsFiniteSet(S)
    BY <1>1
  <2>2. QED
    BY ONLY <2>1, SmallestSet
<1>3. PICK c \in S : T = AtLeast(c)
  BY <1>2, <1>a
<1>4. \A d \in S : f[d] <= f[c]
  <2> SUFFICES ASSUME NEW d \in S, f[d] > f[c] PROVE FALSE
    OBVIOUS
  <2>1. AtLeast(d) \subseteq T
    <3>1. \A e \in S : f[e] >= f[d] => f[e] >= f[c]
      OBVIOUS
    <3>2. QED
      BY <1>0, <1>3, <3>1
  <2>2. AtLeast(d) = T
    BY <1>1, <1>2, <2>1
  <2>3. c \in T /\ c \notin AtLeast(d)
    BY <1>0, <1>3
  <2>4. QED
    BY <2>2, <2>3
<1> DEFINE tied == {d \in S : f[d] = f[c]}
<1>5. tied \in SUBSET Nat /\ tied # {}
  OBVIOUS
<1>6. PICK first \in tied : \A d \in tied : first <= d
  BY <1>5, LeastNumber
<1>7. QED
  BY <1>4, <1>6

\* Somebody was served least, and some track is best for the slot.
LEMMA SlotCanBeFilled ==
  ASSUME TypeOK, available # {}
  PROVE  \E u \in members, c \in available :
           IsNeediest(u) /\ IsBest(c, [d \in available |-> Total(d, u)])
<1>1. \E u \in members : IsNeediest(u)
  <2> DEFINE f == [m \in members |-> -cumulative[m]]
  <2>1. f \in [members -> Int] /\ cumulative \in [members -> Nat]
    BY DEF TypeOK
  <2>2. PICK u \in members : \A v \in members : f[v] < f[u] \/ (f[v] = f[u] /\ u <= v)
    BY <2>1, Room, SomeBest
  <2>3. \A v \in members : cumulative[u] < cumulative[v]
                           \/ (cumulative[u] = cumulative[v] /\ u <= v)
    BY <2>1, <2>2
  <2>4. QED
    BY <2>3 DEF IsNeediest
<1>2. PICK u \in members : IsNeediest(u)
  BY <1>1
<1> DEFINE total == [d \in available |-> Total(d, u)]
<1>3. total \in [available -> Int]
  BY TotalType DEF TypeOK
<1>4. available \subseteq Nat /\ IsFiniteSet(available)
  BY ItemSets, CatalogueAssumption DEF TypeOK
<1> HIDE DEF total
<1>5. PICK c \in available : \A d \in available : total[d] < total[c] \/ (total[d] = total[c] /\ c <= d)
  BY <1>3, <1>4, SomeBest
<1>6. IsBest(c, total)
  BY <1>5 DEF IsBest
<1>7. QED
  BY <1>2, <1>6 DEF total

\* Until it has answered, the handler can go on: one of its steps has its guard.
CanGoOn ==
  phase # "done" =>
    \/ phase = "asked"
    \/ /\ phase = "selecting" /\ Len(chosen) < k
       /\ \E u \in members, c \in available :
            IsNeediest(u) /\ IsBest(c, [d \in available |-> Total(d, u)])
    \/ PassOver /\ Len(chosen) < k /\ step < Len(RelaxationSteps)
    \/ PassOver /\ (Len(chosen) >= k \/ step = Len(RelaxationSteps))

\* How many of its steps are left at most: for each threshold to come a slot
\* each and the step to the next one, and what the current pass has left.
Left ==
  CASE phase = "asked" -> Len(RelaxationSteps) * (k + 2) + 1
    [] phase = "selecting" -> (Len(RelaxationSteps) - step) * (k + 2) + (k - Len(chosen)) + 1
    [] phase = "done" -> 0

LEMMA LeftIsNumber == TypeOK /\ SlotsInv => Left \in Nat
<1> SUFFICES ASSUME TypeOK, SlotsInv PROVE Left \in Nat
  OBVIOUS
<1>1. /\ step \in 1..4 /\ k \in Nat /\ Len(chosen) \in Nat /\ Len(chosen) <= k
      /\ phase \in {"asked", "selecting", "done"} /\ Len(RelaxationSteps) = 4
  BY LengthsAssumption DEF TypeOK, SlotsInv, RelaxationSteps
<1>2. (4 - step) * (k + 2) \in Nat
  <2>1. 4 - step \in Nat /\ k + 2 \in Nat
    BY <1>1
  <2>2. QED
    BY <2>1, Product
<1>3. QED
  BY <1>1, <1>2 DEF Left

\* Each step of the handler leaves fewer.
LEMMA StepsRunOut ==
  TypeOK /\ SlotsInv /\ TypeOK' /\ (Gather \/ PickSlot \/ Relax \/ Finish) => Left' < Left
<1> SUFFICES ASSUME TypeOK, SlotsInv, TypeOK', Gather \/ PickSlot \/ Relax \/ Finish
             PROVE  Left' < Left
  OBVIOUS
<1>1. /\ step \in 1..4 /\ k \in Nat /\ Len(chosen) \in Nat /\ Len(chosen) <= k
      /\ Len(RelaxationSteps) = 4 /\ chosen \in Seq([item : pool, served : members])
  BY LengthsAssumption DEF TypeOK, SlotsInv, RelaxationSteps
<1>2. \A i \in 1..4 : (4 - i) * (k + 2) \in Nat
  <2>1. \A i \in 1..4 : 4 - i \in Nat /\ k + 2 \in Nat
    BY <1>1
  <2>2. QED
    BY <2>1, Product
<1>3. CASE Gather
  <2>1. phase = "asked" /\ phase' \in {"selecting", "done"} /\ step' = 1 /\ chosen' = <<>> /\ k' = k
    BY <1>3 DEF Gather, StartPass, request
  <2>2. Left = 4 * (k + 2) + 1
    BY <1>1, <2>1 DEF Left
  <2>3. Left' = 0 \/ Left' = 3 * (k + 2) + k + 1
    BY <1>1, <2>1 DEF Left, RelaxationSteps
  <2>4. QED
    BY <1>1, <2>2, <2>3
<1>4. CASE PickSlot
  <2>1. /\ phase = "selecting" /\ phase' = "selecting" /\ step' = step /\ k' = k
        /\ Len(chosen') = Len(chosen) + 1
    BY <1>1, <1>4 DEF PickSlot, request
  <2>2. /\ Left = (4 - step) * (k + 2) + (k - Len(chosen)) + 1
        /\ Left' = (4 - step) * (k + 2) + (k - (Len(chosen) + 1)) + 1
    BY <1>1, <2>1 DEF Left, RelaxationSteps
  <2>3. QED
    BY <1>1, <1>2, <2>2
<1>5. CASE Relax
  <2>1. /\ phase = "selecting" /\ phase' = "selecting" /\ step' = step + 1 /\ step < 4 /\ k' = k
        /\ chosen' = <<>>
    BY <1>1, <1>5 DEF Relax, PassOver, StartPass, request
  <2>2. /\ Left = (4 - step) * (k + 2) + (k - Len(chosen)) + 1
        /\ Left' = (4 - (step + 1)) * (k + 2) + k + 1
    BY <1>1, <2>1 DEF Left, RelaxationSteps
  <2>3. (4 - step) * (k + 2) = (4 - (step + 1)) * (k + 2) + (k + 2)
    <3>1. step \in {1, 2, 3}
      BY <1>1, <2>1
    <3>2. QED
      BY <1>1, <3>1
  <2>4. (4 - (step + 1)) * (k + 2) \in Nat
    BY <1>1, <1>2, <2>1
  <2>5. QED
    BY <1>1, <2>2, <2>3, <2>4
<1>6. CASE Finish
  <2>1. phase = "selecting" /\ phase' = "done"
    BY <1>6 DEF Finish, PassOver
  <2>2. Left' = 0 /\ Left = (4 - step) * (k + 2) + (k - Len(chosen)) + 1
    BY <1>1, <2>1 DEF Left
  <2>3. QED
    BY <1>1, <1>2, <2>2
<1>7. QED
  BY <1>3, <1>4, <1>5, <1>6

\* However divided the room, the handler always has a next step until it has
\* answered, and no more of them than Left: what Answers asks of the code,
\* fairness apart.
THEOREM HandlerAlwaysEnds ==
  Spec => /\ [](CanGoOn /\ Left \in Nat)
          /\ [][Gather \/ PickSlot \/ Relax \/ Finish => Left' < Left]_vars
<1>1. TypeOK => CanGoOn
  <2> SUFFICES ASSUME TypeOK PROVE CanGoOn
    OBVIOUS
  <2>1. /\ Len(chosen) \in Nat /\ k \in Nat /\ step \in 1..4 /\ Len(RelaxationSteps) = 4
        /\ phase \in {"asked", "selecting", "done"}
    BY LengthsAssumption DEF TypeOK, RelaxationSteps
  <2>2. CASE PassOver
    <3>1. \/ Len(chosen) < k /\ step < Len(RelaxationSteps)
          \/ Len(chosen) >= k \/ step = Len(RelaxationSteps)
      BY <2>1
    <3>2. QED
      BY <2>2, <3>1 DEF CanGoOn
  <2>3. CASE phase = "selecting" /\ ~PassOver
    <3>1. Len(chosen) < k /\ available # {}
      BY <2>1, <2>3 DEF PassOver
    <3>2. QED
      BY <2>3, <3>1, SlotCanBeFilled DEF CanGoOn
  <2>4. QED
    BY <2>1, <2>2, <2>3 DEF CanGoOn
<1>2. TypeOK /\ SlotsInv /\ TypeOK' /\ [Next]_vars
        => [Gather \/ PickSlot \/ Relax \/ Finish => Left' < Left]_vars
  BY StepsRunOut
<1>3. QED
  BY <1>1, <1>2, SlotsInvariant, LeftIsNumber, PTL DEF Spec
=============================================================================
