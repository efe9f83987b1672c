--------------------------- MODULE ExplainProofs ---------------------------
(* Proofs about Explain: the reasons given with a playlist hold, for every  *)
(* catalogue, room, taste, history, genre and number of clauses.            *)
EXTENDS Explain, GenerateProofs

-----------------------------------------------------------------------------
(* The terms of a track                                                    *)

\* How often list has the artist of c in the slots before i that still count.
Lately(list, i, c) ==
  Cardinality({j \in {j \in DOMAIN list : j < i /\ j >= i - RepetitionWindow} :
                 Artist[list[j].item] = Artist[c]})

LEMMA LatelyType ==
  ASSUME TypeOK, NEW i, NEW c
  PROVE  Lately(chosen, i, c) \in Nat
<1> DEFINE S == {j \in {j \in DOMAIN chosen : j < i /\ j >= i - RepetitionWindow} :
                   Artist[chosen[j].item] = Artist[c]}
<1>1. Len(chosen) \in Nat /\ DOMAIN chosen = 1..Len(chosen)
  BY DEF TypeOK
<1>2. IsFiniteSet(1..Len(chosen))
  BY <1>1, FS_Interval
<1>3. S \subseteq 1..Len(chosen)
  BY <1>1
<1>4. QED
  BY <1>2, <1>3, FS_Subset, FS_CardinalityType DEF Lately

\* The terms of c, its artist having come that often, with u the neediest.
Group(c) == mode.alpha * Sum(c) + (100 - mode.alpha) * Cardinality(members) * Minimum(c)
Repetition(often) == mode.rep * Cardinality(members) * Scale * often
Novelty(c) == mode.nov * Cardinality(members) * novelty[c]
Fairness(c, u) == mode.fair * Cardinality(members) * scores[u][c]

LEMMA TermTypes ==
  ASSUME TypeOK, NEW c \in pool, NEW often \in Nat, NEW u \in members
  PROVE  /\ Group(c) \in Nat
         /\ Group(c) = 0 => \A m \in members : scores[m][c] = 0
         /\ Repetition(often) \in Nat /\ Novelty(c) \in Nat /\ Fairness(c, u) \in Nat
<1>1. PICK n \in Nat : n = Cardinality(members)
  BY Room
<1>2. /\ novelty[c] \in Nat /\ scores[u][c] \in Nat
      /\ Sum(c) \in Nat /\ Minimum(c) \in Nat /\ Scale \in Nat
  BY SumIs, MinimumIs, ScaleIs DEF TypeOK
<1>3. /\ mode.alpha * Sum(c) \in Nat
      /\ (100 - mode.alpha) * n * Minimum(c) \in Nat
  BY <1>2, Product, Weights
<1>4. Group(c) \in Nat
  BY <1>1, <1>3 DEF Group
<1>5. Repetition(often) \in Nat /\ Novelty(c) \in Nat /\ Fairness(c, u) \in Nat
  BY <1>1, <1>2, Product, Weights DEF Repetition, Novelty, Fairness
<1>6. Group(c) = 0 => Sum(c) = 0
  <2>1. SUFFICES ASSUME Group(c) = 0 PROVE Sum(c) = 0
    OBVIOUS
  <2>2. mode.alpha * Sum(c) = 0
    BY <1>1, <1>3, <2>1 DEF Group
  <2>3. QED
    BY <1>2, <2>2, Weights
<1>7. QED
  BY <1>4, <1>5, <1>6, SumIs

-----------------------------------------------------------------------------
(* Every track won its slot                                                *)

Value(c, often, u) == Group(c) - Repetition(often) + Novelty(c) + Fairness(c, u)

\* What the terms come to depends on the request and the ranking alone.
LEMMA ValueUnchanged ==
  ASSUME UNCHANGED <<request, ranking>>, NEW c, NEW often, NEW u
  PROVE  Value(c, often, u)' = Value(c, often, u)
  BY DEF Value, Group, Repetition, Novelty, Fairness, Sum, Minimum, Scale, request, ranking

\* The track of slot i beats what is left when the slots before it are filled.
Beats(list, i, c) ==
  LET won == list[i].item
      mine == Value(won, Lately(list, i, won), list[i].served)
      other == Value(c, Lately(list, i, c), list[i].served) IN
  other < mine \/ (other = mine /\ won <= c)

WonInv ==
  \A i \in DOMAIN chosen :
    \A c \in Survivors(Tau(step)) \ {chosen[j].item : j \in 1..(i - 1)} : Beats(chosen, i, c)

LEMMA TotalIsValue ==
  ASSUME TypeOK, NEW c \in pool, NEW u \in members
  PROVE  Total(c, u) = Value(c, Repeats(c), u) /\ Repeats(c) = Lately(chosen, Len(chosen) + 1, c)
<1>1. Len(chosen) \in Nat /\ DOMAIN chosen = 1..Len(chosen)
  BY DEF TypeOK
<1>2. {j \in DOMAIN chosen : j < Len(chosen) + 1 /\ j >= (Len(chosen) + 1) - RepetitionWindow}
        = {j \in DOMAIN chosen : j > Len(chosen) - RepetitionWindow}
  BY <1>1 DEF RepetitionWindow
<1>3. {i \in DOMAIN chosen : /\ i > Len(chosen) - RepetitionWindow
                             /\ Artist[chosen[i].item] = Artist[c]}
        = {j \in {j \in DOMAIN chosen : j > Len(chosen) - RepetitionWindow} :
             Artist[chosen[j].item] = Artist[c]}
  OBVIOUS
<1>4. Repeats(c) = Lately(chosen, Len(chosen) + 1, c)
  BY <1>2, <1>3 DEF Repeats, Lately
<1>5. Total(c, u) = Value(c, Repeats(c), u)
  <2> DEFINE sum == mode.alpha * Sum(c)
             least == (100 - mode.alpha) * Cardinality(members) * Minimum(c)
  <2>1. Total(c, u) = sum + (least - Repetition(Repeats(c))) + Novelty(c) + Fairness(c, u)
    BY Zenon DEF Total, Repetition, Novelty, Fairness
  <2>2. Repeats(c) \in Nat
    BY <1>4, LatelyType
  <2>3. Repetition(Repeats(c)) \in Nat /\ Novelty(c) \in Nat /\ Fairness(c, u) \in Nat
    BY <2>2, TermTypes
  <2>4. sum \in Nat /\ least \in Nat /\ Group(c) = sum + least
    <3>1. Sum(c) \in Nat /\ Minimum(c) \in Nat /\ Cardinality(members) \in Nat
      BY SumIs, MinimumIs, Room
    <3>2. QED
      BY <3>1, Product, Weights DEF Group
  <2> HIDE DEF sum, least
  <2>5. QED
    BY <2>1, <2>3, <2>4 DEF Value
<1>6. QED
  BY <1>4, <1>5

LEMMA WonStep ==
  TypeOK /\ SlotsInv /\ WonInv /\ [Next]_vars => WonInv'
<1> SUFFICES ASSUME TypeOK, SlotsInv, WonInv, [Next]_vars PROVE WonInv'
  OBVIOUS
<1>1. CASE Gather \/ Relax
  <2>1. chosen' = <<>>
    BY <1>1 DEF Gather, Relax, StartPass
  <2>2. QED
    BY <2>1 DEF WonInv
<1>2. CASE PickSlot
  <2>1. PICK u \in members, c \in available :
          /\ IsBest(c, [d \in available |-> Total(d, u)])
          /\ chosen' = Append(chosen, [item |-> c, served |-> u])
    BY <1>2 DEF PickSlot
  <2>2. UNCHANGED <<request, ranking, step>>
    BY <1>2 DEF PickSlot
  <2> DEFINE n == Len(chosen)
  <2>3. n \in Nat /\ DOMAIN chosen = 1..n /\ available \subseteq pool
    BY DEF TypeOK
  <2>4. PICK list : list = chosen'
    OBVIOUS
  <2>5. /\ DOMAIN list = 1..(n + 1)
        /\ \A i \in 1..n : list[i] = chosen[i]
        /\ list[n + 1] = [item |-> c, served |-> u]
    BY <2>1, <2>3, <2>4 DEF TypeOK
  <2> HIDE DEF n
  <2>6. ASSUME NEW i \in 1..(n + 1), NEW d
        PROVE  Lately(list, i, d) = Lately(chosen, i, d)
    <3>1. {j \in DOMAIN list : j < i /\ j >= i - RepetitionWindow}
            = {j \in DOMAIN chosen : j < i /\ j >= i - RepetitionWindow}
      BY <2>3, <2>5
    <3>2. \A j \in {j \in DOMAIN chosen : j < i /\ j >= i - RepetitionWindow} :
            list[j] = chosen[j]
      BY <2>3, <2>5
    <3>3. QED
      BY <3>1, <3>2 DEF Lately
  <2>7. Survivors(Tau(step))' = Survivors(Tau(step))
    BY <2>2 DEF Survivors, Tau, Scale, request, ranking
  <2>8. ASSUME NEW i \in 1..(n + 1),
               NEW d \in Survivors(Tau(step)) \ {list[j].item : j \in 1..(i - 1)}
        PROVE  Beats(list, i, d)
    <3>1. \A j \in 1..(i - 1) : list[j] = chosen[j]
      BY <2>3, <2>5
    <3>2. d \in Survivors(Tau(step)) \ {chosen[j].item : j \in 1..(i - 1)}
      BY <2>8, <3>1
    <3>3. CASE i \in 1..n
      <4>1. Beats(chosen, i, d) /\ list[i] = chosen[i]
        BY <2>3, <2>5, <3>2, <3>3 DEF WonInv
      <4>2. QED
        BY <2>6, <4>1 DEF Beats
    <3>4. CASE i = n + 1
      <4>1. d \in available
        <5>1. ChosenItems = {chosen[j].item : j \in 1..(i - 1)}
          BY <2>3, <3>4 DEF ChosenItems
        <5>2. QED
          BY <3>2, <5>1 DEF SlotsInv
      <4>2. Total(d, u) < Total(c, u) \/ (Total(d, u) = Total(c, u) /\ c <= d)
        BY <2>1, <4>1 DEF IsBest
      <4>3. /\ Total(c, u) = Value(c, Lately(list, i, c), u)
            /\ Total(d, u) = Value(d, Lately(list, i, d), u)
        BY <2>3, <2>6, <3>4, <4>1, TotalIsValue DEF n
      <4>4. list[i].item = c /\ list[i].served = u
        BY <2>5, <3>4
      <4>5. QED
        BY <4>2, <4>3, <4>4 DEF Beats
    <3>5. QED
      BY <2>3, <3>3, <3>4
  <2>9. ASSUME NEW i, NEW d PROVE Beats(list, i, d) => Beats(chosen, i, d)'
    BY <2>2, <2>4, ValueUnchanged DEF Beats
  <2>10. QED
    BY <2>4, <2>5, <2>7, <2>8, <2>9 DEF WonInv
<1>3. CASE Finish \/ Regenerate \/ UNCHANGED vars
  <2>1. UNCHANGED <<request, ranking, step, chosen>>
    BY <1>3 DEF Finish, Regenerate, vars
  <2>2. Survivors(Tau(step))' = Survivors(Tau(step))
    BY <2>1 DEF Survivors, Tau, Scale, request, ranking
  <2>3. ASSUME NEW i, NEW d PROVE Beats(chosen, i, d) => Beats(chosen, i, d)'
    BY <2>1, ValueUnchanged DEF Beats
  <2>4. QED
    BY <2>1, <2>2, <2>3 DEF WonInv
<1>4. QED
  BY <1>1, <1>2, <1>3 DEF Next

LEMMA WonInvariant == Spec => []WonInv
<1>1. Init => WonInv
  BY DEF Init, WonInv
<1>2. QED
  BY <1>1, WonStep, SlotsInvariant, PTL DEF Spec

LEMMA ContributionsAre ==
  ASSUME TypeOK, NEW i \in DOMAIN chosen, NEW c \in pool
  PROVE  /\ DOMAIN Contributions(i, c)
              = {"group_score", "repetition_penalty", "novelty_bonus", "fairness_bonus"}
         /\ Contributions(i, c).group_score = Group(c)
         /\ Contributions(i, c).repetition_penalty = -Repetition(Lately(chosen, i, c))
         /\ Contributions(i, c).novelty_bonus = Novelty(c)
         /\ Contributions(i, c).fairness_bonus = Fairness(c, chosen[i].served)
  BY DEF Contributions, Group, Repetition, Novelty, Fairness, Lately

LEMMA SlotTypes ==
  ASSUME TypeOK, NEW i \in DOMAIN chosen
  PROVE  chosen[i].item \in pool /\ chosen[i].served \in members
<1> DEFINE Slot == [item : pool, served : members]
<1>1. chosen \in Seq(Slot)
  BY DEF TypeOK
<1>2. chosen[i] \in Slot
  <2> HIDE DEF Slot
  <2>1. i \in 1..Len(chosen)
    BY <1>1
  <2>2. QED
    BY <1>1, <2>1, ElementOfSeq
<1>3. QED
  BY <1>2

LEMMA WonIsBest ==
  ASSUME TypeOK, WonInv, NEW i \in DOMAIN chosen
  PROVE  WonItsSlot(i)
<1> DEFINE Score(c) == LET t == Contributions(i, c) IN
                       t.group_score + t.repetition_penalty + t.novelty_bonus + t.fairness_bonus
           won == chosen[i].item
<1>1. ASSUME NEW c \in pool
      PROVE  Score(c) = Value(c, Lately(chosen, i, c), chosen[i].served)
  <2>1. /\ Group(c) \in Nat /\ Repetition(Lately(chosen, i, c)) \in Nat
        /\ Novelty(c) \in Nat /\ Fairness(c, chosen[i].served) \in Nat
    BY LatelyType, SlotTypes, TermTypes
  <2>2. Score(c) = Group(c) + (-Repetition(Lately(chosen, i, c))) + Novelty(c)
                   + Fairness(c, chosen[i].served)
    BY ContributionsAre
  <2>3. QED
    BY <2>1, <2>2 DEF Value
<1>2. ASSUME NEW c \in Survivors(Tau(step)) \ {chosen[j].item : j \in 1..(i - 1)}
      PROVE  Score(c) < Score(won) \/ (Score(c) = Score(won) /\ won <= c)
  <2>1. Beats(chosen, i, c) /\ c \in pool /\ won \in pool
    BY <1>2, SlotTypes DEF WonInv, Survivors
  <2> HIDE DEF Score
  <2>2. QED
    BY <1>1, <2>1 DEF Beats
<1>3. QED
  BY <1>2, Zenon DEF WonItsSlot

-----------------------------------------------------------------------------
(* Clauses in order of size                                                *)

\* The places before a, of n with these sizes.
Places(size, n, a) == {b \in 1..n : size[b] > size[a] \/ (size[b] = size[a] /\ b < a)}

LEMMA PlacesFinite ==
  ASSUME NEW n \in Nat, NEW size, NEW a
  PROVE  IsFiniteSet(Places(size, n, a)) /\ Cardinality(Places(size, n, a)) \in Nat
<1>1. IsFiniteSet(1..n) /\ Places(size, n, a) \subseteq 1..n
  BY FS_Interval DEF Places
<1>2. QED
  BY <1>1, FS_Subset, FS_CardinalityType

\* Of two places one is before the other, and has fewer before it.
LEMMA PlacesOrdered ==
  ASSUME NEW n \in Nat, NEW size \in [1..n -> Int], NEW a \in 1..n, NEW b \in 1..n,
         size[b] > size[a] \/ (size[b] = size[a] /\ b < a)
  PROVE  Cardinality(Places(size, n, b)) < Cardinality(Places(size, n, a))
<1>1. Places(size, n, b) \subseteq Places(size, n, a)
  BY DEF Places
<1>2. b \in Places(size, n, a) /\ b \notin Places(size, n, b)
  BY DEF Places
<1>3. /\ Cardinality(Places(size, n, b)) <= Cardinality(Places(size, n, a))
      /\ Cardinality(Places(size, n, b)) # Cardinality(Places(size, n, a))
  BY <1>1, <1>2, PlacesFinite, FS_Subset
<1>4. QED
  BY <1>3, PlacesFinite

\* Every place is taken by exactly one.
LEMMA PlacesTaken ==
  ASSUME NEW n \in Nat, NEW size \in [1..n -> Int], NEW p \in 1..n
  PROVE  \E a \in 1..n : Cardinality(Places(size, n, a)) = p - 1
<1> DEFINE f == [a \in 1..n |-> Cardinality(Places(size, n, a)) + 1]
<1>1. ASSUME NEW a \in 1..n PROVE f[a] \in 1..n
  <2>1. Places(size, n, a) \in SUBSET ((1..n) \ {a})
    BY DEF Places
  <2>2. IsFiniteSet(1..n) /\ Cardinality(1..n) = n
    BY FS_Interval
  <2>3. IsFiniteSet((1..n) \ {a}) /\ Cardinality((1..n) \ {a}) = n - 1
    BY <2>2, FS_RemoveElement
  <2>4. Cardinality(Places(size, n, a)) <= n - 1
    BY <2>1, <2>3, FS_Subset
  <2>5. QED
    BY <2>4, PlacesFinite
<1>2. f \in [1..n -> 1..n]
  BY <1>1
<1>3. \A a, b \in 1..n : f[a] = f[b] => a = b
  <2> SUFFICES ASSUME NEW a \in 1..n, NEW b \in 1..n, f[a] = f[b], a # b PROVE FALSE
    OBVIOUS
  <2>1. Cardinality(Places(size, n, a)) = Cardinality(Places(size, n, b))
    BY PlacesFinite
  <2>2. \/ size[b] > size[a] \/ (size[b] = size[a] /\ b < a)
        \/ size[a] > size[b] \/ (size[a] = size[b] /\ a < b)
    OBVIOUS
  <2>3. QED
    BY <2>1, <2>2, PlacesOrdered, PlacesFinite
<1>4. f \in Surjection(1..n, 1..n)
  <2> HIDE DEF f
  <2>1. f \in Injection(1..n, 1..n)
    BY <1>2, <1>3 DEF Injection, IsInjective
  <2>2. IsFiniteSet(1..n)
    BY FS_Interval
  <2>3. QED
    BY <2>1, <2>2, FS_Injection
<1>5. PICK a \in 1..n : f[a] = p
  BY <1>4 DEF Surjection
<1>6. Cardinality(Places(size, n, a)) + 1 = p /\ Cardinality(Places(size, n, a)) \in Nat
  BY <1>5, PlacesFinite
<1> HIDE DEF f
<1>7. QED
  BY <1>6

-----------------------------------------------------------------------------
(* The clauses of a reason                                                 *)

\* The clauses that explain may look at, and whether it takes them up.
NoveltyClause(i) ==
  Clause(i, "novelty_bonus",
         IF NewToEveryone(chosen[i].item) THEN "new" ELSE "less familiar", {})
TurnClause(i) == Clause(i, "fairness_bonus", "turn", Turn(i))
RepeatClause(i) == Clause(i, "repetition_penalty", "repeats", {})

LEMMA MagnitudeType ==
  ASSUME TypeOK, NEW i \in DOMAIN chosen,
         NEW term \in {"group_score", "repetition_penalty", "novelty_bonus", "fairness_bonus"}
  PROVE  /\ Magnitude(i, term) \in Nat
         /\ term = "group_score" /\ Magnitude(i, term) = 0
              => \A m \in members : scores[m][chosen[i].item] = 0
<1> DEFINE c == chosen[i].item
<1>1. c \in pool /\ chosen[i].served \in members
  BY SlotTypes
<1>2. /\ Group(c) \in Nat
      /\ Group(c) = 0 => \A m \in members : scores[m][c] = 0
      /\ Repetition(Lately(chosen, i, c)) \in Nat
      /\ Novelty(c) \in Nat /\ Fairness(c, chosen[i].served) \in Nat
  BY <1>1, LatelyType, TermTypes
<1> HIDE DEF c
<1>3. CASE term = "group_score"
  <2>1. Contributions(i, c)[term] = Group(c)
    BY <1>1, <1>3, ContributionsAre
  <2>2. Magnitude(i, term) = Group(c)
    BY <1>2, <2>1 DEF Magnitude, c
  <2>3. QED
    BY <1>2, <2>2 DEF c
<1>4. CASE term = "repetition_penalty"
  <2>1. Contributions(i, c)[term] = -Repetition(Lately(chosen, i, c))
    BY <1>1, <1>4, ContributionsAre
  <2>2. QED
    BY <1>2, <1>4, <2>1 DEF Magnitude, c
<1>5. CASE term = "novelty_bonus"
  <2>1. Contributions(i, c)[term] = Novelty(c)
    BY <1>1, <1>5, ContributionsAre
  <2>2. QED
    BY <1>2, <1>5, <2>1 DEF Magnitude, c
<1>6. CASE term = "fairness_bonus"
  <2>1. Contributions(i, c)[term] = Fairness(c, chosen[i].served)
    BY <1>1, <1>6, ContributionsAre
  <2>2. QED
    BY <1>2, <1>6, <2>1 DEF Magnitude, c
<1>7. QED
  BY <1>3, <1>4, <1>5, <1>6

LEMMA WhenIs ==
  ASSUME NEW S, NEW P, P \in BOOLEAN, NEW x \in S
  PROVE  When(P, x) \in Seq(S) /\ Range(When(P, x)) = IF P THEN {x} ELSE {}
  BY DEF When, Range

Looked(i) == {GroupClause(i), NoveltyClause(i), TurnClause(i), RepeatClause(i)}

\* What is taken up: a clause other than the group's only if its term moved the
\* score, and nobody's turn in a room of one.
LEMMA ClausesAre ==
  ASSUME NEW i
  PROVE  /\ Clauses(i) \in Seq(Looked(i))
         /\ Range(Clauses(i)) =
              {GroupClause(i)}
              \cup (IF Magnitude(i, "novelty_bonus") # 0 THEN {NoveltyClause(i)} ELSE {})
              \cup (IF Magnitude(i, "fairness_bonus") # 0 /\ ~Alone THEN {TurnClause(i)} ELSE {})
              \cup (IF Magnitude(i, "repetition_penalty") # 0 THEN {RepeatClause(i)} ELSE {})
<1> DEFINE first == <<GroupClause(i)>>
           new == When(Magnitude(i, "novelty_bonus") # 0, NoveltyClause(i))
           turn == When(Magnitude(i, "fairness_bonus") # 0 /\ ~Alone, TurnClause(i))
           again == When(Magnitude(i, "repetition_penalty") # 0, RepeatClause(i))
<1>1. Clauses(i) = first \o new \o turn \o again
  BY Zenon DEF Clauses, NoveltyClause, TurnClause, RepeatClause
<1>2. first \in Seq(Looked(i)) /\ Range(first) = {GroupClause(i)}
  BY DEF Looked, Range
<1>3. /\ new \in Seq(Looked(i))
      /\ Range(new) = IF Magnitude(i, "novelty_bonus") # 0 THEN {NoveltyClause(i)} ELSE {}
  BY WhenIs DEF Looked
<1>4. /\ turn \in Seq(Looked(i))
      /\ Range(turn) = IF Magnitude(i, "fairness_bonus") # 0 /\ ~Alone THEN {TurnClause(i)} ELSE {}
  BY WhenIs DEF Looked
<1>5. /\ again \in Seq(Looked(i))
      /\ Range(again) = IF Magnitude(i, "repetition_penalty") # 0 THEN {RepeatClause(i)} ELSE {}
  BY WhenIs DEF Looked
<1> HIDE DEF first, new, turn, again
<1> DEFINE two == first \o new
           three == two \o turn
<1>6. two \in Seq(Looked(i)) /\ Range(two) = Range(first) \cup Range(new)
  BY <1>2, <1>3, ConcatProperties, RangeConcatenation
<1> HIDE DEF two
<1>7. three \in Seq(Looked(i)) /\ Range(three) = Range(two) \cup Range(turn)
  BY <1>4, <1>6, ConcatProperties, RangeConcatenation
<1> HIDE DEF three
<1>8. three \o again \in Seq(Looked(i)) /\ Range(three \o again) = Range(three) \cup Range(again)
  BY <1>5, <1>7, ConcatProperties, RangeConcatenation
<1>9. Clauses(i) = three \o again
  BY <1>1 DEF two, three
<1>10. QED
  BY <1>2, <1>3, <1>4, <1>5, <1>6, <1>7, <1>8, <1>9

LEMMA GroupClauseIs ==
  ASSUME NEW i
  PROVE  /\ GroupClause(i).term = "group_score"
         /\ GroupClause(i).size = Magnitude(i, "group_score")
         /\ GroupClause(i).says \notin {"new", "turn"}
  BY DEF GroupClause, Clause

LEMMA LookedSizes ==
  ASSUME TypeOK, NEW i \in DOMAIN chosen, NEW x \in Looked(i)
  PROVE  x.size \in Nat
<1>1. /\ Magnitude(i, "group_score") \in Nat /\ Magnitude(i, "novelty_bonus") \in Nat
      /\ Magnitude(i, "fairness_bonus") \in Nat /\ Magnitude(i, "repetition_penalty") \in Nat
  BY MagnitudeType
<1>2. CASE x = GroupClause(i)
  BY <1>1, <1>2, GroupClauseIs
<1>3. /\ NoveltyClause(i).size = Magnitude(i, "novelty_bonus")
      /\ TurnClause(i).size = Magnitude(i, "fairness_bonus")
      /\ RepeatClause(i).size = Magnitude(i, "repetition_penalty")
  BY DEF NoveltyClause, TurnClause, RepeatClause, Clause
<1>4. QED
  BY <1>1, <1>2, <1>3 DEF Looked

\* A reason is made of clauses taken up, and one left out is not larger than any
\* that is in it.
LEMMA ReasonIs ==
  ASSUME TypeOK, NEW i \in DOMAIN chosen, NEW p \in DOMAIN Reason(i)
  PROVE  /\ Reason(i)[p] \in Range(Clauses(i))
         /\ \A x \in Range(Clauses(i)) :
              x.size <= Reason(i)[p].size \/ \E q \in DOMAIN Reason(i) : Reason(i)[q] = x
<1> PICK s : s = Clauses(i)
  OBVIOUS
<1> DEFINE n == Len(s)
           size == [a \in 1..n |-> s[a].size]
           kept == IF n < MaxClauses THEN n ELSE MaxClauses
<1>1. s \in Seq(Looked(i))
  BY ClausesAre
<1>2. n \in Nat /\ DOMAIN s = 1..n /\ kept \in Nat /\ kept <= n
  BY <1>1, ClausesAssumption
<1>3. size \in [1..n -> Int]
  <2>1. \A a \in 1..n : s[a] \in Looked(i)
    BY <1>1, ElementOfSeq
  <2>2. \A a \in 1..n : s[a].size \in Nat
    BY <2>1, LookedSizes
  <2>3. QED
    BY <2>2
<1>4. \A a \in 1..n : Ahead(s, a) = Cardinality(Places(size, n, a))
  <2> SUFFICES ASSUME NEW a \in 1..n
               PROVE  {b \in DOMAIN s : \/ s[b].size > s[a].size
                                        \/ s[b].size = s[a].size /\ b < a}
                        = Places(size, n, a)
    BY DEF Ahead
  <2>1. QED
    BY <1>2 DEF Places
<1>5. /\ DOMAIN Reason(i) = 1..kept
      /\ \A q \in 1..kept : Reason(i)[q] = s[CHOOSE a \in DOMAIN s : Ahead(s, a) = q - 1]
  BY DEF Reason
<1> HIDE DEF n, kept, size
<1>6. ASSUME NEW q \in 1..kept
      PROVE  \E a \in 1..n : Ahead(s, a) = q - 1 /\ Reason(i)[q] = s[a]
  <2>1. q \in 1..n
    BY <1>2
  <2>2. \E a \in 1..n : Cardinality(Places(size, n, a)) = q - 1
    BY <1>2, <1>3, <2>1, PlacesTaken
  <2>3. \E a \in DOMAIN s : Ahead(s, a) = q - 1
    BY <1>2, <1>4, <2>2
  <2>4. QED
    BY <1>2, <1>5, <2>3
<1>7. PICK b \in 1..n : Ahead(s, b) = p - 1 /\ Reason(i)[p] = s[b]
  BY <1>5, <1>6
<1>8. Reason(i)[p] \in Range(Clauses(i))
  BY <1>2, <1>7 DEF Range
<1>9. ASSUME NEW a \in 1..n,
             ~(s[a].size <= s[b].size)
      PROVE  \E q \in DOMAIN Reason(i) : Reason(i)[q] = s[a]
  <2>1. size[a] > size[b]
    BY <1>3, <1>9 DEF size
  <2>2. Ahead(s, a) < Ahead(s, b) /\ Ahead(s, a) \in Nat
    BY <1>2, <1>3, <1>4, <2>1, PlacesOrdered, PlacesFinite
  <2>3. Ahead(s, a) + 1 \in 1..kept
    BY <1>2, <1>5, <1>7, <2>2
  <2>4. PICK c \in 1..n : Ahead(s, c) = Ahead(s, a) /\ Reason(i)[Ahead(s, a) + 1] = s[c]
    BY <1>6, <2>2, <2>3
  <2>5. c = a
    <3> SUFFICES ASSUME c # a PROVE FALSE
      OBVIOUS
    <3>1. \/ size[c] > size[a] \/ (size[c] = size[a] /\ c < a)
          \/ size[a] > size[c] \/ (size[a] = size[c] /\ a < c)
      BY <1>2, <1>3
    <3>2. \/ Cardinality(Places(size, n, c)) < Cardinality(Places(size, n, a))
          \/ Cardinality(Places(size, n, a)) < Cardinality(Places(size, n, c))
      BY <1>2, <1>3, <3>1, PlacesOrdered
    <3>3. Cardinality(Places(size, n, c)) = Cardinality(Places(size, n, a))
      BY <1>4, <2>4
    <3>4. Cardinality(Places(size, n, a)) \in Nat
      BY <1>2, PlacesFinite
    <3>5. QED
      BY <3>2, <3>3, <3>4
  <2>6. QED
    BY <1>5, <2>3, <2>4, <2>5
<1>10. QED
  BY <1>2, <1>7, <1>8, <1>9 DEF Range

-----------------------------------------------------------------------------
(* The reasons of a finished list                                          *)

\* Whatever is taken up has moved the score, except for the group's clause about
\* a track that every member ranks last.
LEMMA ClauseMoved ==
  ASSUME TypeOK, NEW i \in DOMAIN chosen, NEW x \in Range(Clauses(i))
  PROVE  x.size # 0 \/ \A m \in members : scores[m][chosen[i].item] = 0
<1>1. CASE x = GroupClause(i)
  BY <1>1, GroupClauseIs, MagnitudeType
<1>2. CASE x # GroupClause(i)
  <2>1. /\ NoveltyClause(i).size = Magnitude(i, "novelty_bonus")
        /\ TurnClause(i).size = Magnitude(i, "fairness_bonus")
        /\ RepeatClause(i).size = Magnitude(i, "repetition_penalty")
    BY DEF NoveltyClause, TurnClause, RepeatClause, Clause
  <2>2. QED
    BY <1>2, <2>1, ClausesAre
<1>3. QED
  BY <1>1, <1>2

\* Who and what a clause names.
LEMMA ClauseNames ==
  ASSUME TypeOK, ServedInv, NEW i \in DOMAIN chosen, NEW x \in Range(Clauses(i))
  PROVE  /\ x.says = "new" => chosen[i].item \notin Heard
         /\ x.says = "turn" => \A u \in x.who, m \in members :
              ServedSoFar(u, i) <= ServedSoFar(m, i)
<1>1. /\ NoveltyClause(i).says # "turn"
      /\ NoveltyClause(i).says = "new" => NewToEveryone(chosen[i].item)
  BY DEF NoveltyClause, Clause
<1>2. TurnClause(i).says = "turn" /\ TurnClause(i).who = {chosen[i].served}
  BY DEF TurnClause, Clause, Turn
<1>3. RepeatClause(i).says \notin {"new", "turn"}
  BY DEF RepeatClause, Clause
<1>4. x \in {GroupClause(i), NoveltyClause(i), TurnClause(i), RepeatClause(i)}
  BY ClausesAre
<1>5. NewToEveryone(chosen[i].item) => chosen[i].item \notin Heard
  BY DEF NewToEveryone, Heard
<1>6. ASSUME NEW m \in members
      PROVE  ServedSoFar(chosen[i].served, i) <= ServedSoFar(m, i)
  <2>1. \A u \in members : Gained(chosen, scores, u, i) \in Nat
    <3>1. Len(chosen) \in Nat /\ DOMAIN chosen = 1..Len(chosen)
      BY DEF TypeOK
    <3>2. i \in Nat /\ 1..(i - 1) \subseteq DOMAIN chosen
      BY <3>1
    <3>3. QED
      BY <3>2, Given, GainedType
  <2>2. \/ Gained(chosen, scores, chosen[i].served, i) < Gained(chosen, scores, m, i)
        \/ Gained(chosen, scores, chosen[i].served, i) = Gained(chosen, scores, m, i)
    BY DEF ServedInv
  <2>3. \A u : ServedSoFar(u, i) = Gained(chosen, scores, u, i)
    BY DEF ServedSoFar, Gained
  <2>4. QED
    BY <2>1, <2>2, <2>3, SlotTypes
<1>7. QED
  BY <1>1, <1>2, <1>3, <1>4, <1>5, <1>6, GroupClauseIs

\* A term that is not named is not larger than one that is.
LEMMA UnnamedSmaller ==
  ASSUME TypeOK, NEW i \in DOMAIN chosen, NEW p \in DOMAIN Reason(i),
         NEW term \in {"group_score", "repetition_penalty", "novelty_bonus", "fairness_bonus"}
                        \ {Reason(i)[q].term : q \in DOMAIN Reason(i)}
  PROVE  Magnitude(i, term) <= Reason(i)[p].size \/ (term = "fairness_bonus" /\ Alone)
<1>1. ASSUME NEW x \in Range(Clauses(i)), x.term = term
      PROVE  x.size <= Reason(i)[p].size
  BY <1>1, ReasonIs
<1>2. Reason(i)[p].size \in Nat
  <2>1. Range(Clauses(i)) \subseteq Looked(i)
    BY ClausesAre DEF Looked
  <2>2. Reason(i)[p] \in Looked(i)
    BY <2>1, ReasonIs
  <2>3. QED
    BY <2>2, LookedSizes
<1>3. Magnitude(i, term) = 0 => Magnitude(i, term) <= Reason(i)[p].size
  BY <1>2
<1>4. CASE term = "group_score"
  BY <1>1, <1>4, ClausesAre, GroupClauseIs
<1>5. CASE term = "novelty_bonus"
  <2>1. NoveltyClause(i).term = term /\ NoveltyClause(i).size = Magnitude(i, term)
    BY <1>5 DEF NoveltyClause, Clause
  <2>2. QED
    BY <1>1, <1>3, <1>5, <2>1, ClausesAre
<1>6. CASE term = "fairness_bonus"
  <2>1. TurnClause(i).term = term /\ TurnClause(i).size = Magnitude(i, term)
    BY <1>6 DEF TurnClause, Clause
  <2>2. QED
    BY <1>1, <1>3, <1>6, <2>1, ClausesAre
<1>7. CASE term = "repetition_penalty"
  <2>1. RepeatClause(i).term = term /\ RepeatClause(i).size = Magnitude(i, term)
    BY <1>7 DEF RepeatClause, Clause
  <2>2. QED
    BY <1>1, <1>3, <1>7, <2>1, ClausesAre
<1>8. QED
  BY <1>4, <1>5, <1>6, <1>7

\* What only just clears the veto in force would not clear a stricter one.
LEMMA JustClears ==
  ASSUME TypeOK, SlotsInv, NEW i \in DOMAIN chosen, step = 1, ~Alone
  PROVE  OnlyJust(i) <=> chosen[i].item \notin
           {d \in pool : \A m \in members :
              100 * scores[m][d] >= (mode.tau + NarrowMargin) * Scale}
<1> DEFINE c == chosen[i].item
<1>1. c \in pool
  BY SlotTypes
<1>2. PICK s \in Nat : s = Scale
  BY <1>1, ScaleIs
<1>3. PICK tau \in Nat : tau = mode.tau
  BY Weights
<1>4. PICK least \in Nat : least = Minimum(c)
  BY <1>1, MinimumIs
<1>5. /\ \E m \in members : scores[m][c] = least
      /\ \A m \in members : least <= scores[m][c] /\ scores[m][c] \in Nat
  BY <1>1, <1>4, MinimumIs DEF TypeOK
<1>6. Tau(step) = tau
  BY <1>3, Weights DEF Tau, RelaxationSteps
<1>7. \A m \in members : 100 * scores[m][c] >= tau * s
  <2>1. c \in Survivors(Tau(step))
    BY DEF SlotsInv, ChosenItems
  <2>2. QED
    BY <1>2, <1>6, <2>1 DEF Survivors
<1> HIDE DEF c
<1>8. PICK t \in Nat : t = tau * s
  BY Product
<1>9. (mode.tau + NarrowMargin) * Scale = t + 12 * s
  BY <1>2, <1>3, <1>8 DEF NarrowMargin
<1>10. 100 * least >= t
  BY <1>5, <1>7, <1>8
<1>11. (\A m \in members : 100 * scores[m][c] >= t + 12 * s) <=> 100 * least >= t + 12 * s
  BY <1>5
<1>12. OnlyJust(i) <=> (100 * least - t >= 0 /\ 100 * least - t < 12 * s)
  BY <1>2, <1>3, <1>4, <1>8 DEF OnlyJust, NarrowMargin, c
<1>13. OnlyJust(i) <=> ~(\A m \in members : 100 * scores[m][c] >= t + 12 * s)
  BY <1>10, <1>11, <1>12
<1>14. QED
  BY <1>1, <1>9, <1>13 DEF c

\* The reasons given with a playlist hold: the terms named are those by which
\* the track won its slot against all the veto left, they moved its score and
\* nothing larger is left out; and what is said of members and of the veto is so.
THEOREM ReasonsAlwaysHold == Spec => []ReasonsHold
<1>1. TypeOK /\ SlotsInv /\ ServedInv /\ WonInv => ReasonsHold
  <2> SUFFICES ASSUME TypeOK, SlotsInv, ServedInv, WonInv, NEW i \in DOMAIN chosen
               PROVE  LET reason == Reason(i)
                          c == chosen[i].item
                          named == {reason[j].term : j \in DOMAIN reason} IN
         /\ WonItsSlot(i)
         /\ \A j \in DOMAIN reason :
              /\ reason[j].size # 0 \/ \A m \in members : scores[m][c] = 0
              /\ reason[j].says = "new" => c \notin Heard
              /\ reason[j].says = "turn" => \A u \in reason[j].who, m \in members :
                   ServedSoFar(u, i) <= ServedSoFar(m, i)
              /\ \A term \in DOMAIN Contributions(i, c) \ named :
                   Magnitude(i, term) <= reason[j].size \/ (term = "fairness_bonus" /\ Alone)
         /\ step = 1 /\ ~Alone =>
              (OnlyJust(i) <=> c \notin {d \in pool : \A m \in members :
                                 100 * scores[m][d] >= (mode.tau + NarrowMargin) * Scale})
    BY Zenon DEF ReasonsHold
  <2>1. WonItsSlot(i)
    BY WonIsBest
  <2>2. step = 1 /\ ~Alone =>
          (OnlyJust(i) <=> chosen[i].item \notin {d \in pool : \A m \in members :
                             100 * scores[m][d] >= (mode.tau + NarrowMargin) * Scale})
    BY JustClears
  <2>3. ASSUME NEW j \in DOMAIN Reason(i)
        PROVE  /\ Reason(i)[j].size # 0 \/ \A m \in members : scores[m][chosen[i].item] = 0
               /\ Reason(i)[j].says = "new" => chosen[i].item \notin Heard
               /\ Reason(i)[j].says = "turn" => \A u \in Reason(i)[j].who, m \in members :
                    ServedSoFar(u, i) <= ServedSoFar(m, i)
    <3>1. Reason(i)[j] \in Range(Clauses(i))
      BY ReasonIs
    <3>2. QED
      BY <3>1, ClauseMoved, ClauseNames
  <2>4. ASSUME NEW j \in DOMAIN Reason(i),
               NEW term \in DOMAIN Contributions(i, chosen[i].item)
                              \ {Reason(i)[q].term : q \in DOMAIN Reason(i)}
        PROVE  Magnitude(i, term) <= Reason(i)[j].size \/ (term = "fairness_bonus" /\ Alone)
    <3>1. DOMAIN Contributions(i, chosen[i].item)
            = {"group_score", "repetition_penalty", "novelty_bonus", "fairness_bonus"}
      BY SlotTypes, ContributionsAre
    <3>2. QED
      BY <3>1, UnnamedSmaller
  <2>5. QED
    BY <2>1, <2>2, <2>3, <2>4, Zenon
<1>2. QED
  BY <1>1, SlotsInvariant, ServedInvariant, WonInvariant, PTL
=============================================================================
