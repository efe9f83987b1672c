------------------------------ MODULE Generate ------------------------------
(***************************************************************************)
(* One playlist: RecommenderService.generate over group.select             *)
(* (services/recommender.py, engine/group.py), asked for once and again.   *)
(*                                                                         *)
(* The computation runs inside one handler, so its steps interleave with   *)
(* nothing; they are steps here because each slot depends on the last: a   *)
(* pool is gathered, slots are filled one at a time, and a pass that falls *)
(* short of k starts again with a looser veto.                             *)
(*                                                                         *)
(* Scores are exact integers.  A rank percentile a/(2(n-1)) is its         *)
(* numerator a; weights and thresholds are hundredths.  Rounding of the    *)
(* code's doubles is out of scope.                                         *)
(***************************************************************************)
EXTENDS Integers, FiniteSets, Sequences, Functions

CONSTANTS
  Items,                \* catalogue columns: naturals, in column order
  Artist,               \* the first artist of each
  Popularity,           \* plays of each, by everybody in the snapshot
  MaxRoom,              \* bound: members of the room
  Tastes,               \* the score vectors the fitted model gives members
  Histories,            \* the sets of items members have heard
  Lengths,              \* the playlist lengths asked for
  CandidatesPerMember,  \* per_member
  PopularityPool,       \* POPULARITY_POOL
  MinPool,              \* MIN_POOL
  MaxRuns               \* bound: times the same room asks

ASSUME CatalogueAssumption == IsFiniteSet(Items) /\ Items \subseteq Nat /\ Items # {}
ASSUME PopularityAssumption == Popularity \in [Items -> Nat]
ASSUME HistoriesAssumption == Histories \subseteq SUBSET Items
ASSUME LengthsAssumption == Lengths \subseteq Nat \ {0}
ASSUME PoolAssumption == MinPool \in Nat \ {0}
ASSUME RunsAssumption == MaxRuns \in Nat

\* The fitted modes: alpha, tau_veto, lambda_rep, lambda_nov, lambda_fair.
\* lambda_div weighs item_similarity, which generate never passes.
Modes ==
  {[name |-> "consensus",     alpha |-> 100, tau |-> 35, rep |-> 25, nov |-> 0,  fair |-> 45],
   [name |-> "discovery",     alpha |-> 70,  tau |-> 25, rep |-> 25, nov |-> 35, fair |-> 45],
   [name |-> "fair_rotation", alpha |-> 70,  tau |-> 35, rep |-> 25, nov |-> 0,  fair |-> 45]}

RepetitionWindow == 5

\* Mutant: the last step is missing.
RelaxationStepsShort == <<0, 10, 20>>

RelaxationSteps == <<0, 10, 20, 35>>

VARIABLES
  members,     \* the room: 1..n, in the order _members returns them
  raw, heard,  \* per member: model scores, and what the snapshot says they played
  mode, k,
  phase,       \* "asked", "selecting", "done"
  pool,        \* candidate columns
  scores,      \* GroupScores.matrix
  novelty,
  step,        \* index into RelaxationSteps
  available, chosen, cumulative,   \* the locals of select
  seed,        \* the salt: how many playlists the room already has
  previous     \* the items of the playlist before this one

request == <<members, raw, heard, mode, k>>
ranking == <<pool, scores, novelty>>
vars == <<request, phase, ranking, step, available, chosen, cumulative, seed, previous>>

Heard == UNION {heard[m] : m \in members}

ItemsOf(list) == [i \in DOMAIN list |-> list[i].item]

TypeOK ==
  /\ members \in {1..n : n \in 1..MaxRoom}
  /\ raw \in [members -> Tastes]
  /\ heard \in [members -> Histories]
  /\ mode \in Modes
  /\ k \in Lengths
  /\ phase \in {"asked", "selecting", "done"}
  /\ pool \in SUBSET Items
  /\ scores \in [members -> [pool -> Nat]]
  /\ novelty \in [pool -> Nat]
  /\ step \in DOMAIN RelaxationSteps
  /\ available \in SUBSET pool
  /\ chosen \in Seq([item : pool, served : members])
  /\ cumulative \in [members -> Nat]
  /\ seed \in 0..MaxRuns
  /\ previous \in Seq(Items)

Init ==
  /\ members \in {1..n : n \in 1..MaxRoom}
  /\ raw \in [members -> Tastes]
  /\ heard \in [members -> Histories]
  /\ mode \in Modes
  /\ k \in Lengths
  /\ phase = "asked"
  /\ pool = {}
  /\ scores = [m \in members |-> [c \in {} |-> 0]]
  /\ novelty = [c \in {} |-> 0]
  /\ step = 1
  /\ available = {}
  /\ chosen = <<>>
  /\ cumulative = [m \in members |-> 0]
  /\ seed = 0
  /\ previous = <<>>

-----------------------------------------------------------------------------
(* The candidate pool                                                      *)

\* The first n of S by descending value, ties to the lower column.
Top(n, value, S) ==
  {c \in S : Cardinality({d \in S : \/ value[d] > value[c]
                                    \/ value[d] = value[c] /\ d < c}) < n}

Candidates ==
  (Top(PopularityPool, Popularity, Items)
     \cup UNION {Top(CandidatesPerMember, raw[m], Items) : m \in members}) \ Heard

\* Mutant: no top-up.
PoolWithoutTopUp == Candidates

\* Mutant: the top-up forgets what has been heard.
PoolWithHeard ==
  Candidates \cup Top(MinPool - Cardinality(Candidates), Popularity, Items \ Candidates)

\* "Top up from the wider catalogue if exclusions left the pool thin."
Pool ==
  Candidates \cup Top(MinPool - Cardinality(Candidates), Popularity,
                      Items \ (Heard \cup Candidates))

\* Mutant: ranks start below zero.
RankFromBelow(value, S, c) ==
  2 * Cardinality({d \in S : value[d] < value[c]})
  + Cardinality({d \in S : value[d] = value[c]}) - 2

\* The numerator of rank_percentile over 2(n-1): ties share the average rank,
\* and a pool of one item is everybody's favourite.
Rank(value, S, c) ==
  IF Cardinality(S) = 1 THEN 1
  ELSE 2 * Cardinality({d \in S : value[d] < value[c]})
       + Cardinality({d \in S : value[d] = value[c]}) - 1

Scale == IF Cardinality(pool) = 1 THEN 1 ELSE 2 * (Cardinality(pool) - 1)

-----------------------------------------------------------------------------
(* The veto                                                                *)

\* max(0, tau_veto + adjustment)
Tau(s) == IF mode.tau > RelaxationSteps[s] THEN mode.tau - RelaxationSteps[s] ELSE 0

\* Mutant: one member above tau is enough.
SurvivorsOfAny(tau) == {c \in pool : \E m \in members : 100 * scores[m][c] >= tau * Scale}

\* apply_veto: dropped outright if any member scores it below tau.
Survivors(tau) == {c \in pool : \A m \in members : 100 * scores[m][c] >= tau * Scale}

-----------------------------------------------------------------------------
(* One slot                                                                *)

Minimum(c) == CHOOSE x \in {scores[m][c] : m \in members} : \A m \in members : x <= scores[m][c]

Sum(c) == SumFunctionOnSet([m \in members |-> scores[m][c]], members)

\* How often the artist was heard in the last slots.
Repeats(c) ==
  Cardinality({i \in DOMAIN chosen : /\ i > Len(chosen) - RepetitionWindow
                                     /\ Artist[chosen[i].item] = Artist[c]})

\* The sum of the named terms, over their common denominator.
Total(c, neediest) ==
  LET n == Cardinality(members) IN
  mode.alpha * Sum(c)
  + (100 - mode.alpha) * n * Minimum(c)
  - mode.rep * n * Scale * Repeats(c)
  + mode.nov * n * novelty[c]
  + mode.fair * n * scores[neediest][c]

\* argmin: the member served least so far, the first of those tied.
IsNeediest(u) ==
  \A v \in members : \/ cumulative[u] < cumulative[v]
                     \/ cumulative[u] = cumulative[v] /\ u <= v

\* "An exact tie keeps the lower candidate id."
IsBest(c, total) ==
  \A d \in available : total[d] < total[c] \/ (total[d] = total[c] /\ c <= d)

-----------------------------------------------------------------------------
(* Steps                                                                   *)

\* Mutant: the totals of the pass before are kept.
StartPassOn(s) ==
  /\ step' = s
  /\ chosen' = <<>>
  /\ cumulative' = [m \in members |-> cumulative[m]]

\* What select starts from, with the veto at step s.
StartPass(s) ==
  /\ step' = s
  /\ chosen' = <<>>
  /\ cumulative' = [m \in members |-> 0]

Gather ==
  /\ phase = "asked"
  /\ UNCHANGED <<request, seed, previous>>
  /\ pool' = Pool
  /\ scores' = [m \in members |-> [c \in pool' |-> Rank(raw[m], pool', c)]]
  /\ novelty' = [c \in pool' |-> Rank([d \in Items |-> -Popularity[d]], pool', c)]
  /\ StartPass(1)
  /\ available' = Survivors(Tau(1))'
  /\ phase' = IF pool' = {} THEN "done" ELSE "selecting"

PickSlot ==
  /\ phase = "selecting"
  /\ Len(chosen) < k
  /\ \E u \in members, c \in available :
       /\ IsNeediest(u)
       /\ IsBest(c, [d \in available |-> Total(d, u)])
       /\ chosen' = Append(chosen, [item |-> c, served |-> u])
       /\ cumulative' = [m \in members |-> cumulative[m] + scores[m][c]]
       /\ available' = available \ {c}
  /\ UNCHANGED <<request, phase, ranking, step, seed, previous>>

\* Mutant: running out of candidates does not end a pass.
PassOverFull == phase = "selecting" /\ Len(chosen) >= k

PassOver == phase = "selecting" /\ (Len(chosen) >= k \/ available = {})

\* Mutant: a full list is relaxed too.
RelaxAlways ==
  /\ PassOver
  /\ step < Len(RelaxationSteps)
  /\ StartPass(step + 1)
  /\ available' = Survivors(Tau(step + 1))
  /\ UNCHANGED <<request, phase, ranking, seed, previous>>

Relax ==
  /\ PassOver
  /\ Len(chosen) < k
  /\ step < Len(RelaxationSteps)
  /\ StartPass(step + 1)
  /\ available' = Survivors(Tau(step + 1))
  /\ UNCHANGED <<request, phase, ranking, seed, previous>>

Finish ==
  /\ PassOver
  /\ Len(chosen) >= k \/ step = Len(RelaxationSteps)
  /\ phase' = "done"
  /\ UNCHANGED <<request, ranking, step, available, chosen, cumulative, seed, previous>>

\* The same room asks again, nothing having changed but its playlist count.
Regenerate ==
  /\ phase = "done"
  /\ seed + 1 < MaxRuns
  /\ seed' = seed + 1
  /\ previous' = ItemsOf(chosen)
  /\ phase' = "asked"
  /\ UNCHANGED <<request, ranking, step, available, chosen, cumulative>>

Next == Gather \/ PickSlot \/ Relax \/ Finish \/ Regenerate

\* The handler runs to its end; nobody need ask again.
Spec == Init /\ [][Next]_vars /\ WF_vars(Gather \/ PickSlot \/ Relax \/ Finish)

-----------------------------------------------------------------------------
(* Properties                                                              *)

ChosenItems == {chosen[i].item : i \in DOMAIN chosen}

\* recommender.RELAXATION_STEPS: however divided the room, the playlist is as
\* long as was asked or holds the whole pool, once each.
PlaylistFills ==
  phase = "done" =>
    /\ Cardinality(ChosenItems) = Len(chosen)
    /\ Len(chosen) = k \/ (Len(chosen) < k /\ ChosenItems = pool)

\* apply_veto: "no combination of other terms can override it".
NobodyOverruled ==
  \A c \in ChosenItems, m \in members : 100 * scores[m][c] >= Tau(step) * Scale

\* The threshold is never looser than the first one that fills the playlist.
RelaxedOnlyAfterShortage ==
  phase # "asked" /\ step > 1 =>
    \A s \in 1..(step - 1) : Cardinality(Survivors(Tau(s))) < k

\* generate: nobody is played what the snapshot says they have heard, not even
\* by the top-up.
NothingHeard == pool \cap Heard = {}

\* generate_playlist's 422: "the catalogue has nothing left that every member
\* could hear", and only then.
EmptyMeansAllHeard == phase = "done" /\ chosen = <<>> => Heard = Items

\* What the list up to slot i has given member m.
ServedSoFar(m, i) ==
  SumFunctionOnSet([j \in 1..(i - 1) |-> scores[m][chosen[j].item]], 1..(i - 1))

\* SelectedTrack.served_member: the member a reason names is the one served
\* least by the tracks before it, the first of those tied.
ServedLeast ==
  phase # "asked" =>
    \A i \in DOMAIN chosen : \A m \in members :
      LET named == ServedSoFar(chosen[i].served, i)
          other == ServedSoFar(m, i)
      IN  named < other \/ (named = other /\ chosen[i].served <= m)

\* The handler answers, whatever the room.
Answers == (phase = "asked") ~> (phase = "done")

\* generate_playlist: salted "so "regenerate" actually produces something new
\* rather than the same list again".
RegenerateIsNew ==
  phase = "done" /\ seed > 0 /\ Len(chosen) > 0 => ItemsOf(chosen) # previous

\* generate: "Relax only as far as needed to fill the playlist": with the veto
\* reported relaxed, somebody in it is played a track the strict floor refuses.
RelaxedOnlyAsNeeded ==
  phase = "done" /\ Tau(step) < mode.tau => ~(ChosenItems \subseteq Survivors(mode.tau))
=============================================================================
