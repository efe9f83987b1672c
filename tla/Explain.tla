------------------------------ MODULE Explain ------------------------------
(***************************************************************************)
(* The reason given with each track of a playlist (engine/explain.py),     *)
(* made when generate has chosen them all, from the terms by which each    *)
(* was chosen (SelectedTrack.contributions).                               *)
(*                                                                         *)
(* A clause is what it says, of which members, and the term it is there    *)
(* for.  Terms are over the common denominator of Generate!Total.  Clauses *)
(* of equal terms are ordered by their spelling in the code, and here by   *)
(* the order in which it looks at them.                                    *)
(***************************************************************************)
EXTENDS Generate

CONSTANTS
  GenresOf,     \* item_genres: of each catalogue column
  Stated,       \* _stated_genres: of each member, by number
  MaxClauses

ASSUME ClausesAssumption == MaxClauses \in Nat

NarrowMargin == 12   \* hundredths, as the thresholds

-----------------------------------------------------------------------------
(* What the ranker knew of the track in slot i                             *)

\* The contributions of column c, had it been taken for slot i.
Contributions(i, c) ==
  LET n == Cardinality(members)
      window == {j \in DOMAIN chosen : j < i /\ j >= i - RepetitionWindow}
      repeats == Cardinality({j \in window : Artist[chosen[j].item] = Artist[c]}) IN
  [group_score        |-> mode.alpha * Sum(c) + (100 - mode.alpha) * n * Minimum(c),
   repetition_penalty |-> -(mode.rep * n * Scale * repeats),
   novelty_bonus      |-> mode.nov * n * novelty[c],
   fairness_bonus     |-> mode.fair * n * scores[chosen[i].served][c]]

Magnitude(i, term) ==
  LET x == Contributions(i, chosen[i].item)[term] IN IF x < 0 THEN -x ELSE x

-----------------------------------------------------------------------------
(* group_facts                                                             *)

\* Who is known to like a genre: from what they played and what they said.
Likes(m, genre) == genre \in Stated[m] \cup UNION {GenresOf[d] : d \in heard[m]}
Fans(genre) == {m \in members : Likes(m, genre)}
Frequency(genre) == Cardinality({d \in Items : genre \in GenresOf[d]})

\* The genre that most members share and, of several, the rarest.
TopGenre(c) ==
  LET shared == {g \in GenresOf[c] : Fans(g) # {}} IN
  CHOOSE g \in shared : \A h \in shared :
    \/ Cardinality(Fans(g)) > Cardinality(Fans(h))
    \/ Cardinality(Fans(g)) = Cardinality(Fans(h)) /\ Frequency(g) <= Frequency(h)

BestMember(c) ==
  CHOOSE m \in members : \A u \in members :
    scores[m][c] > scores[u][c] \/ (scores[m][c] = scores[u][c] /\ m <= u)

NewToEveryone(c) == \A m \in members : c \notin heard[m]

-----------------------------------------------------------------------------
(* explain                                                                 *)

Clause(i, term, says, who) ==
  [term |-> term, size |-> Magnitude(i, term), says |-> says, who |-> who]
When(condition, clause) == IF condition THEN <<clause>> ELSE <<>>
Alone == Cardinality(members) = 1

\* Always there: in a room of one nobody is closest.
GroupClause(i) ==
  LET c == chosen[i].item IN
  CASE \E g \in GenresOf[c] : Fans(g) # {} -> Clause(i, "group_score", "likes", Fans(TopGenre(c)))
    [] OTHER -> IF Alone THEN Clause(i, "group_score", "your profile", {})
                         ELSE Clause(i, "group_score", "closest", {BestMember(c)})

\* Mutant: the member named is the one who ranks the track lowest.
TurnOfLowest(i) ==
  {CHOOSE m \in members : \A u \in members : scores[m][chosen[i].item] <= scores[u][chosen[i].item]}

\* "The member the *ranker* served, not the lowest scorer on this track."
Turn(i) == {chosen[i].served}

Clauses(i) ==
  LET Moved(term) == Magnitude(i, term) # 0 IN
  <<GroupClause(i)>>
  \o When(Moved("novelty_bonus"),
          Clause(i, "novelty_bonus",
                 IF NewToEveryone(chosen[i].item) THEN "new" ELSE "less familiar", {}))
  \o When(Moved("fairness_bonus") /\ ~Alone, Clause(i, "fairness_bonus", "turn", Turn(i)))
  \o When(Moved("repetition_penalty"), Clause(i, "repetition_penalty", "repeats", {}))

\* How many clauses come before the one at place a.
Ahead(clauses, a) ==
  Cardinality({b \in DOMAIN clauses : \/ clauses[b].size > clauses[a].size
                                      \/ clauses[b].size = clauses[a].size /\ b < a})

\* The first of them by size.
Reason(i) ==
  LET clauses == Clauses(i)
      kept == IF Len(clauses) < MaxClauses THEN Len(clauses) ELSE MaxClauses IN
  [p \in 1..kept |-> clauses[CHOOSE a \in DOMAIN clauses : Ahead(clauses, a) = p - 1]]

\* "It only just clears everyone's threshold": of the mode, in hundredths
\* of the scale.
OnlyJust(i) ==
  LET margin == 100 * Minimum(chosen[i].item) - mode.tau * Scale IN
  ~Alone /\ margin >= 0 /\ margin < NarrowMargin * Scale

-----------------------------------------------------------------------------
(* Properties                                                              *)

\* The terms that a reason is made of are the ones the track won its slot by.
\* Computed again from the finished list, their sum is not less than that of
\* any other track the veto left, and a tie is the lower column's.
WonItsSlot(i) ==
  LET Score(c) == LET t == Contributions(i, c) IN
                  t.group_score + t.repetition_penalty + t.novelty_bonus + t.fairness_bonus
      won == chosen[i].item IN
  \A c \in Survivors(Tau(step)) \ {chosen[j].item : j \in 1..(i - 1)} :
    Score(c) < Score(won) \/ (Score(c) = Score(won) /\ won <= c)

\* explain: "a clause may only appear if the term it describes actually moved
\* the score", except that of a track which every member ranks last; and a
\* term that moved it more than one that is named is named, except that
\* nobody's turn comes in a room of one.  Who is named has been served least
\* by the list so far, what is new has been heard by nobody and, unless the
\* veto was relaxed, what only just clears it would not clear a stricter one.
ReasonsHold ==
  phase = "done" => \A i \in DOMAIN chosen :
    LET reason == Reason(i)
        c == chosen[i].item
        named == {reason[j].term : j \in DOMAIN reason} IN
    /\ WonItsSlot(i)
    /\ \A j \in DOMAIN reason :
         /\ reason[j].size # 0 \/ \A m \in members : scores[m][c] = 0
         /\ reason[j].says = "new" => c \notin Heard
         /\ reason[j].says = "turn" => \A u \in reason[j].who, m \in members :
              ServedSoFar(u, i) <= ServedSoFar(m, i)
         /\ \A term \in DOMAIN Contributions(i, c) \ named :
              Magnitude(i, term) <= reason[j].size \/ (term = "fairness_bonus" /\ Alone)
    /\ step = 1 /\ ~Alone =>
         (OnlyJust(i) <=> c \notin {d \in pool : \A m \in members :
                                     100 * scores[m][d] >= (mode.tau + NarrowMargin) * Scale})
=============================================================================
