-------------------------- MODULE CatalogueProofs --------------------------
(***************************************************************************)
(* Proofs about Catalogue, for any dumps and charts and any number of runs *)
(* of the scripts, resets and playlists.                                   *)
(***************************************************************************)
EXTENDS Catalogue, FiniteSetTheorems, WellFoundedInduction, TLAPS

\* What the listens, the snapshot and the generation under way still find in
\* the catalogue: a snapshot fitted since the last reset, all of it.
FitInv ==
  /\ era \in Nat /\ fit.era \in Nat /\ fit.era <= era
  /\ fit.era = era => fit.recordings \subseteq recordings

GenerationInv ==
  /\ generation.stage # "none" =>
       /\ generation.era \in Nat /\ generation.era <= era
       /\ generation.era = era => generation.tracks \subseteq recordings
       /\ generation.tracks # {}
  /\ generation.stage = "failed" => generation.era < era
  /\ generation.stage = "aborted" => \E r, s \in generation.tracks : r # s

\* What a generation has locked stays: a reset that has deleted every recording
\* holds up all generations, and deletes every playlist there is when it commits.
ResetInv ==
  /\ generation.locked \subseteq generation.tracks \cap recordings
  /\ generation.locked \cap reset.gone = {}
  /\ generation.locked # {} => generation.stage = "flushed"
  /\ reset.stage = "cleared" => reset.gone = recordings /\ playlists \subseteq reset.doomed
  /\ crawl = NoCrawl \/ reset = NoReset

ShapeInv ==
  /\ {"stage", "gone", "doomed"} \subseteq DOMAIN reset
  /\ {"stage", "tracks", "locked", "era"} \subseteq DOMAIN generation

PlaylistInv == \A p \in playlists : p.tracks # {} /\ p.tracks \subseteq recordings

ListensInv == \A l \in listens : l[2] \in recordings

Inv == FitInv /\ GenerationInv /\ ShapeInv /\ ResetInv /\ PlaylistInv /\ ListensInv

LEMMA InitInv == Init => Inv
BY DEF Init, Inv, FitInv, GenerationInv, ShapeInv, ResetInv, PlaylistInv, ListensInv, NoFit,
       NoGeneration, NoReset

\* A seeded listener has heard nothing but what he may be seeded with.
LEMMA HistoriesAreOfItems ==
  ASSUME NEW plays, NEW items, NEW least,
         NEW slot \in DOMAIN Histories(plays, items, least),
         NEW n \in Histories(plays, items, least)[slot]
  PROVE  n \in items
<1> DEFINE Of(u) == {p.item : p \in {p \in plays : p.user = u /\ p.item \in items}}
           users == {u \in {p.user : p \in plays} : Cardinality(Of(u)) >= least}
           ranked == Ranked(users, [u \in users |-> Cardinality(Of(u))])
           slots == 1..SmallestOf(MaxHistories, users)
<1>1. \A u : Of(u) \subseteq items
  OBVIOUS
<1>2. Histories(plays, items, least) = [s \in slots |-> Of(ranked[s])]
  BY DEF Histories
<1>3. Histories(plays, items, least)[slot] = Of(ranked[slot])
  <2> HIDE DEF slots, ranked, Of
  <2>1. slot \in slots
    BY <1>2
  <2>2. QED
    BY <1>2, <2>1
<1>4. QED
  BY <1>1, <1>3

\* Steps that leave the catalogue what it is, or let it grow.
LEMMA GrowingStep ==
  ASSUME Inv, recordings \subseteq recordings', ListensInv',
         UNCHANGED <<playlists, fit, generation, era>>,
         \/ UNCHANGED <<recordings, reset, crawl>>
         \/ reset' = NoReset
         \/ crawl' = NoCrawl /\ reset' = [NoReset EXCEPT !.stage = "begun"]
  PROVE  Inv'
<1>1. FitInv' /\ GenerationInv' /\ PlaylistInv'
  BY DEF Inv, FitInv, GenerationInv, PlaylistInv
<1>2. ResetInv' /\ ShapeInv'
  <2>1. reset'.gone = {} \/ UNCHANGED <<recordings, reset>>
    BY DEF NoReset
  <2>2. crawl' = NoCrawl \/ reset' = NoReset
    BY DEF Inv, ResetInv
  <2>3. reset'.stage = "cleared" => UNCHANGED <<recordings, reset>>
    BY DEF NoReset
  <2>4. {"stage", "gone", "doomed"} \subseteq DOMAIN reset'
    BY DEF Inv, ShapeInv, NoReset
  <2>5. QED
    BY <2>1, <2>2, <2>3, <2>4 DEF Inv, ResetInv, ShapeInv
<1>3. QED
  BY <1>1, <1>2 DEF Inv

LEMMA ImportedListens ==
  ASSUME NEW old, NEW oldCredits, NEW oldTagged, NEW oldInherited, NEW oldListens, NEW e,
         Imported(old, oldCredits, oldTagged, oldInherited, oldListens, e),
         \A l \in oldListens : l[2] \in old
  PROVE  old \subseteq recordings' /\ ListensInv'
<1> DEFINE items == ItemsRead
           kept == Kept(items, PlaysRead)
           RowAt(n) == [id |-> items[n], era |-> e]
           histories == Histories(PlaysRead, kept, MinHistory)
           New(slot) == {<<slot, RowAt(n)>> : n \in histories[slot]}
<1>1. recordings' = old \cup {RowAt(n) : n \in kept}
  BY DEF Imported
<1>2. listens' = oldListens \cup UNION {New(slot) : slot \in DOMAIN histories}
  BY DEF Imported
<1>3. ASSUME NEW l \in listens', l \notin oldListens
      PROVE  l[2] \in recordings'
  <2>1. PICK slot \in DOMAIN histories : l \in New(slot)
    BY <1>2, <1>3
  <2>2. PICK n \in histories[slot] : l = <<slot, RowAt(n)>>
    BY <2>1
  <2>3. n \in kept
    BY <2>2, HistoriesAreOfItems
  <2>4. l[2] = RowAt(n)
    BY <2>2
  <2>5. QED
    BY <1>1, <2>3, <2>4
<1>4. QED
  BY <1>1, <1>3 DEF ListensInv

LEMMA ImportStep == Inv /\ Import => Inv'
<1> SUFFICES ASSUME Inv, Import PROVE Inv'
  OBVIOUS
<1>1. Imported(recordings, credits, tagged, inherited, listens, era)
  BY DEF Import
<1>2. recordings \subseteq recordings' /\ ListensInv'
  BY <1>1, ImportedListens DEF Inv, ListensInv
<1>3. reset' = NoReset /\ UNCHANGED <<playlists, fit, generation, era>>
  BY DEF Import, Run, Quiet, api
<1>4. QED
  BY <1>2, <1>3, GrowingStep

LEMMA SeedsStep == Inv /\ Seeds => Inv'
<1> SUFFICES ASSUME Inv, Seeds PROVE Inv'
  OBVIOUS
<1> DEFINE items == ItemsRead
           found == {n \in DOMAIN items : \E r \in recordings : items[n] \in KeysOf(r)}
           histories == Histories(PlaysRead, found, MinHistory)
<1>1. UNCHANGED <<recordings, crawl, playlists, fit, generation, reset, era>>
  BY DEF Seeds, files, api
<1>2. PICK row \in [found -> recordings], old \in {listens, {l \in listens : l[1] = Member}} :
        listens' = old \cup
          UNION {{<<slot, row[n]>> : n \in histories[slot]} : slot \in DOMAIN histories}
  BY DEF Seeds
<1>3. ASSUME NEW l \in listens' PROVE l[2] \in recordings'
  <2>1. CASE l \in old
    BY <2>1, <1>1, <1>2 DEF Inv, ListensInv
  <2>2. CASE l \notin old
    <3>1. PICK slot \in DOMAIN histories : l \in {<<slot, row[n]>> : n \in histories[slot]}
      BY <1>2, <2>2
    <3>2. PICK n \in histories[slot] : l = <<slot, row[n]>>
      BY <3>1
    <3>3. n \in found
      BY <3>2, HistoriesAreOfItems
    <3>4. row[n] \in recordings
      BY <1>2, <3>3
    <3>5. l[2] = row[n]
      BY <3>2
    <3>6. QED
      BY <3>4, <3>5, <1>1
  <2>3. QED
    BY <2>1, <2>2
<1>4. ListensInv'
  BY <1>3 DEF ListensInv
<1>5. QED
  BY <1>1, <1>4, GrowingStep

LEMMA CrawlWritesStep == Inv /\ CrawlWrites => Inv'
<1> SUFFICES ASSUME Inv, CrawlWrites PROVE Inv'
  OBVIOUS
<1>1. /\ recordings \subseteq recordings'
      /\ UNCHANGED <<listens, playlists, fit, generation, reset, era>>
  BY DEF CrawlWrites, api
<1>2. ListensInv'
  BY <1>1 DEF Inv, ListensInv
<1>3. crawl # NoCrawl
  BY DEF CrawlWrites, NoCrawl
<1>4. reset' = NoReset
  BY <1>1, <1>3 DEF Inv, ResetInv
<1>5. QED
  BY <1>1, <1>2, <1>4, GrowingStep

LEMMA ResetCommitsStep == Inv /\ ResetCommits => Inv'
<1> SUFFICES ASSUME Inv, ResetCommits PROVE Inv'
  OBVIOUS
<1>1. /\ reset.stage = "cleared" /\ reset' = NoReset /\ era' = era + 1
      /\ playlists' = {[p EXCEPT !.tracks = {}] : p \in playlists \ reset.doomed}
      /\ UNCHANGED <<fit, generation>>
      /\ Imported({}, {}, {}, {}, {}, era + 1)
  BY DEF ResetCommits
<1>2. playlists' = {}
  BY <1>1 DEF Inv, ResetInv
<1>3. ListensInv'
  BY <1>1, ImportedListens
<1>4. FitInv'
  BY <1>1 DEF Inv, FitInv
<1>5. GenerationInv'
  BY <1>1 DEF Inv, FitInv, GenerationInv
<1>6. generation.locked = {}
  BY <1>1 DEF Inv, ResetInv
<1>7. PlaylistInv' /\ ShapeInv' /\ ResetInv'
  BY <1>1, <1>2, <1>6 DEF Inv, PlaylistInv, ShapeInv, ResetInv, NoReset
<1>8. QED
  BY <1>3, <1>4, <1>5, <1>7 DEF Inv

\* A reset takes no row that a generation has locked.
LEMMA ResetDeletesStep ==
  ASSUME Inv, ResetDeletes \/ ResetClears
  PROVE  Inv'
<1>1. UNCHANGED <<crawl, recordings, listens, playlists, fit, generation, era>>
  BY DEF ResetDeletes, ResetClears, files, content, api
<1>2. reset # NoReset
  BY DEF ResetDeletes, ResetClears, NoReset
<1>3. FitInv' /\ GenerationInv' /\ PlaylistInv' /\ ListensInv'
  BY <1>1 DEF Inv, FitInv, GenerationInv, PlaylistInv, ListensInv
<1>4. ResetInv' /\ ShapeInv'
  <2>1. CASE ResetDeletes
    <3>1. PICK r \in recordings \ (reset.gone \cup generation.locked) :
            reset' = [reset EXCEPT !.gone = @ \cup {r}]
      BY <2>1 DEF ResetDeletes
    <3>2. /\ reset'.gone = reset.gone \cup {r} /\ reset'.stage = "begun"
          /\ {"stage", "gone", "doomed"} \subseteq DOMAIN reset'
      BY <2>1, <3>1 DEF ResetDeletes, Inv, ShapeInv
    <3>3. QED
      BY <1>1, <1>2, <3>1, <3>2 DEF Inv, ResetInv, ShapeInv
  <2>2. CASE ResetClears
    <3>1. /\ reset.gone = recordings
          /\ reset' = [reset EXCEPT !.stage = "cleared", !.doomed = playlists]
      BY <2>2 DEF ResetClears
    <3>2. /\ reset'.gone = reset.gone /\ reset'.doomed = playlists
          /\ {"stage", "gone", "doomed"} \subseteq DOMAIN reset'
      BY <3>1 DEF Inv, ShapeInv
    <3>3. QED
      BY <1>1, <1>2, <3>1, <3>2 DEF Inv, ResetInv, ShapeInv
  <2>3. QED
    BY <2>1, <2>2
<1>5. QED
  BY <1>3, <1>4 DEF Inv

LEMMA FitsStep == Inv /\ (Fits \/ Restarts) => Inv'
BY DEF Inv, FitInv, GenerationInv, ShapeInv, ResetInv, PlaylistInv, ListensInv, Fits, Restarts, NoFit,
       NoGeneration, files, content

\* The flushed tracks are of the snapshot, so they can only be missing if the
\* catalogue was reset after it was fitted.
LEMMA GenerateStep ==
  ASSUME Inv, GenerateFlushes \/ GenerateInserts \/ GenerateCommits
  PROVE  Inv'
<1>1. UNCHANGED <<crawl, recordings, listens, fit, reset, era>>
  BY DEF GenerateFlushes, GenerateInserts, GenerateCommits, files, content
<1>2. FitInv' /\ ListensInv'
  BY <1>1 DEF Inv, FitInv, ListensInv
<1>3. CASE GenerateFlushes
  <2>1. PICK tracks \in (SUBSET fit.recordings) \ {{}} :
          generation' = [stage |-> "flushed", tracks |-> tracks, locked |-> {}, era |-> fit.era]
    BY <1>3 DEF GenerateFlushes
  <2>2. GenerationInv' /\ ShapeInv'
    BY <2>1, <1>1 DEF Inv, FitInv, GenerationInv, ShapeInv
  <2>3. UNCHANGED playlists /\ generation'.locked = {}
    BY <1>3, <2>1 DEF GenerateFlushes
  <2>4. ResetInv' /\ PlaylistInv'
    BY <2>3, <1>1 DEF Inv, ResetInv, PlaylistInv
  <2>5. QED
    BY <1>2, <2>2, <2>4 DEF Inv
<1>4. CASE GenerateInserts
  <2>1. generation.stage = "flushed" /\ UNCHANGED playlists
    BY <1>4 DEF GenerateInserts
  <2>2. PICK r \in generation.tracks \ generation.locked :
          IF r \in recordings
          THEN r \notin reset.gone /\ generation' = [generation EXCEPT !.locked = @ \cup {r}]
          ELSE generation' = [generation EXCEPT !.stage = "failed", !.locked = {}]
    BY <1>4 DEF GenerateInserts
  <2>3. /\ UNCHANGED <<generation.tracks, generation.era>>
        /\ {"stage", "tracks", "locked", "era"} \subseteq DOMAIN generation'
    BY <2>2 DEF Inv, ShapeInv
  <2>4. CASE r \in recordings
    <3>1. generation'.stage = "flushed" /\ generation'.locked = generation.locked \cup {r}
      BY <2>1, <2>2, <2>4 DEF Inv, ShapeInv
    <3>2. GenerationInv' /\ ResetInv'
      BY <1>1, <2>1, <2>2, <2>3, <2>4, <3>1 DEF Inv, GenerationInv, ResetInv
    <3>3. QED
      BY <1>1, <1>2, <2>1, <2>3, <3>2 DEF Inv, PlaylistInv, ShapeInv
  <2>5. CASE r \notin recordings
    <3>1. generation'.stage = "failed" /\ generation'.locked = {}
      BY <2>2, <2>5 DEF Inv, ShapeInv
    <3>2. generation.era < era
      BY <2>1, <2>2, <2>5 DEF Inv, FitInv, GenerationInv
    <3>3. GenerationInv' /\ ResetInv'
      BY <1>1, <2>1, <2>3, <3>1, <3>2 DEF Inv, GenerationInv, ResetInv
    <3>4. QED
      BY <1>1, <1>2, <2>1, <2>3, <3>3 DEF Inv, PlaylistInv, ShapeInv
  <2>6. QED
    BY <2>4, <2>5
<1>5. CASE GenerateCommits
  <2>1. /\ generation.stage = "flushed" /\ generation.locked = generation.tracks
        /\ generation' = NoGeneration
        /\ playlists' = playlists \cup
             {[n |-> Cardinality(playlists) + 1, tracks |-> generation.tracks]}
    BY <1>5 DEF GenerateCommits
  <2>2. GenerationInv' /\ ShapeInv' /\ generation'.locked = {}
    BY <1>1, <2>1 DEF GenerationInv, NoGeneration, Inv, ShapeInv
  <2>3. generation.tracks # {} /\ generation.tracks \subseteq recordings
    BY <2>1 DEF Inv, GenerationInv, ResetInv
  <2>4. PlaylistInv'
    BY <1>1, <2>1, <2>3 DEF Inv, PlaylistInv
  <2>5. reset.stage # "cleared"
    BY <2>1, <2>3 DEF Inv, ResetInv
  <2>6. ResetInv'
    BY <1>1, <2>2, <2>5 DEF Inv, ResetInv
  <2>7. QED
    BY <1>2, <2>2, <2>4, <2>6 DEF Inv
<1>6. QED
  BY <1>3, <1>4, <1>5

\* A generation that waits for a reset which waits for it has locked one track,
\* and lacks another.
LEMMA DeadlockStep ==
  ASSUME Inv, DeadlockBroken
  PROVE  Inv'
<1>1. UNCHANGED <<crawl, recordings, listens, playlists, fit, era>>
  BY DEF DeadlockBroken, files, content
<1>2. FitInv' /\ ListensInv' /\ PlaylistInv'
  BY <1>1 DEF Inv, FitInv, ListensInv, PlaylistInv
<1>3. CASE UNCHANGED reset /\ generation' = [generation EXCEPT !.stage = "aborted", !.locked = {}]
  <2>1. /\ generation'.stage = "aborted" /\ generation'.locked = {}
        /\ UNCHANGED <<generation.tracks, generation.era>>
        /\ {"stage", "tracks", "locked", "era"} \subseteq DOMAIN generation'
    BY <1>3 DEF Inv, ShapeInv
  <2>2. \E r, s \in generation.tracks : r # s
    BY DEF DeadlockBroken, Inv, ResetInv
  <2>3. generation.stage = "flushed"
    BY DEF DeadlockBroken, Inv, ResetInv
  <2>4. GenerationInv' /\ ResetInv' /\ ShapeInv'
    BY <1>1, <1>3, <2>1, <2>2, <2>3 DEF Inv, GenerationInv, ResetInv, ShapeInv
  <2>5. QED
    BY <1>2, <2>4 DEF Inv
<1>4. CASE UNCHANGED generation /\ reset' = NoReset
  <2>1. GenerationInv' /\ ResetInv' /\ ShapeInv'
    BY <1>1, <1>4 DEF Inv, GenerationInv, ResetInv, ShapeInv, NoReset
  <2>2. QED
    BY <1>2, <2>1 DEF Inv
<1>5. QED
  BY <1>3, <1>4 DEF DeadlockBroken

\* The other steps: files, a member's listen, the start and the end of a run.
LEMMA OtherStep ==
  ASSUME Inv,
         \/ CrawlStarts \/ CrawlLooksUp \/ \E d \in 1..Len(Dumps) : DatasetPlays(d)
         \/ DatasetItems \/ Enriches \/ Stops \/ ResetBegins \/ MemberListens
         \/ UNCHANGED vars
  PROVE  Inv'
<1>1. UNCHANGED <<recordings, playlists, fit, generation, era>>
  BY DEF CrawlStarts, CrawlLooksUp, DatasetPlays, DatasetItems, Enriches, Stops, ResetBegins,
         MemberListens, content, api, vars
<1>2. ListensInv'
  <2>1. UNCHANGED listens \/ \E r \in recordings : listens' = listens \cup {<<Member, r>>}
    BY DEF CrawlStarts, CrawlLooksUp, DatasetPlays, DatasetItems, Enriches, Stops, ResetBegins,
           MemberListens, content, vars
  <2>2. QED
    BY <1>1, <2>1 DEF Inv, ListensInv
<1>3. \/ UNCHANGED <<reset, crawl>>
      \/ reset' = NoReset
      \/ crawl' = NoCrawl /\ reset' = [NoReset EXCEPT !.stage = "begun"]
  <2>1. CASE CrawlStarts \/ Stops
    BY <2>1 DEF CrawlStarts, Run, Quiet, Stops
  <2>2. CASE CrawlLooksUp
    <3>1. crawl # NoCrawl /\ UNCHANGED reset
      BY <2>2 DEF CrawlLooksUp, NoCrawl
    <3>2. QED
      BY <3>1 DEF Inv, ResetInv
  <2>3. CASE ResetBegins
    BY <2>3 DEF ResetBegins, Run, Quiet, files
  <2>4. CASE (\E d \in 1..Len(Dumps) : DatasetPlays(d)) \/ DatasetItems \/ Enriches \/ MemberListens
                \/ UNCHANGED vars
    BY <2>4 DEF DatasetPlays, DatasetItems, Enriches, MemberListens, files, vars
  <2>5. QED
    BY <2>1, <2>2, <2>3, <2>4
<1>4. QED
  BY <1>1, <1>2, <1>3, GrowingStep

LEMMA NextInv == Inv /\ [Next]_vars => Inv'
<1> SUFFICES ASSUME Inv, [Next]_vars PROVE Inv'
  OBVIOUS
<1> QED
  BY ImportStep, SeedsStep, CrawlWritesStep, ResetCommitsStep, ResetDeletesStep, FitsStep,
     GenerateStep, DeadlockStep, OtherStep DEF Next

\* "A rebuilt catalogue invalidates them all": whatever the scripts import
\* and in whatever order with the API, no stored playlist has lost a track,
\* and a generation is only refused a track after a reset that came after its
\* snapshot, and only undone, with two tracks or more, by a deadlock with one.
THEOREM PlaylistsAlwaysHold == Spec => []PlaylistsHold
<1>1. Inv => PlaylistsHold
  BY DEF Inv, PlaylistInv, GenerationInv, PlaylistsHold
<1>2. QED
  BY <1>1, InitInv, NextInv, PTL DEF Spec

-----------------------------------------------------------------------------
(* What the scripts compute                                                *)

\* Numbers have a least.
LEMMA SmallestNumber ==
  ASSUME NEW T \in SUBSET Nat, T # {}
  PROVE  \E x \in T : \A y \in T : x <= y
<1> DEFINE R == OpToRel(<, Nat)
<1>1. \A x, y \in Nat : x < y => <<x, y>> \in R
  BY Zenon DEF OpToRel
<1>2. IsWellFoundedOn(R, Nat)
  BY NatLessThanWellFounded, Zenon
<1> HIDE DEF R
<1>3. PICK x \in T : \A y \in T : ~(<<y, x>> \in R)
  BY <1>2, WFMin
<1>4. \A y \in T : ~(y < x)
  BY <1>1, <1>3
<1>5. QED
  BY <1>4

LEMMA ImageIsFinite ==
  ASSUME NEW S, IsFiniteSet(S), NEW f
  PROVE  IsFiniteSet({f[x] : x \in S}) /\ Cardinality({f[x] : x \in S}) <= Cardinality(S)
<1> DEFINE g == [x \in S |-> f[x]]
           T == {f[x] : x \in S}
<1>1. g \in Surjection(S, T)
  BY DEF Surjection
<1>2. QED
  BY <1>1, FS_Surjection

LEMMA SmallestOfIs ==
  ASSUME NEW S, IsFiniteSet(S), NEW n \in Nat
  PROVE  /\ SmallestOf(n, S) \in Nat
         /\ SmallestOf(n, S) <= n /\ SmallestOf(n, S) <= Cardinality(S)
<1> DEFINE size == Cardinality(S)
<1>1. size \in Nat
  BY FS_CardinalityType
<1> HIDE DEF size
<1>2. \E x \in {n, size} : \A y \in {n, size} : x <= y
  BY <1>1
<1>3. Min({n, size}) \in {n, size} /\ Min({n, size}) <= n /\ Min({n, size}) <= size
  BY <1>2 DEF Min
<1>4. QED
  BY <1>1, <1>3 DEF SmallestOf, size

\* Some element of a set has the highest of its scores.
LEMMA SomeHighest ==
  ASSUME NEW S, S # {}, NEW score, NEW bound \in Nat, \A x \in S : score[x] \in 0..bound
  PROVE  \E x \in S : \A y \in S : score[x] >= score[y]
<1> DEFINE gaps == {bound - score[x] : x \in S}
<1>1. gaps \in SUBSET Nat /\ gaps # {}
  OBVIOUS
<1>2. PICK gap \in gaps : \A other \in gaps : gap <= other
  BY <1>1, SmallestNumber
<1>3. PICK x \in S : gap = bound - score[x]
  BY <1>2
<1>4. \A y \in S : bound - score[y] \in gaps
  OBVIOUS
<1> HIDE DEF gaps
<1>5. \A y \in S : score[x] >= score[y]
  BY <1>2, <1>3, <1>4
<1>6. QED
  BY <1>5

\* A finite set has n elements of the highest scores, or all if there are fewer.
LEMMA SomeTop ==
  ASSUME NEW S, IsFiniteSet(S), NEW score, NEW bound \in Nat,
         \A x \in S : score[x] \in 0..bound, NEW n \in 0..Cardinality(S)
  PROVE  \E T \in SUBSET S : /\ Cardinality(T) = n
                             /\ \A x \in T, y \in S \ T : score[x] >= score[y]
<1> DEFINE IsTop(T, k) == Cardinality(T) = k /\ \A x \in T, y \in S \ T : score[x] >= score[y]
           none == {k \in 0..Cardinality(S) : ~\E T \in SUBSET S : IsTop(T, k)}
<1>0. Cardinality(S) \in Nat
  BY FS_CardinalityType
<1>1. SUFFICES ASSUME n \in none PROVE FALSE
  OBVIOUS
<1>2. none \in SUBSET Nat /\ none # {}
  BY <1>0, <1>1
<1>3. PICK k \in none : \A i \in none : k <= i
  BY <1>2, SmallestNumber
<1>4. k \in 0..Cardinality(S) /\ ~\E T \in SUBSET S : IsTop(T, k)
  BY <1>3
<1>5. k # 0
  BY <1>4, FS_EmptySet
<1>6. k - 1 \in 0..Cardinality(S) /\ k - 1 \notin none
  BY <1>0, <1>2, <1>3, <1>4, <1>5
<1>7. PICK T \in SUBSET S : IsTop(T, k - 1)
  BY <1>6
<1>8. IsFiniteSet(T) /\ S \ T # {}
  BY <1>0, <1>4, <1>7, FS_Subset
<1>9. PICK x \in S \ T : \A y \in S \ T : score[x] >= score[y]
  BY <1>8, SomeHighest
<1>10. Cardinality(T \cup {x}) = k
  <2>1. x \notin T /\ Cardinality(T) = k - 1
    BY <1>7
  <2>2. Cardinality(T \cup {x}) = Cardinality(T) + 1
    BY <1>8, <2>1, FS_AddElement
  <2>3. QED
    BY <1>0, <1>4, <2>1, <2>2
<1>11. \A y \in T \cup {x}, z \in S \ (T \cup {x}) : score[y] >= score[z]
  BY <1>7, <1>9
<1>12. QED
  BY <1>4, <1>10, <1>11

\* So Top is well defined.
LEMMA TopIs ==
  ASSUME NEW S, IsFiniteSet(S), NEW score, NEW bound \in Nat,
         \A x \in S : score[x] \in 0..bound, NEW n \in Nat
  PROVE  /\ Top(n, S, score) \subseteq S /\ IsFiniteSet(Top(n, S, score))
         /\ Cardinality(Top(n, S, score)) <= n
<1>1. Cardinality(S) \in Nat
  BY FS_CardinalityType
<1>2. SmallestOf(n, S) \in 0..Cardinality(S) /\ SmallestOf(n, S) <= n
  BY <1>1, SmallestOfIs
<1>3. \E T \in SUBSET S : /\ Cardinality(T) = SmallestOf(n, S)
                          /\ \A x \in T, y \in S \ T : score[x] >= score[y]
  <2> DEFINE size == SmallestOf(n, S)
  <2>1. size \in 0..Cardinality(S)
    BY <1>2
  <2> HIDE DEF size
  <2>2. \E T \in SUBSET S : /\ Cardinality(T) = size
                            /\ \A x \in T, y \in S \ T : score[x] >= score[y]
    BY <2>1, SomeTop
  <2>3. QED
    BY <2>2 DEF size
<1>4. Top(n, S, score) \in SUBSET S /\ Cardinality(Top(n, S, score)) = SmallestOf(n, S)
  BY <1>3 DEF Top
<1>5. QED
  BY <1>2, <1>4, FS_Subset

-----------------------------------------------------------------------------
(* What a dataset is                                                       *)

\* A set put in order: each element has its place.
LEMMA SequenceIs ==
  ASSUME NEW S, IsFiniteSet(S)
  PROVE  /\ IsFiniteSet(DOMAIN SetToSeq(S))
         /\ \A x \in S : \E n \in DOMAIN SetToSeq(S) : SetToSeq(S)[n] = x
<1> DEFINE size == Cardinality(S)
<1>1. size \in Nat /\ ExistsBijection(1..size, S)
  BY FS_CardinalityType
<1>2. PICK f \in Bijection(1..size, S) : TRUE
  BY <1>1 DEF ExistsBijection
<1>3. f \in [1..size -> S] /\ IsInjective(f)
  BY <1>2 DEF Bijection, Injection
<1>4. SetToSeq(S) \in [1..size -> S] /\ IsInjective(SetToSeq(S))
  BY <1>3 DEF SetToSeq
<1> HIDE DEF size
<1>5. 1 \in Int /\ size \in Int
  BY <1>1
<1>6. IsFiniteSet(1..size) /\ Cardinality(1..size) = IF 1 > size THEN 0 ELSE size - 1 + 1
  BY ONLY <1>5, FS_Interval
<1>7. Cardinality(1..size) = Cardinality(S)
  BY <1>1, <1>6 DEF size
<1>8. SetToSeq(S) \in Injection(1..size, S)
  BY <1>4 DEF Injection
<1>9. SetToSeq(S) \in Surjection(1..size, S)
  BY <1>7, <1>8, FS_Injection
<1>10. QED
  BY <1>4, <1>6, <1>9 DEF Surjection

\* The parts of Build.
LinesOf(dump, u, k) == {i \in Lines(dump) : dump[i].user = u /\ KeyOfLine(dump, i) = k}
AllKeys(dump) == {KeyOfLine(dump, i) : i \in Lines(dump)}
HeardIn(dump) ==
  [u \in {dump[i].user : i \in Lines(dump)} |->
    {KeyOfLine(dump, i) : i \in {i \in Lines(dump) : dump[i].user = u}}]
KeptIn(dump) == Popular(HeardIn(dump), Active(HeardIn(dump), UNION Range(HeardIn(dump))))
ActiveIn(dump) == Active(HeardIn(dump), KeptIn(dump))
UsersIn(dump) ==
  Top(MaxUsers, ActiveIn(dump),
      [u \in ActiveIn(dump) |-> Cardinality(HeardIn(dump)[u] \cap KeptIn(dump))])
KeysIn(dump) ==
  IF UsersIn(dump) = ActiveIn(dump) THEN KeptIn(dump)
  ELSE KeptIn(dump) \cap UNION {HeardIn(dump)[u] : u \in UsersIn(dump)}
ItemsIn(dump) == SetToSeq(KeysIn(dump))
PlacesIn(dump, u) == {n \in DOMAIN ItemsIn(dump) : ItemsIn(dump)[n] \in HeardIn(dump)[u]}
Earliest(dump, u, k) == Min({dump[i].at : i \in LinesOf(dump, u, k)})
PlayIn(dump, u, n) ==
  [user |-> u, item |-> n, at |-> Earliest(dump, u, ItemsIn(dump)[n])]

LEMMA BuildIs ==
  ASSUME NEW dump
  PROVE  Build(dump) =
           [items |-> ItemsIn(dump),
            plays |-> UNION {{PlayIn(dump, u, n) : n \in PlacesIn(dump, u)} : u \in UsersIn(dump)}]
BY DEF Build, LinesOf, HeardIn, KeptIn, ActiveIn, UsersIn, KeysIn, ItemsIn, PlacesIn, PlayIn, Earliest

LEMMA KeysAreFinite ==
  ASSUME NEW dump, IsFiniteSet(DOMAIN dump)
  PROVE  /\ IsFiniteSet(AllKeys(dump)) /\ IsFiniteSet(DOMAIN HeardIn(dump))
         /\ \A u \in DOMAIN HeardIn(dump) : HeardIn(dump)[u] \subseteq AllKeys(dump)
         /\ KeptIn(dump) \subseteq AllKeys(dump) /\ KeysIn(dump) \subseteq AllKeys(dump)
<1> DEFINE lines == Lines(dump)
<1>1. IsFiniteSet(lines)
  BY FS_Subset DEF Lines
<1>2. IsFiniteSet(AllKeys(dump))
  <2> DEFINE f == [i \in lines |-> KeyOfLine(dump, i)]
  <2>1. AllKeys(dump) = {f[i] : i \in lines}
    BY DEF AllKeys
  <2> HIDE DEF f, lines
  <2>2. QED
    BY <1>1, <2>1, ImageIsFinite
<1>3. IsFiniteSet(DOMAIN HeardIn(dump))
  <2> DEFINE f == [i \in lines |-> dump[i].user]
  <2>1. DOMAIN HeardIn(dump) = {f[i] : i \in lines}
    BY DEF HeardIn
  <2> HIDE DEF f, lines
  <2>2. QED
    BY <1>1, <2>1, ImageIsFinite
<1>4. \A u \in DOMAIN HeardIn(dump) : HeardIn(dump)[u] \subseteq AllKeys(dump)
  BY DEF HeardIn, AllKeys
<1>5. KeptIn(dump) \subseteq AllKeys(dump)
  BY <1>4 DEF KeptIn, Popular, Active
<1>6. KeysIn(dump) \subseteq AllKeys(dump)
  BY <1>5 DEF KeysIn
<1>7. QED
  BY <1>2, <1>3, <1>4, <1>5, <1>6

LEMMA UsersAreActive ==
  ASSUME NEW dump, IsFiniteSet(DOMAIN dump)
  PROVE  /\ UsersIn(dump) \subseteq ActiveIn(dump) /\ ActiveIn(dump) \subseteq DOMAIN HeardIn(dump)
         /\ IsFiniteSet(UsersIn(dump)) /\ Cardinality(UsersIn(dump)) <= MaxUsers
<1> DEFINE active == ActiveIn(dump)
           score == [u \in active |-> Cardinality(HeardIn(dump)[u] \cap KeptIn(dump))]
           bound == Cardinality(AllKeys(dump))
<1>1. active \subseteq DOMAIN HeardIn(dump)
  BY DEF ActiveIn, Active
<1>2. IsFiniteSet(active)
  BY <1>1, KeysAreFinite, FS_Subset
<1>3. bound \in Nat /\ MaxUsers \in Nat
  BY KeysAreFinite, FS_CardinalityType, LimitsAssumption
<1>4. ASSUME NEW u \in active PROVE score[u] \in 0..bound
  <2> DEFINE heard == HeardIn(dump)[u] \cap KeptIn(dump)
  <2>1. heard \subseteq AllKeys(dump) /\ IsFiniteSet(AllKeys(dump))
    BY KeysAreFinite
  <2> HIDE DEF heard
  <2>2. Cardinality(heard) \in Nat /\ Cardinality(heard) <= bound
    BY <2>1, FS_Subset, FS_CardinalityType
  <2>3. QED
    BY <1>3, <2>2 DEF heard
<1>5. UsersIn(dump) = Top(MaxUsers, active, score)
  BY DEF UsersIn
<1> HIDE DEF score, bound, active
<1>6. QED
  BY <1>1, <1>2, <1>3, <1>4, <1>5, TopIs DEF active

LEMMA PlacesAreFinite ==
  ASSUME NEW dump, IsFiniteSet(DOMAIN dump)
  PROVE  /\ IsFiniteSet(DOMAIN ItemsIn(dump)) /\ \A u : IsFiniteSet(PlacesIn(dump, u))
         /\ \A k \in KeysIn(dump) : \E n \in DOMAIN ItemsIn(dump) : ItemsIn(dump)[n] = k
<1>1. IsFiniteSet(KeysIn(dump))
  BY KeysAreFinite, FS_Subset
<1>2. /\ IsFiniteSet(DOMAIN ItemsIn(dump))
      /\ \A k \in KeysIn(dump) : \E n \in DOMAIN ItemsIn(dump) : ItemsIn(dump)[n] = k
  BY <1>1, SequenceIs DEF ItemsIn
<1>3. \A u : PlacesIn(dump, u) \subseteq DOMAIN ItemsIn(dump)
  BY DEF PlacesIn
<1>4. QED
  BY <1>2, <1>3, FS_Subset

\* A dataset has finitely many items and plays.
LEMMA BuildIsFinite ==
  ASSUME NEW dump, IsFiniteSet(DOMAIN dump)
  PROVE  IsFiniteSet(DOMAIN Build(dump).items) /\ IsFiniteSet(Build(dump).plays)
<1> DEFINE Plays(u) == {PlayIn(dump, u, n) : n \in PlacesIn(dump, u)}
           each == {Plays(u) : u \in UsersIn(dump)}
<1>1. \A u : IsFiniteSet(Plays(u))
  <2> SUFFICES ASSUME NEW u PROVE IsFiniteSet(Plays(u))
    OBVIOUS
  <2> DEFINE f == [n \in PlacesIn(dump, u) |-> PlayIn(dump, u, n)]
  <2>1. IsFiniteSet(PlacesIn(dump, u))
    BY PlacesAreFinite
  <2>2. Plays(u) = {f[n] : n \in PlacesIn(dump, u)}
    OBVIOUS
  <2> HIDE DEF f, Plays
  <2>3. QED
    BY <2>1, <2>2, ImageIsFinite
<1>2. IsFiniteSet(each)
  <2> DEFINE f == [u \in UsersIn(dump) |-> Plays(u)]
  <2> HIDE DEF Plays
  <2>1. each = {f[u] : u \in UsersIn(dump)}
    OBVIOUS
  <2> HIDE DEF f, each
  <2>2. QED
    BY <2>1, UsersAreActive, ImageIsFinite
<1>3. \A S \in each : IsFiniteSet(S)
  BY <1>1
<1>4. Build(dump) = [items |-> ItemsIn(dump), plays |-> UNION each]
  BY BuildIs
<1> HIDE DEF each
<1>5. IsFiniteSet(UNION each)
  BY <1>2, <1>3, FS_UNION
<1>6. QED
  BY <1>4, <1>5, PlacesAreFinite

\* The plays and the items of a user, and the users.
PlaysOf(plays, u) == {p \in plays : p.user = u}
HeardOf(plays, u) == {p.item : p \in PlaysOf(plays, u)}
UsersOf(plays) == {p.user : p \in plays}

\* A dataset has no more users than it may; each has enough of its items, also
\* after items were dropped; a user has an item once, at the earliest time
\* that a line of the dump has for it.
SoundDataset(dump, built) ==
  /\ Cardinality(UsersOf(built.plays)) <= MaxUsers
  /\ \A u \in UsersOf(built.plays) : Cardinality(HeardOf(built.plays, u)) >= MinUserListens
  /\ \A p, q \in built.plays : p.user = q.user /\ p.item = q.item => p = q
  /\ \A p \in built.plays :
       /\ p.item \in DOMAIN built.items
       /\ \E i \in LinesOf(dump, p.user, built.items[p.item]) : dump[i].at = p.at
       /\ \A i \in LinesOf(dump, p.user, built.items[p.item]) : p.at <= dump[i].at

\* Each play of a dataset is that of a user and an item that he has heard.
LEMMA PlaysAre ==
  ASSUME NEW dump
  PROVE  /\ \A p \in Build(dump).plays :
              \E u \in UsersIn(dump) : \E n \in PlacesIn(dump, u) : p = PlayIn(dump, u, n)
         /\ \A u \in UsersIn(dump) : \A n \in PlacesIn(dump, u) : PlayIn(dump, u, n) \in Build(dump).plays
<1> DEFINE Plays(u) == {PlayIn(dump, u, n) : n \in PlacesIn(dump, u)}
<1>1. Build(dump).plays = UNION {Plays(u) : u \in UsersIn(dump)}
  BY BuildIs
<1>2. \A u : \A p \in Plays(u) : \E n \in PlacesIn(dump, u) : p = PlayIn(dump, u, n)
  OBVIOUS
<1>3. \A u : \A n \in PlacesIn(dump, u) : PlayIn(dump, u, n) \in Plays(u)
  OBVIOUS
<1> HIDE DEF Plays
<1>4. QED
  BY <1>1, <1>2, <1>3

\* A user that is kept has the items that were counted for him.
LEMMA EnoughHeard ==
  ASSUME NEW dump, IsFiniteSet(DOMAIN dump), NEW u \in UsersIn(dump)
  PROVE  Cardinality(PlacesIn(dump, u)) >= MinUserListens
<1> DEFINE heard == HeardIn(dump)[u] \cap KeptIn(dump)
           f == [n \in PlacesIn(dump, u) |-> ItemsIn(dump)[n]]
           image == {f[n] : n \in PlacesIn(dump, u)}
<1>1. u \in ActiveIn(dump) /\ u \in DOMAIN HeardIn(dump)
  BY UsersAreActive
<1>2. Cardinality(heard) >= MinUserListens
  BY <1>1 DEF ActiveIn, Active
<1>3. heard \subseteq KeysIn(dump)
  BY DEF KeysIn
<1>4. heard \subseteq image
  <2> SUFFICES ASSUME NEW k \in heard PROVE k \in image
    OBVIOUS
  <2>1. PICK n \in DOMAIN ItemsIn(dump) : ItemsIn(dump)[n] = k
    BY <1>3, PlacesAreFinite
  <2>2. n \in PlacesIn(dump, u) /\ f[n] = k
    BY <2>1 DEF PlacesIn
  <2>3. QED
    BY <2>2
<1>5. IsFiniteSet(PlacesIn(dump, u))
  BY PlacesAreFinite
<1> HIDE DEF heard, f
<1>6. IsFiniteSet(image) /\ Cardinality(image) <= Cardinality(PlacesIn(dump, u))
  BY <1>5, ImageIsFinite
<1> HIDE DEF image
<1>7. IsFiniteSet(heard) /\ Cardinality(heard) <= Cardinality(image)
  BY <1>4, <1>6, FS_Subset
<1>8. /\ Cardinality(heard) \in Nat /\ Cardinality(image) \in Nat
      /\ Cardinality(PlacesIn(dump, u)) \in Nat /\ MinUserListens \in Nat
  BY <1>5, <1>6, <1>7, FS_CardinalityType, LimitsAssumption
<1>9. QED
  BY <1>2, <1>6, <1>7, <1>8

\* "Keep the earliest timestamp per (user, item)".
LEMMA EarliestKept ==
  ASSUME NEW dump, \A i \in DOMAIN dump : dump[i].at \in Nat,
         NEW u \in DOMAIN HeardIn(dump), NEW k \in HeardIn(dump)[u]
  PROVE  /\ \E i \in LinesOf(dump, u, k) : dump[i].at = Earliest(dump, u, k)
         /\ \A i \in LinesOf(dump, u, k) : Earliest(dump, u, k) <= dump[i].at
<1> DEFINE times == {dump[i].at : i \in LinesOf(dump, u, k)}
<1>1. times \subseteq Nat
  BY DEF LinesOf, Lines
<1>2. times # {}
  <2>1. PICK i \in Lines(dump) : dump[i].user = u /\ k = KeyOfLine(dump, i)
    BY DEF HeardIn
  <2>2. i \in LinesOf(dump, u, k)
    BY <2>1 DEF LinesOf
  <2>3. QED
    BY <2>2
<1>3. \A i \in LinesOf(dump, u, k) : dump[i].at \in times
  OBVIOUS
<1>4. \A t \in times : \E i \in LinesOf(dump, u, k) : dump[i].at = t
  OBVIOUS
<1> HIDE DEF times
<1>5. \E x \in times : \A y \in times : x <= y
  BY <1>1, <1>2, SmallestNumber
<1>6. Min(times) \in times /\ \A y \in times : Min(times) <= y
  BY <1>5 DEF Min
<1>7. QED
  BY <1>3, <1>4, <1>6 DEF times, Earliest

\* "Filtering items can push a user back under the threshold": however the
\* lines of a dump fall, build_dataset keeps nobody who is left with too few
\* items, keeps no more users than asked, and loses no earlier play.
THEOREM DatasetsAreSound ==
  ASSUME NEW dump, IsFiniteSet(DOMAIN dump), \A i \in DOMAIN dump : dump[i].at \in Nat
  PROVE  SoundDataset(dump, Build(dump))
<1> DEFINE plays == Build(dump).plays
           items == Build(dump).items
<1>1. items = ItemsIn(dump)
  BY BuildIs
<1>2. \A u, n : PlayIn(dump, u, n).user = u /\ PlayIn(dump, u, n).item = n
  BY DEF PlayIn
<1>3. Cardinality(UsersOf(plays)) <= MaxUsers
  <2>1. UsersOf(plays) \subseteq UsersIn(dump)
    BY <1>2, PlaysAre DEF UsersOf
  <2>2. /\ IsFiniteSet(UsersOf(plays)) /\ Cardinality(UsersOf(plays)) <= Cardinality(UsersIn(dump))
        /\ Cardinality(UsersIn(dump)) <= MaxUsers /\ IsFiniteSet(UsersIn(dump))
    BY <2>1, UsersAreActive, FS_Subset
  <2>3. QED
    BY <2>2, FS_CardinalityType, LimitsAssumption
<1>4. ASSUME NEW u \in UsersOf(plays) PROVE Cardinality(HeardOf(plays, u)) >= MinUserListens
  <2>1. u \in UsersIn(dump)
    BY <1>2, PlaysAre DEF UsersOf
  <2>2. \A n \in PlacesIn(dump, u) : n \in HeardOf(plays, u)
    <3> SUFFICES ASSUME NEW n \in PlacesIn(dump, u) PROVE n \in HeardOf(plays, u)
      OBVIOUS
    <3>1. PlayIn(dump, u, n) \in PlaysOf(plays, u)
      BY <1>2, <2>1, PlaysAre DEF PlaysOf
    <3>2. QED
      BY <1>2, <3>1 DEF HeardOf
  <2>3. \A n \in HeardOf(plays, u) : n \in PlacesIn(dump, u)
    BY <1>2, PlaysAre DEF HeardOf, PlaysOf
  <2>4. HeardOf(plays, u) = PlacesIn(dump, u)
    BY <2>2, <2>3
  <2>5. QED
    BY <2>1, <2>4, EnoughHeard
<1>5. \A p, q \in plays : p.user = q.user /\ p.item = q.item => p = q
  BY <1>2, PlaysAre
<1>6. ASSUME NEW p \in plays
      PROVE  /\ p.item \in DOMAIN items
             /\ \E i \in LinesOf(dump, p.user, items[p.item]) : dump[i].at = p.at
             /\ \A i \in LinesOf(dump, p.user, items[p.item]) : p.at <= dump[i].at
  <2>1. PICK u \in UsersIn(dump) : \E n \in PlacesIn(dump, u) : p = PlayIn(dump, u, n)
    BY PlaysAre
  <2>2. PICK n \in PlacesIn(dump, u) : p = PlayIn(dump, u, n)
    BY <2>1
  <2>3. n \in DOMAIN items /\ items[n] \in HeardIn(dump)[u] /\ u \in DOMAIN HeardIn(dump)
    BY <1>1, UsersAreActive DEF PlacesIn
  <2>4. p.user = u /\ p.item = n /\ p.at = Earliest(dump, u, items[n])
    BY <1>1, <2>2 DEF PlayIn
  <2> HIDE DEF plays, items
  <2>5. QED
    BY <2>3, <2>4, EarliestKept
<1>7. QED
  BY <1>3, <1>4, <1>5, <1>6 DEF SoundDataset

-----------------------------------------------------------------------------
(* What an import keeps                                                    *)

\* Of one artist an import keeps no more than it may.
KeptOf(items, plays, name) == {n \in Kept(items, plays) : items[n][1] = name}

LEMMA FewKept ==
  ASSUME NEW items, IsFiniteSet(DOMAIN items), NEW plays, IsFiniteSet(plays), NEW name
  PROVE  /\ IsFiniteSet(KeptOf(items, plays, name))
         /\ Cardinality(KeptOf(items, plays, name)) <= MaxPerArtist
<1> DEFINE listeners == [n \in DOMAIN items |-> Listeners(plays, n)]
           By(artist) == {n \in DOMAIN items : items[n][1] = artist}
           kept == KeptOf(items, plays, name)
           Most(artist) == Top(MaxPerArtist, By(artist), listeners)
<1>1. \A artist : /\ Most(artist) \subseteq By(artist) /\ IsFiniteSet(Most(artist))
                  /\ Cardinality(Most(artist)) <= MaxPerArtist
                  /\ Cardinality(Most(artist)) \in Nat
  <2> SUFFICES ASSUME NEW artist
               PROVE  /\ Most(artist) \subseteq By(artist) /\ IsFiniteSet(Most(artist))
                      /\ Cardinality(Most(artist)) <= MaxPerArtist
                      /\ Cardinality(Most(artist)) \in Nat
    OBVIOUS
  <2> DEFINE S == By(artist)
             bound == Cardinality(plays)
  <2>1. IsFiniteSet(S) /\ bound \in Nat /\ MaxPerArtist \in Nat
    BY FS_Subset, FS_CardinalityType, LimitsAssumption
  <2>2. \A n \in S : listeners[n] \in 0..bound
    <3>1. \A n \in DOMAIN items : Listeners(plays, n) \in 0..bound
      BY FS_Subset, FS_CardinalityType DEF Listeners
    <3>2. QED
      BY <3>1
  <2> HIDE DEF S, bound, listeners
  <2>3. /\ Top(MaxPerArtist, S, listeners) \subseteq S /\ IsFiniteSet(Top(MaxPerArtist, S, listeners))
        /\ Cardinality(Top(MaxPerArtist, S, listeners)) <= MaxPerArtist
    BY <2>1, <2>2, TopIs
  <2>4. QED
    BY <2>3, FS_CardinalityType DEF S
<1>2. kept \subseteq Most(name)
  <2> SUFFICES ASSUME NEW n \in kept PROVE n \in Most(name)
    OBVIOUS
  <2>1. n \in UNION {Most(item[1]) : item \in Range(items)} /\ items[n][1] = name
    BY DEF KeptOf, Kept
  <2>2. PICK item \in Range(items) : n \in Most(item[1])
    BY <2>1
  <2> HIDE DEF Most
  <2>3. n \in By(item[1])
    BY <1>1, <2>2
  <2>4. item[1] = name
    BY <2>1, <2>3
  <2>5. QED
    BY <2>2, <2>4
<1>3. QED
  <2> HIDE DEF Most
  <2>1. IsFiniteSet(kept) /\ Cardinality(kept) <= Cardinality(Most(name))
    BY <1>1, <1>2, FS_Subset
  <2>2. IsFiniteSet(kept) /\ Cardinality(kept) \in Nat
    BY <2>1, FS_CardinalityType
  <2> HIDE DEF kept
  <2>3. Cardinality(kept) <= MaxPerArtist
    BY <1>1, <2>1, <2>2, LimitsAssumption
  <2>4. QED
    BY <2>2, <2>3 DEF kept

-----------------------------------------------------------------------------
(* What the scripts leave in the database                                  *)

\* The datasets on disk are some that were built; an import with --reset only
\* begins when there are two to read.
FilesInv ==
  /\ {"items", "plays", "writing"} \subseteq DOMAIN disk
  /\ disk.items \in 0..Len(Dumps) /\ disk.plays \in 0..Len(Dumps) /\ disk.writing \in 0..Len(Dumps)
  /\ reset.stage # "none" => Readable

CrawlInv == "found" \in DOMAIN crawl /\ crawl.found \subseteq {row.mbid : row \in UNION Charts}

CreditsOfArtist(list, artist) == {x \in list : x[2] = artist}

\* Of an artist known by name, no more credits than n datasets account for.
FewCredits(list, n) ==
  \A c \in list : c[2][1] = "name" =>
    /\ IsFiniteSet(CreditsOfArtist(list, c[2]))
    /\ Cardinality(CreditsOfArtist(list, c[2])) <= MaxPerArtist * n

Credited(rows, list) == \A r \in rows : \E c \in list : c[1] = r

RowsInv ==
  /\ Credited(recordings, credits) /\ Inherit(credits, tagged) \subseteq inherited
  /\ merged \in Nat /\ FewCredits(credits, merged)

WholeInv == FilesInv /\ CrawlInv /\ RowsInv

LEMMA InitWhole == Init => WholeInv
BY SourcesAssumption DEF Init, WholeInv, FilesInv, CrawlInv, RowsInv, Credited, FewCredits, Inherit,
  NoCrawl, NoReset

LEMMA ReadIsFinite ==
  ASSUME FilesInv, Readable
  PROVE  IsFiniteSet(DOMAIN ItemsRead) /\ IsFiniteSet(PlaysRead)
<1>1. \A d \in 1..Len(Dumps) : IsFiniteSet(DOMAIN Datasets[d].items) /\ IsFiniteSet(Datasets[d].plays)
  BY SourcesAssumption, BuildIsFinite DEF Datasets
<1>2. disk.items \in 1..Len(Dumps) /\ disk.plays \in 1..Len(Dumps)
  BY SourcesAssumption DEF FilesInv, Readable
<1>3. QED
  BY <1>1, <1>2 DEF ItemsRead, PlaysRead

\* An import brings each recording with its artist, and of no artist more
\* than it may.
LEMMA ImportedRows ==
  ASSUME NEW old, NEW oldCredits, NEW oldTagged, NEW oldInherited, NEW oldListens, NEW e,
         Imported(old, oldCredits, oldTagged, oldInherited, oldListens, e),
         FilesInv, Readable, NEW n \in Nat,
         Credited(old, oldCredits), FewCredits(oldCredits, n)
  PROVE  /\ Credited(recordings', credits') /\ Inherit(credits', tagged') \subseteq inherited'
         /\ FewCredits(credits', n + 1)
<1> DEFINE items == ItemsRead
           plays == PlaysRead
           kept == Kept(items, plays)
           Row(i) == [id |-> items[i], era |-> e]
           Credit(i) == <<Row(i), ArtistId(items[i][1])>>
           added == {Credit(i) : i \in kept}
<1>1. recordings' = old \cup {Row(i) : i \in kept} /\ credits' = oldCredits \cup added
  BY DEF Imported
<1>2. Inherit(credits', tagged') \subseteq inherited'
  BY DEF Imported
<1>3. IsFiniteSet(DOMAIN items) /\ IsFiniteSet(plays)
  BY ReadIsFinite
<1>4. Credited(recordings', credits')
  <2> SUFFICES ASSUME NEW r \in recordings' PROVE \E c \in credits' : c[1] = r
    BY DEF Credited
  <2>1. CASE r \in old
    BY <1>1, <2>1 DEF Credited
  <2>2. CASE r \notin old
    <3>1. PICK i \in kept : r = Row(i)
      BY <1>1, <2>2
    <3>2. Credit(i) \in credits' /\ Credit(i)[1] = r
      BY <1>1, <3>1
    <3>3. QED
      BY <3>2
  <2>3. QED
    BY <2>1, <2>2
<1>5. FewCredits(credits', n + 1)
  <2> SUFFICES ASSUME NEW c \in credits', c[2][1] = "name"
               PROVE  /\ IsFiniteSet(CreditsOfArtist(credits', c[2]))
                      /\ Cardinality(CreditsOfArtist(credits', c[2])) <= MaxPerArtist * (n + 1)
    BY DEF FewCredits
  <2> DEFINE before == CreditsOfArtist(oldCredits, c[2])
             name == c[2][2]
             these == KeptOf(items, plays, name)
             new == CreditsOfArtist(added, c[2])
  <2>1. CreditsOfArtist(credits', c[2]) = before \cup new
    BY <1>1 DEF CreditsOfArtist
  <2>2. /\ IsFiniteSet(before) /\ Cardinality(before) \in Nat
        /\ Cardinality(before) <= MaxPerArtist * n
    <3>1. CASE before = {}
      <4>1. MaxPerArtist * n \in Nat
        BY LimitsAssumption
      <4>2. QED
        BY <3>1, <4>1, FS_EmptySet
    <3>2. CASE before # {}
      <4>1. PICK x \in oldCredits : x[2] = c[2]
        BY <3>2 DEF CreditsOfArtist
      <4>2. IsFiniteSet(before) /\ Cardinality(before) <= MaxPerArtist * n
        BY <4>1 DEF FewCredits
      <4>3. QED
        BY <4>2, FS_CardinalityType
    <3>3. QED
      BY <3>1, <3>2
  <2>3. IsFiniteSet(these) /\ Cardinality(these) <= MaxPerArtist
    <3> HIDE DEF items, plays, name
    <3>1. QED
      BY <1>3, FewKept
  <2>4. new \subseteq {Credit(i) : i \in these}
    <3> SUFFICES ASSUME NEW x \in new PROVE x \in {Credit(i) : i \in these}
      OBVIOUS
    <3>1. PICK i \in kept : x = Credit(i)
      BY DEF CreditsOfArtist
    <3>2. x[2] = c[2]
      BY DEF CreditsOfArtist
    <3>3. items[i][1] = name
      BY <3>1, <3>2 DEF ArtistId
    <3>4. QED
      BY <3>1, <3>3 DEF KeptOf
  <2>5. /\ IsFiniteSet({Credit(i) : i \in these})
        /\ Cardinality({Credit(i) : i \in these}) <= Cardinality(these)
    <3> DEFINE f == [i \in these |-> Credit(i)]
    <3> HIDE DEF these, Credit
    <3>1. {Credit(i) : i \in these} = {f[i] : i \in these}
      OBVIOUS
    <3> HIDE DEF f
    <3>2. IsFiniteSet({f[i] : i \in these}) /\ Cardinality({f[i] : i \in these}) <= Cardinality(these)
      BY <2>3, ImageIsFinite
    <3>3. QED
      BY ONLY <3>1, <3>2
  <2>6. IsFiniteSet(new) /\ Cardinality(new) \in Nat /\ Cardinality(new) <= MaxPerArtist
    <3> DEFINE image == {Credit(i) : i \in these}
    <3> HIDE DEF new, image, these
    <3>1. Cardinality(new) <= Cardinality(image) /\ IsFiniteSet(new)
      BY <2>4, <2>5, FS_Subset DEF image
    <3>2. Cardinality(new) \in Nat /\ Cardinality(image) \in Nat /\ Cardinality(these) \in Nat
      BY <2>3, <2>5, <3>1, FS_CardinalityType DEF image
    <3>3. QED
      BY <2>3, <2>5, <3>1, <3>2, LimitsAssumption DEF image
  <2>7. /\ IsFiniteSet(before \cup new)
        /\ Cardinality(before \cup new) \in Nat
        /\ Cardinality(before \cup new) <= Cardinality(before) + Cardinality(new)
    <3> HIDE DEF before, new
    <3>1. IsFiniteSet(before \cap new) /\ Cardinality(before \cap new) \in Nat
      BY <2>2, FS_Intersection, FS_CardinalityType
    <3>2. /\ IsFiniteSet(before \cup new)
          /\ Cardinality(before \cup new)
               = Cardinality(before) + Cardinality(new) - Cardinality(before \cap new)
      BY <2>2, <2>6, FS_Union
    <3>3. QED
      BY <2>2, <2>6, <3>1, <3>2, FS_CardinalityType
  <2>8. MaxPerArtist * (n + 1) = MaxPerArtist * n + MaxPerArtist /\ MaxPerArtist * n \in Nat
    BY LimitsAssumption
  <2>9. QED
    <3> HIDE DEF before, new
    <3>1. Cardinality(before \cup new) <= MaxPerArtist * n + MaxPerArtist
      BY <2>2, <2>6, <2>7, <2>8, LimitsAssumption
    <3>2. QED
      BY <2>1, <2>7, <2>8, <3>1
<1>6. QED
  BY <1>2, <1>4, <1>5

\* Steps that leave the rows what they are.
LEMMA SameRows ==
  ASSUME WholeInv, FilesInv', CrawlInv', UNCHANGED <<recordings, credits, tagged, inherited, merged>>
  PROVE  WholeInv'
BY DEF WholeInv, RowsInv, Credited, FewCredits

LEMMA SameFiles ==
  ASSUME WholeInv, UNCHANGED disk, UNCHANGED reset \/ reset' = NoReset, UNCHANGED crawl \/ crawl' = NoCrawl
  PROVE  FilesInv' /\ CrawlInv'
BY DEF WholeInv, FilesInv, CrawlInv, NoCrawl, NoReset, Readable

LEMMA ImportWhole == WholeInv /\ Import => WholeInv'
<1> SUFFICES ASSUME WholeInv, Import PROVE WholeInv'
  OBVIOUS
<1>1. /\ Imported(recordings, credits, tagged, inherited, listens, era)
      /\ Readable /\ merged' = merged + 1 /\ UNCHANGED <<disk, crawl, reset>>
  BY DEF Import, files
<1>2. FilesInv /\ merged \in Nat /\ Credited(recordings, credits) /\ FewCredits(credits, merged)
  BY DEF WholeInv, RowsInv
<1>3. /\ Credited(recordings', credits') /\ Inherit(credits', tagged') \subseteq inherited'
      /\ FewCredits(credits', merged + 1)
  BY <1>1, <1>2, ImportedRows
<1>4. RowsInv'
  BY <1>1, <1>2, <1>3 DEF RowsInv
<1>5. QED
  BY <1>1, <1>4, SameFiles DEF WholeInv

LEMMA ResetCommitsWhole == WholeInv /\ ResetCommits => WholeInv'
<1> SUFFICES ASSUME WholeInv, ResetCommits PROVE WholeInv'
  OBVIOUS
<1>1. /\ Imported({}, {}, {}, {}, {}, era + 1) /\ reset.stage = "cleared"
      /\ reset' = NoReset /\ merged' = 1 /\ UNCHANGED <<disk, crawl>>
  BY DEF ResetCommits, files
<1>2. FilesInv /\ Readable
  BY <1>1 DEF WholeInv, FilesInv
<1>3. Credited({}, {}) /\ FewCredits({}, 0)
  BY DEF Credited, FewCredits
<1>4. /\ Credited(recordings', credits') /\ Inherit(credits', tagged') \subseteq inherited'
      /\ FewCredits(credits', 0 + 1)
  BY <1>1, <1>2, <1>3, ImportedRows
<1>5. RowsInv'
  BY <1>1, <1>4 DEF RowsInv
<1>6. QED
  BY <1>1, <1>5, SameFiles DEF WholeInv

\* The crawl credits each of its recordings, and no artist known by name.
LEMMA CrawlWritesWhole == WholeInv /\ CrawlWrites => WholeInv'
<1> SUFFICES ASSUME WholeInv, CrawlWrites PROVE WholeInv'
  OBVIOUS
<1> DEFINE rows == {RowOf(<<"mb", m>>) : m \in crawl.found}
           new == {<<r, <<"mb", a>>>> : r \in rows, a \in Artists}
           added == {c \in new : c[2][2] \in CreditsOf[c[1].id[2]]}
<1>1. /\ recordings' = recordings \cup rows /\ credits' = credits \cup added
      /\ inherited' = inherited \cup Inherit(credits', tagged')
      /\ crawl' = NoCrawl /\ UNCHANGED <<disk, reset, merged>>
  BY DEF CrawlWrites
<1>2. Credited(recordings', credits')
  <2> SUFFICES ASSUME NEW r \in recordings' PROVE \E c \in credits' : c[1] = r
    BY DEF Credited
  <2>1. CASE r \in recordings
    BY <1>1, <2>1 DEF WholeInv, RowsInv, Credited
  <2>2. CASE r \notin recordings
    <3>1. PICK m \in crawl.found : r = RowOf(<<"mb", m>>)
      BY <1>1, <2>2
    <3>2. r.id = <<"mb", m>>
      BY <3>1, <2>2 DEF RowOf
    <3>3. CreditsOf[m] # {} /\ CreditsOf[m] \subseteq Artists
      BY SourcesAssumption DEF WholeInv, CrawlInv, Artists
    <3>4. PICK a \in Artists : a \in CreditsOf[m]
      BY <3>3
    <3> DEFINE c == <<r, <<"mb", a>>>>
    <3>5. c \in new
      BY <3>1
    <3>6. c \in added
      BY <3>2, <3>4, <3>5
    <3>7. QED
      BY <1>1, <3>6
  <2>3. QED
    BY <2>1, <2>2
<1>3. FewCredits(credits', merged')
  <2>1. \A c \in added : c[2][1] = "mb"
    OBVIOUS
  <2> HIDE DEF added
  <2> SUFFICES ASSUME NEW c \in credits', c[2][1] = "name"
               PROVE  /\ IsFiniteSet(CreditsOfArtist(credits', c[2]))
                      /\ Cardinality(CreditsOfArtist(credits', c[2])) <= MaxPerArtist * merged'
    BY DEF FewCredits
  <2>2. c \in credits /\ CreditsOfArtist(credits', c[2]) = CreditsOfArtist(credits, c[2])
    BY <1>1, <2>1 DEF CreditsOfArtist
  <2>3. QED
    BY <1>1, <2>2 DEF WholeInv, RowsInv, FewCredits
<1>4. RowsInv'
  BY <1>1, <1>2, <1>3 DEF WholeInv, RowsInv
<1>5. QED
  BY <1>1, <1>4, SameFiles DEF WholeInv

\* The crawl finds what the charts have.
LEMMA CrawlStartsWhole == WholeInv /\ CrawlStarts => WholeInv'
<1> SUFFICES ASSUME WholeInv, CrawlStarts PROVE WholeInv'
  OBVIOUS
<1>1. UNCHANGED <<disk, recordings, credits, tagged, inherited, reset, merged>>
  BY DEF CrawlStarts, content
<1>2. PICK charts \in (SUBSET Charts) \ {{}} : crawl'.found = {row.mbid : row \in UNION charts}
  BY DEF CrawlStarts
<1>3. CrawlInv'
  <2>1. DOMAIN crawl' = {"stage", "found", "todo", "details"}
    BY DEF CrawlStarts
  <2>2. QED
    BY <1>2, <2>1 DEF CrawlInv
<1>4. FilesInv'
  BY <1>1, SameFiles DEF WholeInv, FilesInv, Readable
<1>5. QED
  BY <1>1, <1>3, <1>4, SameRows

\* The steps on files, and the start and the end of an import.
LEMMA FilesWhole ==
  ASSUME WholeInv,
         \/ \E d \in 1..Len(Dumps) : DatasetPlays(d)
         \/ DatasetItems \/ Enriches \/ Stops \/ ResetBegins \/ ResetDeletes \/ ResetClears
  PROVE  WholeInv'
<1>1. UNCHANGED <<recordings, credits, tagged, inherited, merged>>
  BY DEF DatasetPlays, DatasetItems, Enriches, Stops, ResetBegins, ResetDeletes, ResetClears, content
<1>2. CrawlInv'
  <2>1. UNCHANGED crawl \/ crawl' = NoCrawl
    BY DEF DatasetPlays, DatasetItems, Enriches, Stops, ResetBegins, ResetDeletes, ResetClears, files
  <2>2. QED
    BY <2>1 DEF WholeInv, CrawlInv, NoCrawl
<1>3. FilesInv'
  <2>1. CASE \E d \in 1..Len(Dumps) : DatasetPlays(d)
    <3>1. PICK d \in 1..Len(Dumps) : DatasetPlays(d)
      BY <2>1
    <3>2. /\ {"items", "plays", "writing"} \subseteq DOMAIN disk' /\ UNCHANGED reset
          /\ disk'.items = disk.items /\ disk'.plays = d /\ disk'.writing = d
      BY <3>1 DEF WholeInv, FilesInv, DatasetPlays
    <3>3. QED
      BY <3>2, SourcesAssumption DEF WholeInv, FilesInv, Readable
  <2>2. CASE DatasetItems
    <3>1. disk.writing # 0 /\ UNCHANGED reset
      BY <2>2 DEF DatasetItems
    <3>2. /\ {"items", "plays", "writing"} \subseteq DOMAIN disk'
          /\ disk'.items = disk.writing /\ disk'.plays = disk.plays /\ disk'.writing = 0
      BY <2>2 DEF WholeInv, FilesInv, DatasetItems
    <3>3. QED
      BY <3>1, <3>2, SourcesAssumption DEF WholeInv, FilesInv, Readable
  <2>3. CASE Enriches
    BY <2>3 DEF WholeInv, FilesInv, Enriches, Readable
  <2>4. CASE Stops
    BY <2>4, SourcesAssumption DEF WholeInv, FilesInv, Stops, Readable, NoReset
  <2>5. CASE ResetBegins
    BY <2>5 DEF WholeInv, FilesInv, ResetBegins, Readable, NoReset, files
  <2>6. CASE ResetDeletes \/ ResetClears
    BY <2>6 DEF WholeInv, FilesInv, ResetDeletes, ResetClears, Readable, files
  <2>7. QED
    BY <2>1, <2>2, <2>3, <2>4, <2>5, <2>6
<1>4. QED
  BY <1>1, <1>2, <1>3, SameRows

\* Listeners, members and the API read the rows only.
LEMMA ReadersWhole ==
  ASSUME WholeInv,
         \/ CrawlLooksUp \/ Seeds \/ MemberListens \/ Fits \/ Restarts
         \/ GenerateFlushes \/ GenerateInserts \/ GenerateCommits \/ DeadlockBroken \/ UNCHANGED vars
  PROVE  WholeInv'
<1>1. /\ UNCHANGED <<disk, recordings, credits, tagged, inherited, merged>>
      /\ UNCHANGED reset \/ reset' = NoReset
  BY DEF CrawlLooksUp, Seeds, MemberListens, Fits, Restarts, GenerateFlushes, GenerateInserts,
         GenerateCommits, DeadlockBroken, vars, files, content
<1>2. CrawlInv'
  <2>1. CASE UNCHANGED crawl
    BY <2>1 DEF WholeInv, CrawlInv
  <2>2. CASE CrawlLooksUp
    BY <2>2 DEF WholeInv, CrawlInv, CrawlLooksUp
  <2>3. QED
    BY <2>1, <2>2 DEF Seeds, MemberListens, Fits, Restarts, GenerateFlushes, GenerateInserts,
       GenerateCommits, DeadlockBroken, vars, files
<1>3. FilesInv'
  BY <1>1 DEF WholeInv, FilesInv, Readable, NoReset
<1>4. QED
  BY <1>1, <1>2, <1>3, SameRows

LEMMA NextWhole == WholeInv /\ [Next]_vars => WholeInv'
<1> SUFFICES ASSUME WholeInv, [Next]_vars PROVE WholeInv'
  OBVIOUS
<1> QED
  BY ImportWhole, ResetCommitsWhole, CrawlWritesWhole, CrawlStartsWhole, FilesWhole, ReadersWhole DEF Next

\* Whichever scripts ran, in whatever order and wherever they stopped, each
\* recording has an artist and the tags of its artists, and of no artist known
\* by name are there more recordings than the imported datasets allow.
THEOREM CatalogueStaysWhole == Spec => []CatalogueWhole
<1>1. WholeInv => CatalogueWhole
  BY DEF WholeInv, RowsInv, Credited, FewCredits, CreditsOfArtist, CatalogueWhole
<1>2. QED
  BY <1>1, InitWhole, NextWhole, PTL DEF Spec

-----------------------------------------------------------------------------
(* The catalogue implements Library                                        *)

\* A row is of the era that it was inserted in, and playlists are numbered.
DatedInv == \A r \in recordings : r.era \in Nat /\ r.era <= era

NumberedInv ==
  /\ IsFiniteSet(playlists)
  /\ \A p \in playlists : p.n \in 1..Cardinality(playlists)

LibraryInv == DatedInv /\ NumberedInv

LEMMA InitLibrary == Init => LibraryInv /\ Shelf!Init
BY FS_EmptySet DEF Init, LibraryInv, DatedInv, NumberedInv, Shelf!Init

\* The rows of an import are of its era, and those that were there stay.
LEMMA ImportedDated ==
  ASSUME NEW old, NEW oldCredits, NEW oldTagged, NEW oldInherited, NEW oldListens, NEW e \in Nat,
         Imported(old, oldCredits, oldTagged, oldInherited, oldListens, e)
  PROVE  old \subseteq recordings' /\ \A r \in recordings' : r \in old \/ r.era = e
BY DEF Imported

LEMMA CrawlWritesDated ==
  ASSUME CrawlWrites
  PROVE  recordings \subseteq recordings' /\ \A r \in recordings' : r \in recordings \/ r.era = era
<1> DEFINE rows == {RowOf(<<"mb", m>>) : m \in crawl.found}
<1>1. recordings' = recordings \cup rows
  BY DEF CrawlWrites
<1>2. \A id : RowOf(id) \in recordings \/ RowOf(id).era = era
  BY DEF RowOf
<1>3. QED
  BY <1>1, <1>2

\* A playlist is numbered after those that are there, and its tracks are there.
LEMMA CommitStores ==
  ASSUME Inv, LibraryInv, GenerateCommits
  PROVE  Shelf!Store /\ NumberedInv'
<1> DEFINE size == Cardinality(playlists)
           list == [n |-> size + 1, tracks |-> generation.tracks]
<1>1. /\ playlists' = playlists \cup {list} /\ UNCHANGED recordings
      /\ generation.stage = "flushed" /\ generation.locked = generation.tracks
  BY DEF GenerateCommits, content
<1>2. IsFiniteSet(playlists) /\ size \in Nat /\ \A p \in playlists : p.n \in 1..size
  BY FS_CardinalityType DEF LibraryInv, NumberedInv
<1>3. generation.tracks # {} /\ generation.tracks \subseteq recordings
  BY <1>1 DEF Inv, GenerationInv, ResetInv
<1> HIDE DEF size
<1>4. list.n = size + 1 /\ list.tracks = generation.tracks
  OBVIOUS
<1>5. \A other \in playlists : other.n # list.n
  BY <1>2, <1>4
<1> HIDE DEF list
<1>6. Shelf!Store
  BY <1>1, <1>3, <1>4, <1>5 DEF Shelf!Store
<1>7. IsFiniteSet(playlists') /\ Cardinality(playlists') = size + 1
  <2>1. list \notin playlists
    BY <1>5
  <2>2. QED
    BY <1>1, <1>2, <2>1, FS_AddElement DEF size
<1>8. \A p \in playlists' : p.n \in 1..Cardinality(playlists')
  BY <1>1, <1>2, <1>4, <1>7
<1>9. QED
  BY <1>6, <1>7, <1>8 DEF NumberedInv

\* Every row of a reset is new to the catalogue, and no playlist is left.
LEMMA ResetReplaces ==
  ASSUME Inv, LibraryInv, ResetCommits
  PROVE  Shelf!Replace /\ LibraryInv'
<1>1. /\ Imported({}, {}, {}, {}, {}, era + 1) /\ era' = era + 1 /\ era \in Nat
      /\ reset.stage = "cleared"
      /\ playlists' = {[p EXCEPT !.tracks = {}] : p \in playlists \ reset.doomed}
  BY DEF ResetCommits, Inv, FitInv
<1>2. playlists' = {}
  BY <1>1 DEF Inv, ResetInv
<1>3. \A r \in recordings' : r.era = era + 1
  BY <1>1, ImportedDated
<1>4. Shelf!Replace
  BY <1>1, <1>2, <1>3 DEF Shelf!Replace, LibraryInv, DatedInv
<1>5. DatedInv'
  BY <1>1, <1>3 DEF DatedInv
<1>6. NumberedInv'
  BY <1>2, FS_EmptySet DEF NumberedInv
<1>7. QED
  BY <1>4, <1>5, <1>6 DEF LibraryInv

LEMMA LibraryStep ==
  ASSUME Inv, LibraryInv, [Next]_vars
  PROVE  [Shelf!Next]_(Shelf!vars) /\ LibraryInv'
<1>0. era \in Nat
  BY DEF Inv, FitInv
<1>1. CASE ResetCommits
  BY <1>1, ResetReplaces DEF Shelf!Next
<1>2. CASE GenerateCommits
  <2>1. UNCHANGED <<recordings, era>>
    BY <1>2 DEF GenerateCommits, content
  <2>2. DatedInv'
    BY <2>1 DEF LibraryInv, DatedInv
  <2>3. QED
    BY <1>2, <2>2, CommitStores DEF Shelf!Next, LibraryInv
<1>3. CASE CrawlWrites \/ Import
  <2>1. UNCHANGED <<playlists, era>>
    BY <1>3 DEF CrawlWrites, Import, api
  <2>2. recordings \subseteq recordings' /\ \A r \in recordings' : r \in recordings \/ r.era = era
    <3>1. CASE CrawlWrites
      BY <3>1, CrawlWritesDated
    <3>2. CASE Import
      <4>1. Imported(recordings, credits, tagged, inherited, listens, era)
        BY <3>2 DEF Import
      <4>2. QED
        BY <1>0, <4>1, ImportedDated
    <3>3. QED
      BY <1>3, <3>1, <3>2
  <2>3. Shelf!Add
    BY <2>1, <2>2 DEF Shelf!Add
  <2>4. DatedInv' /\ NumberedInv'
    BY <1>0, <2>1, <2>2 DEF LibraryInv, DatedInv, NumberedInv
  <2>5. QED
    BY <2>3, <2>4 DEF Shelf!Next, LibraryInv
<1>4. CASE ~(ResetCommits \/ GenerateCommits \/ CrawlWrites \/ Import)
  <2>1. UNCHANGED <<recordings, playlists, era>>
    BY <1>4 DEF Next, CrawlStarts, CrawlLooksUp, DatasetPlays, DatasetItems, Enriches, Stops, Seeds,
       ResetBegins, ResetDeletes, ResetClears, MemberListens, Fits, Restarts, GenerateFlushes,
       GenerateInserts, DeadlockBroken, content, api, vars
  <2>2. LibraryInv'
    BY <2>1 DEF LibraryInv, DatedInv, NumberedInv
  <2>3. QED
    BY <2>1, <2>2 DEF Shelf!vars
<1>5. QED
  BY <1>1, <1>2, <1>3, <1>4

\* Whatever the scripts do between the API's steps, it sees a catalogue that
\* grows or is replaced as a whole, and playlists that stay as they were
\* stored until then.
THEOREM ImplementsLibrary == Spec => LibrarySpec
<1>1. Init => Inv /\ LibraryInv /\ Shelf!Init
  BY InitInv, InitLibrary
<1>2. Inv /\ LibraryInv /\ [Next]_vars => (Inv /\ LibraryInv)' /\ [Shelf!Next]_(Shelf!vars)
  BY NextInv, LibraryStep
<1>3. QED
  BY <1>1, <1>2, PTL DEF Spec, LibrarySpec, Shelf!Spec
=============================================================================
