---------------------------- MODULE TasteProofs ----------------------------
(***************************************************************************)
(* Proofs about Taste, for any catalogue, exports, picks and number of     *)
(* saves and uploads.                                                      *)
(***************************************************************************)
EXTENDS Taste, FiniteSetTheorems, TLAPS

-----------------------------------------------------------------------------
(* Listens                                                                 *)

\* What the stored listens have in common: each answers to the parsed listen
\* it was stored for, at the time the export told, and no two have one
\* recording and time.
Told(at, l) == at \in {l.played, Minute[l.played]}
ListensInv ==
  /\ \A l \in listens : Answers(l.recording, l.of) /\ Told(l.at, l.of)
  /\ \A k, l \in listens : Clash(k, l) => k = l

\* A recording found for a parsed listen, by id or by name, answers to it.
LEMMA ResolvedAnswers ==
  ASSUME NEW l, NEW index \in Indexes, NEW r \in Resolve(l, index)
  PROVE  Answers(r, l)
<1> DEFINE key == KeyOf(l.artist, l.track)
<1>1. CASE ByMbid(l) # {}
  BY <1>1 DEF Resolve, ByMbid, Answers
<1>2. CASE ByMbid(l) = {}
  <2>1. key \in DOMAIN index /\ r = index[key]
    BY <1>2 DEF Resolve
  <2>2. key \in Keys[index[key]]
    BY <2>1 DEF Indexes
  <2>3. QED
    BY <2>1, <2>2 DEF Answers
<1>3. QED
  BY <1>1, <1>2

\* An export tells when a play was, or its minute.
LEMMA TimesTold ==
  ASSUME NEW f, NEW format \in Formats, NEW i \in Listens(Parse(f, format))
  PROVE  Told(Parse(f, format)[i].at, Parse(f, format)[i])
<1> DEFINE rows == First(MaxRows, RowsOf(f, format))
           outcome == Outcome(f, format, rows[i])
           l == Parse(f, format)[i]
<1>1. l = Timed(f, outcome) /\ l.to = "listens"
  BY DEF Parse, Listens
<1>2. \/ \E artist, track, at, mbid : outcome = Listen(artist, track, at, mbid)
      \/ outcome = Skip
  <2> HIDE DEF rows
  <2>1. QED
    BY DEF Outcome, Formats, SpotifyRow, ListenBrainzRow, LastfmRow
<1> HIDE DEF outcome, l
<1>3. CASE outcome = Skip
  BY <1>1, <1>3 DEF Timed, Skip
<1>4. ASSUME NEW artist, NEW track, NEW at, NEW mbid, outcome = Listen(artist, track, at, mbid)
      PROVE  Told(l.at, l)
  BY <1>1, <1>4 DEF Timed, Listen, Told
<1>5. QED
  BY <1>2, <1>3, <1>4 DEF l

LEMMA RowsAnswer ==
  ASSUME NEW parsed, NEW index \in Indexes, NEW x \in Rows(parsed, index)
  PROVE  /\ Answers(x.row.recording, x.row.of)
         /\ \E i \in Listens(parsed) : x.row.of = parsed[i] /\ x.row.at = parsed[i].at
         /\ \A y \in Rows(parsed, index) :
              x.place = y.place /\ Clash(x.row, y.row) => x.row = y.row
<1> DEFINE RowAt(i, r) == [row |-> [recording |-> r, at |-> parsed[i].at, of |-> parsed[i]],
                           place |-> i]
<1>1. \A y \in Rows(parsed, index) :
        \E i \in Listens(parsed) : \E r \in Resolve(parsed[i], index) : y = RowAt(i, r)
  BY DEF Rows
<1>2. PICK i \in Listens(parsed) : \E r \in Resolve(parsed[i], index) : x = RowAt(i, r)
  BY <1>1
<1>3. PICK r \in Resolve(parsed[i], index) : x = RowAt(i, r)
  BY <1>2
<1>4. x.row.recording = r /\ x.row.of = parsed[i] /\ x.row.at = parsed[i].at /\ x.place = i
  BY <1>3
<1>5. Answers(r, parsed[i])
  BY ResolvedAnswers
<1>6. ASSUME NEW y \in Rows(parsed, index), x.place = y.place, Clash(x.row, y.row)
      PROVE  x.row = y.row
  <2>1. PICK j \in Listens(parsed) : \E q \in Resolve(parsed[j], index) : y = RowAt(j, q)
    BY <1>1
  <2>2. PICK q \in Resolve(parsed[j], index) : y = RowAt(j, q)
    BY <2>1
  <2>3. y.place = j /\ y.row.recording = q
    BY <2>2
  <2>4. j = i /\ q = r
    BY <2>3, <1>4, <1>6 DEF Clash
  <2>5. QED
    BY <2>2, <2>4, <1>3
<1>7. QED
  BY <1>4, <1>5, <1>6

\* The places of listens are integers, so of two rows one comes first.
LEMMA ParsedPlaces ==
  ASSUME NEW f, NEW format
  PROVE  DOMAIN Parse(f, format) \subseteq Int
<1>1. DOMAIN First(MaxRows, RowsOf(f, format)) \subseteq Int
  BY DEF First
<1>2. DOMAIN Parse(f, format) = DOMAIN First(MaxRows, RowsOf(f, format))
  BY DEF Parse
<1>3. QED
  BY <1>1, <1>2

LEMMA PlacesAreOrdered ==
  ASSUME NEW i \in DOMAIN Files, NEW format \in Formats, NEW index,
         NEW x \in Rows(Parsed[i][format], index), NEW y \in Rows(Parsed[i][format], index)
  PROVE  x.place = y.place \/ x.place < y.place \/ y.place < x.place
<1> DEFINE parsed == Parsed[i][format]
<1>1. parsed = IF Unreadable(Files[i], format) THEN <<>> ELSE Parse(Files[i], format)
  BY DEF Parsed
<1>2. \A n \in DOMAIN parsed : n \in Int
  <2>1. CASE Unreadable(Files[i], format)
    <3>1. parsed = <<>>
      BY <1>1, <2>1
    <3>2. DOMAIN parsed = 1..0
      BY <3>1
    <3>3. QED
      BY <3>2
  <2>2. CASE ~Unreadable(Files[i], format)
    BY <1>1, <2>2, ParsedPlaces
  <2>3. QED
    BY <2>1, <2>2
<1>3. \A z \in Rows(parsed, index) : z.place \in DOMAIN parsed
  BY DEF Rows, Listens
<1>4. x.place \in Int /\ y.place \in Int
  BY <1>2, <1>3
<1>5. QED
  BY <1>4

LEMMA StoreKeepsListens ==
  ASSUME ListensInv, NEW i \in DOMAIN Files, NEW format \in Formats, NEW index \in Indexes,
         listens' = Store(Rows(Parsed[i][format], index))
  PROVE  ListensInv'
<1> DEFINE rows == Rows(Parsed[i][format], index)
           Old(l) == l \in listens
           New(l) == \E x \in rows : /\ l = x.row
                                     /\ \A k \in listens : ~Clash(k, l)
                                     /\ \A y \in rows : y.place < x.place => ~Clash(y.row, l)
<1>1. \A l \in listens' : Old(l) \/ New(l)
  BY DEF Store
<1>2. \A l \in listens' : Answers(l.recording, l.of) /\ Told(l.at, l.of)
  <2>1. TAKE l \in listens'
  <2>2. CASE Old(l)
    BY <2>2 DEF ListensInv
  <2>3. CASE New(l)
    <3>1. PICK x \in rows : l = x.row
      BY <2>3
    <3>2. Answers(l.recording, l.of)
      BY <3>1, RowsAnswer
    <3>3. PICK j \in Listens(Parsed[i][format]) :
            l.of = Parsed[i][format][j] /\ l.at = Parsed[i][format][j].at
      BY <3>1, RowsAnswer
    <3>4. ~Unreadable(Files[i], format)
      BY <3>3 DEF Parsed, Listens
    <3>5. Parsed[i][format] = Parse(Files[i], format)
      BY <3>4 DEF Parsed
    <3>6. Told(l.at, l.of)
      BY <3>3, <3>5, TimesTold
    <3>7. QED
      BY <3>2, <3>6
  <2>4. QED
    BY <1>1, <2>2, <2>3
<1>3. ASSUME NEW k \in listens', NEW l \in listens', Clash(k, l)
      PROVE  k = l
  <2>1. Clash(l, k)
    BY <1>3 DEF Clash
  <2>2. CASE Old(k) /\ Old(l)
    BY <2>2, <1>3 DEF ListensInv
  <2>3. ~(Old(k) /\ New(l)) /\ ~(New(k) /\ Old(l))
    BY <1>3, <2>1
  <2>4. CASE New(k) /\ New(l)
    <3>1. PICK x \in rows : k = x.row /\ \A y \in rows : y.place < x.place => ~Clash(y.row, k)
      BY <2>4
    <3>2. PICK y \in rows : l = y.row /\ \A z \in rows : z.place < y.place => ~Clash(z.row, l)
      BY <2>4
    <3>3. ~(y.place < x.place) /\ ~(x.place < y.place)
      BY <3>1, <3>2, <1>3, <2>1
    <3>4. x.place = y.place
      BY <3>3, PlacesAreOrdered
    <3>5. QED
      BY <3>1, <3>2, <3>4, <1>3, RowsAnswer
  <2>5. QED
    BY <1>1, <2>2, <2>3, <2>4
<1>4. QED
  BY <1>2, <1>3 DEF ListensInv, Answers, Clash, Told

\* What a step does to the listens: nothing, or an import stores.
LEMMA ListensStep == ListensInv /\ [Next]_vars => ListensInv'
<1> SUFFICES ASSUME ListensInv, [Next]_vars
             PROVE  ListensInv'
  OBVIOUS
<1>1. CASE UNCHANGED listens
  BY <1>1 DEF ListensInv, Answers, Clash, Told
<1>2. ASSUME NEW i \in DOMAIN Files, NEW format \in Formats, Import(i, format)
      PROVE  ListensInv'
  <2>1. PICK index \in Indexes : listens' = Store(Rows(Parsed[i][format], index))
    BY <1>2 DEF Import
  <2>2. QED
    BY <2>1, StoreKeepsListens
<1>3. UNCHANGED listens \/ \E i \in DOMAIN Files, format \in Formats : Import(i, format)
  BY DEF Next, Save, SaveDelete, Deletes, SaveDeleteTags, SaveCommit, SaveFails, Upload, ImportUnreadable,
         ImportUndoesSave, Grow, vars
<1>4. QED
  BY <1>1, <1>2, <1>3

\* What holds of 001_init.sql's promise at listens: for every catalogue and in
\* any order of uploads, a play is stored twice only where two recordings
\* answer to it, or at its time and at the start of that time's minute.
THEOREM PlaysAreCountedOnce == Spec => []PlayCountedOnce
<1>1. Init => ListensInv
  BY DEF Init, ListensInv
<1>2. ListensInv => PlayCountedOnce
  <2> SUFFICES ASSUME ListensInv, NEW k \in listens, NEW l \in listens, k # l, SamePlay(k, l)
               PROVE  IF k.at = l.at
                      THEN k.recording # l.recording /\ Answers(k.recording, k.of) /\ Answers(l.recording, l.of)
                      ELSE {k.at, l.at} = {l.of.played, Minute[l.of.played]}
    BY DEF PlayCountedOnce
  <2>1. Told(k.at, k.of) /\ Told(l.at, l.of) /\ k.of.played = l.of.played
    BY DEF ListensInv, SamePlay
  <2>2. QED
    BY <2>1 DEF ListensInv, Clash, Told
<1>3. QED
  BY <1>1, <1>2, ListensStep, PTL DEF Spec

-----------------------------------------------------------------------------
(* Saves                                                                   *)

Typed ==
  /\ profile \in [Items -> {"none", "onboarding", "import"}]
  /\ saves \in [Saves -> [stage : {"none", "artists", "tags", "done", "failed"},
                          picks : SUBSET Items, old : SUBSET Items, ahead : SUBSET Saves]]
  /\ tangled \subseteq Saves

\* A save that nobody ran beside deletes all that was stated; one that others
\* ran beside still deletes only rows that were stated.
DeletingInv ==
  \A s \in Deleting :
    /\ saves[s].old \subseteq From("onboarding")
    /\ s \notin tangled =>
         /\ Deleting = {s}
         /\ saves[s].stage = "artists" => saves[s].old = From("onboarding") \cap Artists
         /\ saves[s].stage = "tags" => saves[s].old = From("onboarding")

StatedInv ==
  stated # None =>
    /\ stated \in Saves /\ saves[stated].stage = "done"
    /\ saves[stated].picks \ From("import") \subseteq From("onboarding")
    /\ stated \notin tangled => From("onboarding") \subseteq saves[stated].picks

SavesInv == Typed /\ DeletingInv /\ StatedInv /\ SaveFailsForCause

LEMMA InitSaves == Init => SavesInv
BY DEF Init, SavesInv, Typed, Deleting, DeletingInv, StatedInv, SaveFailsForCause

\* What the end of a save does to the others.
LEMMA EndedSaves ==
  ASSUME Typed, NEW s \in Saves, NEW stage \in {"done", "failed"}, Ended(s, stage)
  PROVE  /\ saves' \in [Saves -> [stage : {"none", "artists", "tags", "done", "failed"},
                          picks : SUBSET Items, old : SUBSET Items, ahead : SUBSET Saves]]
         /\ saves'[s].stage = stage /\ saves'[s].picks = saves[s].picks
         /\ \A r \in Saves \ {s} :
              /\ saves'[r].stage = saves[r].stage /\ saves'[r].picks = saves[r].picks
              /\ saves'[r].old = IF stage = "done" /\ r \in Deleting
                                 THEN saves[r].old \ saves[s].old ELSE saves[r].old
<1> DEFINE Row == [stage : {"none", "artists", "tags", "done", "failed"},
                   picks : SUBSET Items, old : SUBSET Items, ahead : SUBSET Saves]
           Without(r) == saves[r].old \ saves[s].old
<1>1. \A r \in Saves : saves[r] \in Row
  BY DEF Typed
<1>2. saves'[s] = [saves[s] EXCEPT !.stage = stage]
  <2>1. \A r \in Saves : r = s => saves'[r] = [saves[s] EXCEPT !.stage = stage]
    BY Zenon DEF Ended
  <2>2. QED
    BY <2>1
<1>3. ASSUME NEW r \in Saves \ {s}
      PROVE  saves'[r] = IF r \in Deleting /\ stage = "done"
                         THEN [saves[r] EXCEPT !.old = Without(r)] ELSE saves[r]
  BY Zenon DEF Ended
<1>4. /\ saves'[s] \in Row
      /\ saves'[s].stage = stage /\ saves'[s].picks = saves[s].picks
  BY <1>1, <1>2
<1>5. ASSUME NEW r \in Saves \ {s}
      PROVE  /\ saves'[r] \in Row
             /\ saves'[r].stage = saves[r].stage /\ saves'[r].picks = saves[r].picks
             /\ saves'[r].old = IF stage = "done" /\ r \in Deleting
                                THEN Without(r) ELSE saves[r].old
  <2>1. Without(r) \subseteq Items
    BY <1>1
  <2>2. CASE r \in Deleting /\ stage = "done"
    <3>1. saves'[r] = [saves[r] EXCEPT !.old = Without(r)]
      BY <2>2, <1>3
    <3> HIDE DEF Without
    <3>2. QED
      BY <3>1, <2>1, <2>2, <1>1 DEF Deleting
  <2>3. CASE ~(r \in Deleting /\ stage = "done")
    BY <2>3, <1>1, <1>3 DEF Deleting
  <2>4. QED
    BY <2>2, <2>3
<1>6. saves' = [r \in Saves |-> saves'[r]]
  <2> DEFINE New(r) == CASE r = s -> [saves[s] EXCEPT !.stage = stage]
                         [] r \in Deleting \ {s} /\ stage = "done" -> [saves[r] EXCEPT !.old = @ \ saves[s].old]
                         [] OTHER -> saves[r]
  <2>1. saves' = [r \in Saves |-> New(r)]
    BY DEF Ended
  <2> HIDE DEF New
  <2>2. QED
    BY <2>1
<1>7. QED
  BY <1>4, <1>5, <1>6

LEMMA DeleteStep ==
  ASSUME SavesInv, NEW s \in Saves, NEW picks \in SUBSET Items, SaveDelete(s, picks)
  PROVE  SavesInv'
<1> DEFINE artists == From("onboarding") \cap Artists
           ahead == {r \in Deleting : saves[r].old \cap artists # {}}
           new == [stage |-> "artists", picks |-> picks, old |-> artists, ahead |-> ahead]
<1>1. /\ saves[s].stage = "none" /\ saves' = [saves EXCEPT ![s] = new]
      /\ UNCHANGED <<profile, stated>>
      /\ tangled' = IF Deleting = {} THEN tangled ELSE tangled \cup Deleting \cup {s}
  BY DEF SaveDelete, Deletes
<1>2. new \in [stage : {"none", "artists", "tags", "done", "failed"},
              picks : SUBSET Items, old : SUBSET Items, ahead : SUBSET Saves]
  BY DEF From, Deleting
<1>3. new.stage = "artists" /\ new.old = artists
  OBVIOUS
<1> HIDE DEF new
<1>4. /\ saves'[s] = new
      /\ \A r \in Saves \ {s} : saves'[r] = saves[r]
  BY <1>1 DEF SavesInv, Typed
<1>5. Deleting' = Deleting \cup {s}
  BY <1>3, <1>4 DEF Deleting
<1>6. Typed'
  BY <1>1, <1>2 DEF SavesInv, Typed, Deleting
<1>7. From("onboarding")' = From("onboarding") /\ From("import")' = From("import")
  BY <1>1 DEF From
<1>8. DeletingInv'
  <2>1. ASSUME NEW r \in Deleting'
        PROVE  /\ saves'[r].old \subseteq From("onboarding")
               /\ r \notin tangled' =>
                    /\ Deleting' = {r}
                    /\ saves'[r].stage = "artists" => saves'[r].old = artists
                    /\ saves'[r].stage = "tags" => saves'[r].old = From("onboarding")
    <3>1. CASE r = s
      BY <3>1, <1>1, <1>3, <1>4, <1>5
    <3>2. CASE r # s
      BY <3>2, <2>1, <1>1, <1>4, <1>5 DEF SavesInv, DeletingInv, Deleting
    <3>3. QED
      BY <3>1, <3>2
  <2>2. QED
    BY <2>1, <1>7 DEF DeletingInv
<1>9. StatedInv'
  BY <1>1, <1>4, <1>7 DEF SavesInv, StatedInv
<1>10. SaveFailsForCause'
  BY <1>1, <1>3, <1>4, <1>7 DEF SavesInv, SaveFailsForCause
<1>11. QED
  BY <1>6, <1>8, <1>9, <1>10 DEF SavesInv

LEMMA DeleteTagsStep ==
  ASSUME SavesInv, NEW s \in Saves, SaveDeleteTags(s)
  PROVE  SavesInv'
<1> DEFINE tags == From("onboarding") \cap Tags
           ahead == {r \in Deleting \ {s} : saves[r].old \cap tags # {}}
           new == [stage |-> "tags", picks |-> saves[s].picks, old |-> saves[s].old \cup tags,
                   ahead |-> ahead]
<1>1. /\ saves[s].stage = "artists" /\ saves' = [saves EXCEPT ![s] = new]
      /\ UNCHANGED <<profile, stated, tangled>>
  BY DEF SaveDeleteTags
<1>2. new \in [stage : {"none", "artists", "tags", "done", "failed"},
              picks : SUBSET Items, old : SUBSET Items, ahead : SUBSET Saves]
  <2>1. saves[s].picks \subseteq Items /\ saves[s].old \cup tags \subseteq Items /\ ahead \subseteq Saves
    BY DEF From, Deleting, SavesInv, Typed
  <2>2. QED
    BY <2>1
<1>3. new.stage = "tags" /\ new.picks = saves[s].picks /\ new.old = saves[s].old \cup tags
  OBVIOUS
<1> HIDE DEF new
<1>4. /\ saves'[s] = new
      /\ \A r \in Saves \ {s} : saves'[r] = saves[r]
  BY <1>1 DEF SavesInv, Typed
<1>5. Deleting' = Deleting /\ s \in Deleting
  BY <1>1, <1>3, <1>4 DEF Deleting
<1>6. Typed'
  BY <1>1, <1>2 DEF SavesInv, Typed
<1>7. From("onboarding")' = From("onboarding") /\ From("import")' = From("import")
  BY <1>1 DEF From
<1>8. DeletingInv'
  <2>1. ASSUME NEW r \in Deleting
        PROVE  /\ saves'[r].old \subseteq From("onboarding")
               /\ r \notin tangled =>
                    /\ Deleting = {r}
                    /\ saves'[r].stage = "artists" => saves'[r].old = From("onboarding") \cap Artists
                    /\ saves'[r].stage = "tags" => saves'[r].old = From("onboarding")
    <3>1. CASE r = s
      <4>1. saves'[s].stage = "tags" /\ saves'[s].old = saves[s].old \cup tags
        BY <1>3, <1>4
      <4>2. From("onboarding") = (From("onboarding") \cap Artists) \cup tags
        BY DEF From, Items
      <4>3. QED
        BY <3>1, <4>1, <4>2, <1>1, <1>5 DEF SavesInv, DeletingInv
    <3>2. CASE r # s
      BY <3>2, <2>1, <1>4 DEF SavesInv, DeletingInv, Deleting
    <3>3. QED
      BY <3>1, <3>2
  <2>2. QED
    BY <2>1, <1>1, <1>5, <1>7 DEF DeletingInv
<1>9. StatedInv'
  BY <1>1, <1>4, <1>7 DEF SavesInv, StatedInv
<1>10. SaveFailsForCause'
  BY <1>1, <1>3, <1>4, <1>7 DEF SavesInv, SaveFailsForCause
<1>11. QED
  BY <1>6, <1>8, <1>9, <1>10 DEF SavesInv

\* What a save that nobody ran beside does not delete, imports have promoted.
LEMMA RemainingIsPromoted ==
  ASSUME SavesInv, NEW s \in Saves, saves[s].stage = "tags", s \notin tangled
  PROVE  Remaining(s) = From("import") /\ saves[s].old = From("onboarding")
<1>1. saves[s].old = From("onboarding")
  BY DEF SavesInv, DeletingInv, Deleting
<1>2. QED
  BY <1>1 DEF SavesInv, Typed, Remaining, From

LEMMA CommitStep ==
  ASSUME SavesInv, NEW s \in Saves, SaveCommit(s)
  PROVE  SavesInv'
<1> DEFINE picks == saves[s].picks
<1>1. /\ saves[s].stage = "tags" /\ picks \cap Remaining(s) = {}
      /\ stated' = s /\ UNCHANGED tangled /\ Ended(s, "done")
  BY DEF SaveCommit, Inserting
<1>2. /\ profile' \in [Items -> {"none", "onboarding", "import"}]
      /\ \A x \in Items : profile'[x] = IF x \in picks THEN "onboarding"
                                        ELSE IF x \in Remaining(s) THEN profile[x] ELSE "none"
  BY DEF SaveCommit, SavesInv, Typed
<1>3. Typed'
  BY <1>1, <1>2, EndedSaves DEF SavesInv, Typed
<1>4. picks \subseteq Items /\ saves[s].old \subseteq From("onboarding")
  BY <1>1 DEF SavesInv, Typed, DeletingInv, Deleting
<1>5. From("import")' = From("import")
  BY <1>1, <1>2, <1>4 DEF From, Remaining
<1>6. From("onboarding")' = picks \cup (From("onboarding") \ saves[s].old)
  BY <1>1, <1>2, <1>4 DEF From, Remaining
<1> DEFINE Others(r) ==
             /\ saves'[r].stage = saves[r].stage /\ saves'[r].picks = saves[r].picks
             /\ r \in Deleting => saves'[r].old = saves[r].old \ saves[s].old
<1>a. /\ saves'[s].stage = "done" /\ saves'[s].picks = picks
      /\ \A r \in Saves \ {s} : Others(r)
  <2>1. "done" \in {"done", "failed"} /\ Typed
    BY DEF SavesInv
  <2>2. QED
    BY <1>1, <2>1, EndedSaves
<1>7. DeletingInv'
  <2>1. ASSUME NEW r \in Deleting'
        PROVE  r \in tangled /\ saves'[r].old \subseteq From("onboarding")'
    <3>1. r # s
      BY <2>1, <1>a DEF Deleting
    <3>2. r \in Deleting /\ saves'[r].old = saves[r].old \ saves[s].old
      BY <2>1, <3>1, <1>a DEF Deleting
    <3>3. r \in tangled
      BY <3>1, <3>2, <1>1 DEF SavesInv, DeletingInv, Deleting
    <3>4. QED
      BY <3>2, <3>3, <1>6 DEF SavesInv, DeletingInv
  <2>2. QED
    BY <2>1, <1>1 DEF DeletingInv
<1>8. StatedInv'
  <2>1. s \notin tangled => saves[s].old = From("onboarding")
    BY <1>1, RemainingIsPromoted
  <2>2. saves'[s].stage = "done" /\ saves'[s].picks = picks
    BY <1>a
  <2>3. QED
    BY <2>1, <2>2, <1>1, <1>5, <1>6 DEF StatedInv
<1>9. SaveFailsForCause'
  BY <1>1, <1>5, <1>a DEF SavesInv, SaveFailsForCause
<1>10. QED
  BY <1>3, <1>7, <1>8, <1>9 DEF SavesInv

\* A save that is undone: it found a row in its way, or an import did.
LEMMA FailedStep ==
  ASSUME SavesInv, NEW s \in Saves, saves[s].stage = "tags", Ended(s, "failed"),
         UNCHANGED <<profile, stated>>,
         tangled' \in {tangled, tangled \cup {s}},
         s \in tangled' \/ saves[s].picks \cap From("import") # {}
  PROVE  SavesInv'
<1>1. Typed'
  BY EndedSaves DEF SavesInv, Typed
<1>2. From("onboarding")' = From("onboarding") /\ From("import")' = From("import")
  BY DEF From
<1>3. \A r \in Deleting' : r \in Deleting /\ r \in tangled /\ saves'[r].old = saves[r].old
  BY EndedSaves DEF SavesInv, DeletingInv, Deleting
<1>4. DeletingInv'
  BY <1>2, <1>3 DEF SavesInv, DeletingInv
<1>5. StatedInv'
  BY <1>2, EndedSaves DEF SavesInv, StatedInv
<1>6. SaveFailsForCause'
  BY <1>2, EndedSaves DEF SavesInv, SaveFailsForCause
<1>7. QED
  BY <1>1, <1>4, <1>5, <1>6 DEF SavesInv

\* An import promotes past no row that a save is deleting.
LEMMA PromotionStep ==
  ASSUME SavesInv, NEW promoted \in SUBSET Artists, promoted \cap Locked = {},
         profile' = [x \in Items |-> IF x \in promoted THEN "import" ELSE profile[x]],
         UNCHANGED <<saves, stated, tangled>>
  PROVE  SavesInv'
<1>1. promoted \subseteq Items
  BY DEF Items
<1>2. Typed'
  BY DEF SavesInv, Typed
<1>3. /\ From("onboarding")' = From("onboarding") \ promoted
      /\ From("import")' = From("import") \cup promoted
  BY <1>1 DEF From, SavesInv, Typed
<1>4. \A s \in Deleting : saves[s].old \cap promoted = {}
  BY DEF Locked
<1>5. Deleting' = Deleting
  BY DEF Deleting
<1>6. DeletingInv'
  <2>1. ASSUME NEW s \in Deleting
        PROVE  /\ saves[s].old \subseteq From("onboarding")'
               /\ s \notin tangled =>
                    /\ Deleting = {s}
                    /\ saves[s].stage = "artists" => saves[s].old = From("onboarding")' \cap Artists
                    /\ saves[s].stage = "tags" => saves[s].old = From("onboarding")'
    <3>1. /\ saves[s].old \subseteq From("onboarding")
          /\ s \notin tangled =>
               /\ Deleting = {s}
               /\ saves[s].stage = "artists" => saves[s].old = From("onboarding") \cap Artists
               /\ saves[s].stage = "tags" => saves[s].old = From("onboarding")
      BY DEF SavesInv, DeletingInv
    <3>2. PICK old : old = saves[s].old
      OBVIOUS
    <3>3. old \cap promoted = {} /\ promoted \subseteq Artists
      BY <1>4, <3>2
    <3>4. PICK before : before = From("onboarding")
      OBVIOUS
    <3>5. before \ promoted = From("onboarding")'
      BY <1>3, <3>4
    <3>6. /\ old \subseteq before => old \subseteq before \ promoted
          /\ old = before \cap Artists => old = (before \ promoted) \cap Artists
          /\ old = before => old = before \ promoted
      BY <3>3
    <3>7. QED
      BY <3>1, <3>2, <3>4, <3>5, <3>6
  <2>2. QED
    BY <2>1, <1>5 DEF DeletingInv
<1>7. StatedInv'
  BY <1>3 DEF SavesInv, StatedInv
<1>8. SaveFailsForCause'
  BY <1>3 DEF SavesInv, SaveFailsForCause
<1>9. QED
  BY <1>2, <1>6, <1>7, <1>8 DEF SavesInv

LEMMA ImportStep ==
  ASSUME SavesInv, NEW i \in DOMAIN Files, NEW format \in Formats, Import(i, format)
  PROVE  SavesInv'
<1>1. PICK rows : \E promoted \in Promotions(rows) :
        /\ promoted \cap Locked = {}
        /\ profile' = [x \in Items |-> IF x \in promoted THEN "import" ELSE profile[x]]
  BY DEF Import
<1>2. PICK promoted \in Promotions(rows) :
        /\ promoted \cap Locked = {}
        /\ profile' = [x \in Items |-> IF x \in promoted THEN "import" ELSE profile[x]]
  BY <1>1
<1>3. promoted \subseteq Artists
  BY DEF Promotions, Frequent
<1>4. UNCHANGED <<saves, stated, tangled>>
  BY DEF Import
<1>5. QED
  BY <1>2, <1>3, <1>4, PromotionStep

LEMMA UnchangedStep ==
  ASSUME SavesInv, UNCHANGED <<profile, saves, stated, tangled>>
  PROVE  SavesInv'
BY DEF SavesInv, Typed, DeletingInv, StatedInv, SaveFailsForCause, From, Deleting

LEMMA SaveStep ==
  ASSUME SavesInv, NEW s \in Saves, Save(s)
  PROVE  SavesInv'
<1>1. ASSUME NEW picks \in SUBSET Items, SaveDelete(s, picks)
      PROVE  SavesInv'
  BY <1>1, DeleteStep
<1>2. CASE SaveCommit(s)
  BY <1>2, CommitStep
<1>3. CASE SaveFails(s)
  <2>1. saves[s].stage = "tags" /\ saves[s].picks \cap Remaining(s) # {}
    BY <1>3 DEF SaveFails, Inserting
  <2>2. s \in tangled \/ saves[s].picks \cap From("import") # {}
    BY <2>1, RemainingIsPromoted
  <2>3. QED
    BY <1>3, <2>1, <2>2, FailedStep DEF SaveFails
<1>4. QED
  BY <1>1, <1>2, <1>3, DeleteTagsStep DEF Save

LEMMA UploadStep ==
  ASSUME SavesInv, NEW i \in DOMAIN Files, NEW declared, Upload(i, declared)
  PROVE  SavesInv'
<1>1. PICK format \in Formats :
        \/ ImportUnreadable(i, format)
        \/ Import(i, format)
        \/ \E s \in Saves : ImportUndoesSave(i, format, s)
  BY DEF Upload
<1>2. CASE ImportUnreadable(i, format)
  BY <1>2, UnchangedStep DEF ImportUnreadable
<1>3. ASSUME NEW s \in Saves, ImportUndoesSave(i, format, s)
      PROVE  SavesInv'
  BY <1>3, FailedStep DEF ImportUndoesSave, Inserting
<1>4. QED
  BY <1>1, <1>2, <1>3, ImportStep

LEMMA NextSaves == SavesInv /\ [Next]_vars => SavesInv'
<1> SUFFICES ASSUME SavesInv, [Next]_vars PROVE SavesInv'
  OBVIOUS
<1>1. CASE Grow \/ UNCHANGED vars
  BY <1>1, UnchangedStep DEF Grow, vars
<1>2. QED
  BY <1>1, SaveStep, UploadStep DEF Next

\* set_onboarding, "Replace the explicit part": for any picks and whatever
\* saves and uploads ran beside the last save, nothing that it stated is lost
\* but to a promotion; and if no save ran beside it, nothing older is left.
THEOREM StatedIsWhatWasSaved == Spec => []StatedIsLastSave
<1>1. SavesInv => StatedIsLastSave
  BY DEF SavesInv, StatedInv, StatedIsLastSave
<1>2. QED
  BY <1>1, InitSaves, NextSaves, PTL DEF Spec

\* set_onboarding's INSERT: a save that nothing ran beside is refused for a
\* promoted artist among its picks and for nothing else.
THEOREM SavesFailForCause == Spec => []SaveFailsForCause
<1>1. SavesInv => SaveFailsForCause
  BY DEF SavesInv
<1>2. QED
  BY <1>1, InitSaves, NextSaves, PTL DEF Spec

-----------------------------------------------------------------------------
(* Promoted artists                                                        *)

LEMMA FiniteImage ==
  ASSUME NEW S, IsFiniteSet(S), NEW f
  PROVE  IsFiniteSet({f[x] : x \in S})
<1> DEFINE g == [x \in S |-> f[x]]
           T == {f[x] : x \in S}
<1>1. g \in Surjection(S, T)
  BY DEF Surjection
<1>2. QED
  BY <1>1, FS_Surjection

\* A file has a bounded number of rows that are looked at.
LEMMA FewListens ==
  ASSUME NEW i \in DOMAIN Files, NEW format \in Formats
  PROVE  IsFiniteSet(Listens(Parsed[i][format]))
<1>1. IsFiniteSet(1..MaxRows)
  BY LimitsAssumption, FS_Interval
<1>2. DOMAIN Parse(Files[i], format) \subseteq 1..MaxRows
  BY DEF Parse, First
<1>3. DOMAIN Parsed[i][format] \subseteq 1..MaxRows
  BY <1>2 DEF Parsed
<1>4. Listens(Parsed[i][format]) \subseteq 1..MaxRows
  BY <1>3 DEF Listens
<1>5. QED
  BY <1>1, <1>4, FS_Subset

Bounded == catalogue \subseteq Recordings /\ IsFiniteSet(listens)

LEMMA StoreIsFinite ==
  ASSUME Bounded, NEW i \in DOMAIN Files, NEW format \in Formats, NEW index \in Indexes
  PROVE  /\ IsFiniteSet(Store(Rows(Parsed[i][format], index)))
         /\ listens \subseteq Store(Rows(Parsed[i][format], index))
<1> PICK parsed : parsed = Parsed[i][format]
  OBVIOUS
<1> DEFINE Place == Listens(parsed) \X Recordings
           row == [p \in Place |-> [recording |-> p[2], at |-> parsed[p[1]].at,
                                    of |-> parsed[p[1]]]]
           rows == Rows(parsed, index)
           all == {row[p] : p \in Place}
<1>1. IsFiniteSet(all)
  <2>1. IsFiniteSet(Place)
    BY FewListens, CatalogueAssumption, FS_Product
  <2> HIDE DEF Place, row
  <2>2. QED
    BY <2>1, FiniteImage
<1>2. \A x \in rows : x.row \in all
  <2> SUFFICES ASSUME NEW x \in rows PROVE x.row \in all
    OBVIOUS
  <2> DEFINE RowAt(j, r) == [row |-> [recording |-> r, at |-> parsed[j].at, of |-> parsed[j]],
                             place |-> j]
  <2>0. PICK j \in Listens(parsed) : \E r \in Resolve(parsed[j], index) : x = RowAt(j, r)
    BY DEF Rows
  <2>1. PICK r \in Resolve(parsed[j], index) : x = RowAt(j, r)
    BY <2>0
  <2>2. r \in Recordings
    <3>1. \A key \in DOMAIN index : index[key] \in catalogue
      BY DEF Indexes
    <3>2. QED
      BY <3>1 DEF Resolve, ByMbid, Bounded
  <2>3. <<j, r>> \in Place /\ x.row = row[<<j, r>>]
    BY <2>1, <2>2
  <2>4. QED
    BY <2>3
<1>3. Store(rows) \subseteq listens \cup all /\ listens \subseteq Store(rows)
  <2> HIDE DEF rows, all
  <2>1. QED
    BY <1>2 DEF Store
<1>4. IsFiniteSet(listens \cup all)
  BY <1>1, FS_Union DEF Bounded
<1>5. QED
  BY <1>3, <1>4, FS_Subset

\* More listens are no fewer plays of anybody.
LEMMA PlaysGrow ==
  ASSUME NEW more, IsFiniteSet(more), NEW few \in SUBSET more, NEW a
  PROVE  Plays(a, few) \in Nat /\ Plays(a, more) \in Nat /\ Plays(a, few) <= Plays(a, more)
<1> DEFINE Of(rows) == {l \in rows : a \in ArtistsOf[l.recording]}
<1>1. Of(few) \in SUBSET Of(more) /\ Of(more) \in SUBSET more
  OBVIOUS
<1>2. IsFiniteSet(Of(more)) /\ IsFiniteSet(Of(few))
  BY <1>1, FS_Subset
<1>3. Cardinality(Of(few)) <= Cardinality(Of(more))
  BY <1>1, <1>2, FS_Subset
<1>4. QED
  BY <1>2, <1>3, FS_CardinalityType DEF Plays

\* Of what may be promoted, no more is left out than the profile has no room for.
LEMMA PromotedAreMost ==
  ASSUME NEW rows, IsFiniteSet(rows), NEW promoted \in Promotions(rows), NEW a \in Frequent(rows) \ promoted
  PROVE  /\ Cardinality(promoted) = ProfileLimit
         /\ \A b \in promoted : Plays(b, rows) >= Plays(a, rows)
<1>1. /\ promoted \subseteq Frequent(rows)
      /\ Cardinality(promoted) = Min({ProfileLimit, Cardinality(Frequent(rows))})
      /\ \A b \in promoted : Plays(b, rows) >= Plays(a, rows)
  BY DEF Promotions
<1>2. IsFiniteSet(Frequent(rows))
  BY CatalogueAssumption, FS_Subset DEF Frequent
<1>3. Cardinality(promoted) # Cardinality(Frequent(rows))
  BY <1>1, <1>2, FS_Subset
<1>4. Min({ProfileLimit, Cardinality(Frequent(rows))}) \in {ProfileLimit, Cardinality(Frequent(rows))}
  <2>1. Cardinality(Frequent(rows)) \in Nat /\ ProfileLimit \in Nat
    BY <1>2, FS_CardinalityType, BoundsAssumption
  <2>2. \E x \in {ProfileLimit, Cardinality(Frequent(rows))} :
          \A y \in {ProfileLimit, Cardinality(Frequent(rows))} : x =< y
    BY <2>1
  <2>3. QED
    BY <2>2 DEF Min
<1>5. QED
  BY <1>1, <1>3, <1>4

PromotedInv == Bounded /\ PromotedFromPlays

\* An import's promotions, on top of earlier ones.
LEMMA PromotesMost ==
  ASSUME SavesInv, PromotedInv, NEW i \in DOMAIN Files, NEW format \in Formats, Import(i, format)
  PROVE  PromotedInv'
<1>1. PICK index \in Indexes :
        /\ listens' = Store(Rows(Parsed[i][format], index))
        /\ \E promoted \in Promotions(Store(Rows(Parsed[i][format], index))) :
             profile' = [x \in Items |-> IF x \in promoted THEN "import" ELSE profile[x]]
  BY DEF Import
<1>2. PICK rows : rows = Store(Rows(Parsed[i][format], index))
  OBVIOUS
<1>3. listens' = rows /\ IsFiniteSet(rows) /\ listens \in SUBSET rows
  BY <1>1, <1>2, StoreIsFinite DEF PromotedInv
<1>4. PICK promoted \in Promotions(rows) :
        profile' = [x \in Items |-> IF x \in promoted THEN "import" ELSE profile[x]]
  BY <1>1, <1>2
<1>5. promoted \subseteq Frequent(rows) /\ Frequent(rows) \subseteq Artists
  BY DEF Promotions, Frequent
<1>6. From("import")' = From("import") \cup promoted
  BY <1>4, <1>5 DEF From, Items, SavesInv, Typed
<1>7. From("import")' \subseteq Frequent(rows)
  <2>1. Frequent(listens) \subseteq Frequent(rows)
    BY <1>3, PlaysGrow, BoundsAssumption DEF Frequent
  <2>2. QED
    BY <1>5, <1>6, <2>1 DEF PromotedInv, PromotedFromPlays
<1>8. PICK from : from = From("import")'
  OBVIOUS
<1>9. ASSUME NEW a \in Frequent(rows) \ from
      PROVE  Cardinality({b \in from : Plays(b, rows) >= Plays(a, rows)}) >= ProfileLimit
  <2> DEFINE ahead == {b \in from : Plays(b, rows) >= Plays(a, rows)}
  <2>1. Cardinality(promoted) = ProfileLimit /\ promoted \in SUBSET ahead
    BY <1>3, <1>6, <1>8, PromotedAreMost
  <2>2. IsFiniteSet(ahead)
    BY <1>5, <1>7, <1>8, CatalogueAssumption, FS_Subset
  <2>3. Cardinality(promoted) <= Cardinality(ahead) /\ Cardinality(ahead) \in Nat
    BY <2>1, <2>2, FS_Subset, FS_CardinalityType
  <2>4. QED
    BY <2>1, <2>3, BoundsAssumption
<1>10. PromotedFromPlays'
  BY <1>3, <1>7, <1>8, <1>9 DEF PromotedFromPlays
<1>11. Bounded'
  BY <1>3 DEF Bounded, PromotedInv, Import
<1>12. QED
  BY <1>10, <1>11 DEF PromotedInv

LEMMA PromotedStep == SavesInv /\ PromotedInv /\ [Next]_vars => PromotedInv'
<1> SUFFICES ASSUME SavesInv, PromotedInv, [Next]_vars PROVE PromotedInv'
  OBVIOUS
<1>1. ASSUME UNCHANGED <<listens, From("import")>>, catalogue' \subseteq Recordings
      PROVE  PromotedInv'
  BY <1>1 DEF PromotedInv, Bounded, PromotedFromPlays, Frequent, Plays
<1>2. ASSUME NEW s \in Saves, SaveCommit(s)
      PROVE  PromotedInv'
  <2>1. saves[s].old \subseteq From("onboarding")
    BY <1>2 DEF SaveCommit, Inserting, SavesInv, DeletingInv, Deleting
  <2>2. From("import")' = From("import")
    BY <1>2, <2>1 DEF SaveCommit, From, Remaining
  <2>3. QED
    BY <1>1, <1>2, <2>2 DEF SaveCommit, PromotedInv, Bounded
<1>3. ASSUME NEW i \in DOMAIN Files, NEW format \in Formats, Import(i, format)
      PROVE  PromotedInv'
  BY <1>3, PromotesMost
<1>4. CASE UNCHANGED <<listens, profile>> /\ catalogue' \subseteq Recordings
  BY <1>1, <1>4 DEF From
<1>5. \/ \E s \in Saves : SaveCommit(s)
      \/ \E i \in DOMAIN Files, format \in Formats : Import(i, format)
      \/ UNCHANGED <<listens, profile>> /\ catalogue' \subseteq Recordings
  BY DEF PromotedInv, Bounded, Next, Save, SaveDelete, Deletes, SaveDeleteTags, SaveFails, Upload,
         ImportUnreadable, ImportUndoesSave, Grow, vars
<1>6. QED
  BY <1>2, <1>3, <1>4, <1>5

\* _profile_from_listens: for any exports and any saves beside them, the artists
\* promoted are played often enough, and no artist played more than one of them
\* is left out but for want of room.
THEOREM PromotedAreEarned == Spec => []PromotedFromPlays
<1>1. Init => PromotedInv
  <2> SUFFICES ASSUME Init PROVE PromotedInv
    OBVIOUS
  <2>1. From("import") = {}
    BY DEF Init, From
  <2>2. IsFiniteSet(listens) /\ catalogue \subseteq Recordings
    BY FS_EmptySet, CatalogueAssumption DEF Init
  <2>3. Frequent(listens) = {}
    <3>1. \A a : {l \in listens : a \in ArtistsOf[l.recording]} = {}
      BY DEF Init
    <3>2. \A a : Plays(a, listens) = 0
      BY <3>1, FS_EmptySet DEF Plays
    <3>3. QED
      BY <3>2, BoundsAssumption DEF Frequent
  <2>4. QED
    BY <2>1, <2>2, <2>3 DEF PromotedInv, Bounded, PromotedFromPlays
<1>2. PromotedInv => PromotedFromPlays
  BY DEF PromotedInv
<1>3. QED
  BY <1>1, <1>2, InitSaves, NextSaves, PromotedStep, PTL DEF Spec
=============================================================================
