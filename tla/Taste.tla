------------------------------- MODULE Taste -------------------------------
(***************************************************************************)
(* What CommonGround knows of one user's taste: the profile, stated at     *)
(* onboarding (set_onboarding in api/profiles.py) or learnt from uploaded  *)
(* listening histories (upload_import in api/imports.py), and the listens. *)
(*                                                                         *)
(* set_onboarding is a plain `def` handler: requests run in the thread     *)
(* pool, each in a READ COMMITTED transaction, and their statements        *)
(* interleave.  upload_import runs on the event loop without a pause, but  *)
(* waits for the rows that a transaction in the pool has locked.           *)
(***************************************************************************)
EXTENDS Exports

CONSTANTS
  None,
  Artists, Tags,      \* what can be picked at onboarding
  Recordings, Seeded, \* recordings, and those in the catalogue from the start,
  ArtistsOf, NameOf,  \*   their artists, and an artist's name,
  TitleOf, MbidOf,    \*   their title and MusicBrainz id
  Normal,             \* normalise, on names
  Files,              \* the sequence of exports that the user has
  MinListens,         \* PROFILE_ARTIST_MIN_LISTENS
  ProfileLimit,       \* PROFILE_ARTIST_LIMIT
  MaxInsert,          \* rows that one INSERT of listens can take (65535 parameters, 4 a row)
  Saves,              \* bound: requests to /profile/onboarding
  MaxPicks,           \* bound: items picked at once
  MaxImports          \* bound: uploads

ASSUME NoneAssumption == None \notin Saves
ASSUME CatalogueAssumption ==
  /\ IsFiniteSet(Artists) /\ IsFiniteSet(Recordings) /\ Seeded \subseteq Recordings
  /\ ArtistsOf \in [Recordings -> SUBSET Artists]
  /\ NameOf \in [Artists -> Names] /\ TitleOf \in [Recordings -> Names]
  /\ Normal \in [Names -> Names]
ASSUME BoundsAssumption ==
  {MinListens, ProfileLimit, MaxInsert, MaxPicks, MaxImports} \subseteq Nat /\ MinListens # 0

VARIABLES
  catalogue,    \* the recordings there are
  listens,      \* listens: recording and time; of: the parsed listen it was
  profile,      \* profile_artists and profile_tags: the source of each item's row
  onboarded,    \* users.onboarded_at is set
  imports,      \* imports: the status of each
  saves,        \* requests to /profile/onboarding: the rows of artists, then of tags, that
                \*   each deletes, and the saves ahead of it that are deleting one of them
  stated,       \* history: the last save to be committed
  tangled       \* history: the saves that ran at the same time as another writer

vars == <<catalogue, listens, profile, onboarded, imports, saves, stated, tangled>>

Items == Artists \cup Tags
From(source) == {x \in Items : profile[x] = source}

TypeOK ==
  /\ catalogue \subseteq Recordings
  /\ \A l \in listens : l.recording \in catalogue /\ l.at \in Times
  /\ profile \in [Items -> {"none", "onboarding", "import"}]
  /\ onboarded \in BOOLEAN
  /\ imports \in Seq({"done", "failed"})
  /\ saves \in [Saves -> [stage : {"none", "artists", "tags", "done", "failed"},
                          picks : SUBSET Items, old : SUBSET Items, ahead : SUBSET Saves]]
  /\ stated \in Saves \cup {None}
  /\ tangled \subseteq Saves

\* A new user.
Init ==
  /\ catalogue = Seeded
  /\ listens = {}
  /\ profile = [x \in Items |-> "none"]
  /\ onboarded = FALSE
  /\ imports = <<>>
  /\ saves = [s \in Saves |-> [stage |-> "none", picks |-> {}, old |-> {}, ahead |-> {}]]
  /\ stated = None
  /\ tangled = {}

-----------------------------------------------------------------------------
(* Onboarding                                                              *)

Deleting == {s \in Saves : saves[s].stage \in {"artists", "tags"}}
Locked == UNION {saves[s].old : s \in Deleting}
Deletes(s, picks, old) ==
  /\ saves[s].stage = "none"
  /\ saves' = [saves EXCEPT ![s] =
       [stage |-> "artists", picks |-> picks, old |-> old,
        ahead |-> {r \in Deleting : saves[r].old \cap old # {}}]]
  /\ tangled' = IF Deleting = {} THEN tangled ELSE tangled \cup Deleting \cup {s}
  /\ UNCHANGED <<catalogue, listens, profile, onboarded, imports, stated>>

\* Mutant: the picked artists are added to the old ones.
SaveDeleteNothing(s, picks) == Deletes(s, picks, {})

\* At least one item, all known.  DELETE FROM profile_artists sees the rows
\* that are committed; those that another save is deleting it will wait for.
SaveDelete(s, picks) == Deletes(s, picks, From("onboarding") \cap Artists)

\* DELETE FROM profile_tags, when that is done: what is committed by then.
SaveDeleteTags(s) ==
  LET tags == From("onboarding") \cap Tags IN
  /\ saves[s].stage = "artists" /\ saves[s].ahead \cap Deleting = {}
  /\ saves' = [saves EXCEPT ![s] =
       [stage |-> "tags", picks |-> saves[s].picks, old |-> saves[s].old \cup tags,
        ahead |-> {r \in Deleting \ {s} : saves[r].old \cap tags # {}}]]
  /\ UNCHANGED <<catalogue, listens, profile, onboarded, imports, stated, tangled>>

\* Rows deleted by a save that is committed are not there any more for
\* those that waited for it; what it inserted they never saw.
Ended(s, stage) ==
  saves' = [r \in Saves |-> CASE r = s -> [saves[s] EXCEPT !.stage = stage]
                              [] r \in Deleting \ {s} /\ stage = "done" ->
                                   [saves[r] EXCEPT !.old = @ \ saves[s].old]
                              [] OTHER -> saves[r]]

Inserting(s) == saves[s].stage = "tags" /\ saves[s].ahead \cap Deleting = {}
Remaining(s) == {x \in Items \ saves[s].old : profile[x] # "none"}

\* Mutant: the DELETEs ask for every source.
SaveCommitAllSources(s) ==
  /\ Inserting(s)
  /\ profile' = [x \in Items |-> IF x \in saves[s].picks THEN "onboarding" ELSE "none"]
  /\ onboarded' = TRUE
  /\ stated' = s
  /\ Ended(s, "done")
  /\ UNCHANGED <<catalogue, listens, imports, tangled>>

\* The old rows go, the picks are inserted and all is committed.
SaveCommit(s) ==
  /\ Inserting(s)
  /\ saves[s].picks \cap Remaining(s) = {}
  /\ profile' = [x \in Items |-> CASE x \in saves[s].picks -> "onboarding"
                                   [] x \in Remaining(s) -> profile[x]
                                   [] OTHER -> "none"]
  /\ onboarded' = TRUE
  /\ stated' = s
  /\ Ended(s, "done")
  /\ UNCHANGED <<catalogue, listens, imports, tangled>>

\* A pick has a row: the INSERT violates the primary key, and all is undone.
SaveFails(s) ==
  /\ Inserting(s)
  /\ saves[s].picks \cap Remaining(s) # {}
  /\ Ended(s, "failed")
  /\ UNCHANGED <<catalogue, listens, profile, onboarded, imports, stated, tangled>>

-----------------------------------------------------------------------------
(* Imports                                                                 *)

Parsed == [i \in DOMAIN Files |-> [format \in Formats |->
            IF Unreadable(Files[i], format) THEN <<>> ELSE Parse(Files[i], format)]]

\* match_key, and the keys of each recording: one for each of its artists.
KeyOf(artist, title) == <<Normal[artist], Normal[title]>>
Keys == [r \in Recordings |-> {KeyOf(NameOf[a], TitleOf[r]) : a \in ArtistsOf[r]}]

\* _catalogue_index: of the recordings with one key, whichever comes first.
Indexes ==
  {f \in [UNION {Keys[r] : r \in catalogue} -> catalogue] :
    \A key \in DOMAIN f : key \in Keys[f[key]]}

\* _store resolves a parsed listen by its MusicBrainz id, or else by name.
ByMbid(l) == {r \in catalogue : MbidOf[r] = l.mbid}
Resolve(l, index) ==
  LET key == KeyOf(l.artist, l.track) IN
  IF ByMbid(l) # {} THEN ByMbid(l)
  ELSE IF key \in DOMAIN index THEN {index[key]} ELSE {}

\* The rows to insert, by the place of their listens in the file.
Rows(parsed, index) ==
  UNION {{[row |-> [recording |-> r, at |-> parsed[i].at, of |-> parsed[i]], place |-> i] :
           r \in Resolve(parsed[i], index)} : i \in Listens(parsed)}
Clash(k, l) == k.recording = l.recording /\ k.at = l.at

\* Mutant: every row is stored.
StoreAll(rows) == listens \cup {x.row : x \in rows}

\* ON CONFLICT DO NOTHING: a row is stored if no other has its recording and
\* time, or had them before in the same file.
Store(rows) ==
  listens \cup {x.row : x \in {x \in rows :
    /\ \A l \in listens : ~Clash(l, x.row)
    /\ \A y \in rows : y.place < x.place => ~Clash(y.row, x.row)}}

Plays(a, rows) == Cardinality({l \in rows : a \in ArtistsOf[l.recording]})
Frequent(rows) == {a \in Artists : Plays(a, rows) >= MinListens}

\* _profile_from_listens: the artists played most; of a tie, any.
Promotions(rows) ==
  LET frequent == Frequent(rows) IN
  {p \in SUBSET frequent :
    /\ Cardinality(p) = Min({ProfileLimit, Cardinality(frequent)})
    /\ \A a \in p, b \in frequent \ p : Plays(a, rows) >= Plays(b, rows)}

\* The declared format or, of "auto", the detected one.  If that is none,
\* nothing is recorded.
Uploaded(i, declared, format) ==
  /\ Len(imports) < MaxImports
  /\ format = IF declared = "auto" THEN Detect(Files[i]) ELSE declared
  /\ format \in Formats

\* UnknownFormatError: the file is not in that format.
ImportUnreadable(i, format) ==
  /\ Unreadable(Files[i], format)
  /\ imports' = Append(imports, "failed")
  /\ UNCHANGED <<catalogue, listens, profile, onboarded, saves, stated, tangled>>

\* Stored, promoted and committed.  The rows in the way of a promotion are
\* waited for; more rows than an INSERT can take undo everything.
Import(i, format) ==
  /\ ~Unreadable(Files[i], format)
  /\ \E index \in Indexes :
       LET rows == Rows(Parsed[i][format], index)
           stored == Store(rows) IN
       /\ Cardinality(rows) <= MaxInsert
       /\ listens' = stored
       /\ \E promoted \in Promotions(stored) :
            /\ promoted \cap Locked = {}
            /\ profile' = [x \in Items |-> IF x \in promoted THEN "import" ELSE profile[x]]
  /\ imports' = Append(imports, "done")
  /\ UNCHANGED <<catalogue, onboarded, saves, stated, tangled>>

\* The import waits for a row that the save deletes, and the save for one
\* that the import promotes: one of the two is undone.  The save, here.
ImportUndoesSave(i, format, s) ==
  /\ ~Unreadable(Files[i], format)
  /\ Inserting(s)
  /\ \E index \in Indexes :
       LET rows == Rows(Parsed[i][format], index) IN
       /\ Cardinality(rows) <= MaxInsert
       /\ \E promoted \in Promotions(Store(rows)) :
            /\ promoted \cap saves[s].old # {}
            /\ promoted \cap (saves[s].picks \ saves[s].old) # {}
  /\ tangled' = tangled \cup {s}
  /\ Ended(s, "failed")
  /\ UNCHANGED <<catalogue, listens, profile, onboarded, imports, stated>>

\* scripts/build_catalog.py or its like adds recordings.
Grow ==
  /\ \E r \in Recordings \ catalogue : catalogue' = catalogue \cup {r}
  /\ UNCHANGED <<listens, profile, onboarded, imports, saves, stated, tangled>>

Upload(i, declared) ==
  \E format \in Formats :
    /\ Uploaded(i, declared, format)
    /\ \/ ImportUnreadable(i, format)
       \/ Import(i, format)
       \/ \E s \in Saves : ImportUndoesSave(i, format, s)

Save(s) ==
  \/ \E picks \in (SUBSET Items) \ {{}} : Cardinality(picks) <= MaxPicks /\ SaveDelete(s, picks)
  \/ SaveDeleteTags(s)
  \/ SaveCommit(s)
  \/ SaveFails(s)

Next ==
  \/ \E s \in Saves : Save(s)
  \/ \E i \in DOMAIN Files, declared \in Formats \cup {"auto"} : Upload(i, declared)
  \/ Grow

Spec == Init /\ [][Next]_vars

-----------------------------------------------------------------------------
(* Properties                                                              *)

\* The promise of 001_init.sql at listens, as far as it holds: however often
\* and against whatever catalogue a play is uploaded, it is stored at no time
\* but its own and the start of its minute, as exact as the export was, and
\* at one time only for recordings that all answer to it.
Answers(r, l) == MbidOf[r] = l.mbid \/ KeyOf(l.artist, l.track) \in Keys[r]
SamePlay(k, l) ==
  k.of.played = l.of.played /\ KeyOf(k.of.artist, k.of.track) = KeyOf(l.of.artist, l.of.track)
PlayCountedOnce ==
  \A k, l \in listens :
    k # l /\ SamePlay(k, l) =>
      IF k.at = l.at
      THEN k.recording # l.recording /\ Answers(k.recording, k.of) /\ Answers(l.recording, l.of)
      ELSE {k.at, l.at} = {l.of.played, Minute[l.of.played]}

\* _profile_from_listens, "so re-running onboarding does not erase them": the
\* promoted artists are played often enough, and an artist who is as well is
\* missing only if the profile is full of artists played as much.
PromotedFromPlays ==
  /\ From("import") \subseteq Frequent(listens)
  /\ \A a \in Frequent(listens) \ From("import") :
       Cardinality({b \in From("import") : Plays(b, listens) >= Plays(a, listens)}) >= ProfileLimit

\* set_onboarding, "Replace the explicit part of a taste profile": whatever
\* ran beside the last save, the profile states all that it stated but the
\* artists that imports have promoted; and if no other save ran beside it,
\* it states nothing else.
StatedIsLastSave ==
  stated # None =>
    /\ saves[stated].picks \ From("import") \subseteq From("onboarding")
    /\ stated \notin tangled => From("onboarding") \subseteq saves[stated].picks

\* A save fails only where a pick is an artist promoted by an import, or
\* beside another writer; never because of what earlier saves stated.
SaveFailsForCause ==
  \A s \in Saves \ tangled : saves[s].stage = "failed" => saves[s].picks \cap From("import") # {}
=============================================================================
