----------------------------- MODULE Catalogue -----------------------------
(***************************************************************************)
(* The catalogue in the database and the scripts that fill it while the    *)
(* API serves from it: build_catalog.py crawls ListenBrainz charts and     *)
(* MusicBrainz genres; build_dataset.py and enrich_tags.py write a dataset *)
(* to disk, which build_catalog_from_dataset.py and seed_listeners.py      *)
(* import; the API fits a snapshot of the listens and stores playlists.    *)
(*                                                                         *)
(* A script writes in one transaction and can be stopped before its        *)
(* commit; only the one of an import with --reset is seen by others before *)
(* that, by the rows it locks.  Scripts do not run at the same time.       *)
(***************************************************************************)
EXTENDS Dataset

CONSTANTS
  Dumps,          \* dumps of listens, and
  ArtistDump,     \*   the MusicBrainz dump of artists
  Charts,         \* ListenBrainz charts: each a set of [mbid, count]
  CreditsOf,      \* a charted recording's artists,
  NamesOf,        \*   the names on it, normalised, and
  NameOfArtist,   \*   each artist's name, normalised
  GenresOf,       \* what MusicBrainz answers for an artist
  MaxRuns,        \* bound: runs of scripts,
  MaxResets,      \*   and of them imports with --reset
  MaxPlaylists    \* bound: generations

ASSUME BoundsAssumption == MaxRuns \in Nat /\ MaxResets \in Nat /\ MaxPlaylists \in Nat

\* A dump ends; and collect_recordings skips a chart's row without an artist.
ASSUME SourcesAssumption ==
  /\ Len(Dumps) \in Nat /\ \A d \in 1..Len(Dumps) : IsFiniteSet(DOMAIN Dumps[d])
  /\ \A row \in UNION Charts :
       CreditsOf[row.mbid] # {} /\ CreditsOf[row.mbid] \subseteq DOMAIN NameOfArtist

VARIABLES
  \* On disk.
  disk,         \* the dataset: the dumps its interactions and its items are from, and its genres
  cache,        \* the artists whose genres are cached
  crawl,        \* build_catalog.py: what it found, and the artists to look up
  \* In the database.
  recordings,   \* rows of recordings: [id, era], a new row for each insertion
  credits,      \* recording_artists
  tagged,       \* artist_tags
  inherited,    \* recording_tags
  curated,      \* the artists whose name is the one MusicBrainz has
  listens,      \* the recordings each user has listened to
  playlists,    \* playlists and their tracks
  reset,        \* the import with --reset: the recordings and the playlists it has deleted
  \* In the API.
  fit,          \* the fitted snapshot
  generation,   \* the generation under way, and the recordings that its tracks have locked
  \* History.
  era,          \* counts imports with --reset
  merged,       \* datasets imported since the last of them
  runs          \* counts scripts up to MaxRuns

files == <<disk, cache, crawl>>
content == <<recordings, credits, tagged, inherited, curated, listens>>
api == <<playlists, fit, generation>>
vars == <<files, content, api, reset, era, merged, runs>>

NoFit == [recordings |-> {}, era |-> 0, made |-> FALSE]
NoGeneration == [stage |-> "none", tracks |-> {}, locked |-> {}, era |-> 0]
NoCrawl == [stage |-> "none", found |-> {}, todo |-> <<>>, details |-> {}]
NoReset == [stage |-> "none", gone |-> {}, doomed |-> {}]

Member == 0   \* a user who is no seeded listener: those are numbered
Artists == DOMAIN NameOfArtist

TypeOK ==
  /\ disk.plays \in 0..Len(Dumps) /\ disk.items \in 0..Len(Dumps) /\ disk.writing \in 0..Len(Dumps)
  /\ cache \subseteq Artists /\ curated \subseteq Artists
  /\ crawl.stage \in {"none", "looking"} /\ crawl.details \subseteq Artists
  /\ \A c \in credits : c[1] \in recordings
  /\ \A t \in inherited : t[1] \in recordings
  /\ \A l \in listens : l[2] \in recordings
  /\ \A p \in playlists : p.tracks \subseteq recordings
  /\ reset.stage \in {"none", "begun", "cleared"} /\ reset.gone \subseteq recordings
  /\ generation.stage \in {"none", "flushed", "failed", "aborted"}
  /\ generation.locked \subseteq generation.tracks
  /\ era \in 0..MaxResets

\* An empty database and no files.
Init ==
  /\ disk = [plays |-> 0, items |-> 0, genres |-> {}, writing |-> 0]
  /\ cache = {} /\ crawl = NoCrawl
  /\ recordings = {} /\ credits = {} /\ tagged = {} /\ inherited = {} /\ curated = {}
  /\ listens = {} /\ playlists = {} /\ reset = NoReset
  /\ fit = NoFit /\ generation = NoGeneration
  /\ era = 0 /\ merged = 0 /\ runs = 0

Quiet == crawl = NoCrawl /\ reset = NoReset /\ disk.writing = 0
Run == Quiet /\ runs < MaxRuns /\ runs' = runs + 1

-----------------------------------------------------------------------------
(* build_catalog.py                                                        *)

\* collect_recordings: the charts that answer, each recording with its
\* largest count; rank_artists: most listened first.
Count(m, charts) == Max({row.count : row \in {row \in UNION charts : row.mbid = m}})
Ranking(charts) ==
  LET found == {row.mbid : row \in UNION charts}
      artists == UNION {CreditsOf[m] : m \in found} IN
  Ranked(artists, [a \in artists |->
    MapThenSumSet(LAMBDA m : Count(m, charts), {m \in found : a \in CreditsOf[m]})])

\* Some charts may be unavailable; --max-artists and --skip-tags cut the
\* list of artists to look up.
CrawlStarts ==
  /\ Run
  /\ \E charts \in (SUBSET Charts) \ {{}} : \E n \in 0..Cardinality(Artists) :
       crawl' = [stage |-> "looking", found |-> {row.mbid : row \in UNION charts},
                 todo |-> SubSeq(Ranking(charts), 1, SmallestOf(n, DOMAIN Ranking(charts))),
                 details |-> {}]
  /\ UNCHANGED <<disk, cache, content, api, reset, era, merged>>

\* artist_genres: from the cache or from MusicBrainz, after retries, or not
\* at all.  A cached answer that was cut short is not one.
CrawlLooksUp ==
  /\ crawl.todo # <<>>
  /\ LET a == Head(crawl.todo) IN
     \/ /\ cache' = cache \cup {a}
        /\ crawl' = [crawl EXCEPT !.todo = Tail(@), !.details = @ \cup {a}]
     \/ /\ a \notin cache
        /\ crawl' = [crawl EXCEPT !.todo = Tail(@)]
        /\ UNCHANGED cache
  /\ UNCHANGED <<disk, content, api, reset, era, merged, runs>>

\* Row by id: the one there is (ON CONFLICT DO UPDATE), or a new one.
RowOf(id) ==
  IF \E r \in recordings : r.id = id THEN CHOOSE r \in recordings : r.id = id
                                     ELSE [id |-> id, era |-> era]
Inherit(newCredits, newTagged) ==
  {<<x[1][1], x[2][2]>> : x \in {x \in newCredits \X newTagged : x[1][2] = x[2][1]}}

\* Mutant: only the recordings of this run inherit their artists' tags.
CrawlWritesItsOwn ==
  LET rows == {RowOf(<<"mb", m>>) : m \in crawl.found}
      new == {<<r, <<"mb", a>>>> : r \in rows, a \in Artists} IN
  /\ crawl.stage = "looking" /\ crawl.todo = <<>>
  /\ recordings' = recordings \cup rows
  /\ credits' = credits \cup {c \in new : c[2][2] \in CreditsOf[c[1].id[2]]}
  /\ tagged' = tagged \cup UNION {{<<<<"mb", a>>, g>> : g \in GenresOf[a]} : a \in crawl.details}
  /\ inherited' = inherited \cup {t \in Inherit(credits', tagged') : t[1] \in rows}
  /\ curated' = curated
  /\ crawl' = NoCrawl
  /\ UNCHANGED <<disk, cache, listens, api, reset, era, merged, runs>>

\* write_catalogue: an artist whose lookup failed or was skipped gets the
\* name on the recording again.  Every recording inherits its artists' tags.
CrawlWrites ==
  LET rows == {RowOf(<<"mb", m>>) : m \in crawl.found}
      new == {<<r, <<"mb", a>>>> : r \in rows, a \in Artists} IN
  /\ crawl.stage = "looking" /\ crawl.todo = <<>>
  /\ recordings' = recordings \cup rows
  /\ credits' = credits \cup {c \in new : c[2][2] \in CreditsOf[c[1].id[2]]}
  /\ tagged' = tagged \cup UNION {{<<<<"mb", a>>, g>> : g \in GenresOf[a]} : a \in crawl.details}
  /\ inherited' = inherited \cup Inherit(credits', tagged')
  /\ curated' = (curated \ UNION {CreditsOf[m] : m \in crawl.found}) \cup crawl.details
  /\ crawl' = NoCrawl
  /\ UNCHANGED <<disk, cache, listens, api, reset, era, merged, runs>>

-----------------------------------------------------------------------------
(* build_dataset.py, enrich_tags.py                                        *)

Datasets == [d \in 1..Len(Dumps) |-> Build(Dumps[d])]
ItemsRead == Datasets[disk.items].items
PlaysRead == Datasets[disk.plays].plays
Readable == disk.items # 0 /\ disk.plays # 0

\* write: interactions.npz, then items.json.
DatasetPlays(d) ==
  /\ Run
  /\ disk' = [disk EXCEPT !.plays = d, !.writing = d]
  /\ UNCHANGED <<cache, crawl, content, api, reset, era, merged>>

DatasetItems ==
  /\ disk.writing # 0
  /\ disk' = [disk EXCEPT !.items = disk.writing, !.writing = 0]
  /\ UNCHANGED <<cache, crawl, content, api, reset, era, merged, runs>>

\* catalogue_tags: what the database has, by the artist's normalised name.
NameIn(a) == IF a[1] = "mb" THEN NameOfArtist[a[2]] ELSE a[2]
CatalogueTags == {<<NameIn(t[1]), t[2]>> : t \in tagged}

\* With --merge-catalogue, unless the database does not answer, or without.
Enriches ==
  /\ Run /\ disk.items # 0
  /\ \E found \in {{}, CatalogueTags} :
       disk' = [disk EXCEPT !.genres = Enriched(ItemsRead, ArtistDump, found)]
  /\ UNCHANGED <<cache, crawl, content, api, reset, era, merged>>

-----------------------------------------------------------------------------
(* build_catalog_from_dataset.py, seed_listeners.py                        *)

\* What an import adds to content without the recordings of --reset.  Rows
\* are by the ids derived from names.
ArtistId(name) == <<"name", name>>
Imported(old, oldCredits, oldTagged, oldInherited, oldListens, e) ==
  LET items == ItemsRead
      kept == Kept(items, PlaysRead)
      RowAt(n) == [id |-> items[n], era |-> e]
      newCredits == oldCredits \cup {<<RowAt(n), ArtistId(items[n][1])>> : n \in kept}
      newTagged == oldTagged \cup {<<ArtistId(t[1]), t[2]>> :
                     t \in {t \in disk.genres : \E n \in kept : items[n][1] = t[1]}}
      histories == Histories(PlaysRead, kept, MinHistory) IN
  /\ recordings' = old \cup {RowAt(n) : n \in kept}
  /\ credits' = newCredits
  /\ tagged' = newTagged
  /\ inherited' = oldInherited \cup Inherit(newCredits, newTagged)
  /\ listens' = oldListens \cup
       UNION {{<<slot, RowAt(n)>> : n \in histories[slot]} : slot \in DOMAIN histories}

\* Without --reset COPY accepts no recording that is there already.
Import ==
  /\ Run /\ Readable
  /\ \A n \in Kept(ItemsRead, PlaysRead) : \A r \in recordings : r.id # ItemsRead[n]
  /\ Imported(recordings, credits, tagged, inherited, listens, era)
  /\ merged' = merged + 1
  /\ UNCHANGED <<files, curated, api, reset, era>>

\* With --reset.
ResetBegins ==
  /\ Run /\ Readable /\ era < MaxResets
  /\ reset' = [NoReset EXCEPT !.stage = "begun"]
  /\ UNCHANGED <<files, content, api, era, merged>>

\* Mutant: the delete does not wait for the tracks of a generation.
ResetDeletesAtOnce ==
  /\ reset.stage = "begun"
  /\ \E r \in recordings \ reset.gone : reset' = [reset EXCEPT !.gone = @ \cup {r}]
  /\ UNCHANGED <<files, content, api, era, merged, runs>>

\* DELETE FROM recordings, a row at a time.  A row that a generation has
\* locked is waited for; whoever needs one that is deleted waits for the import.
ResetDeletes ==
  /\ reset.stage = "begun"
  /\ \E r \in recordings \ (reset.gone \cup generation.locked) :
       reset' = [reset EXCEPT !.gone = @ \cup {r}]
  /\ UNCHANGED <<files, content, api, era, merged, runs>>

\* Mutant: playlists are left alone.
ResetClearsNothing ==
  /\ reset.stage = "begun" /\ reset.gone = recordings
  /\ reset' = [reset EXCEPT !.stage = "cleared"]
  /\ UNCHANGED <<files, content, api, era, merged, runs>>

\* DELETE FROM playlists: those committed by now.
ResetClears ==
  /\ reset.stage = "begun" /\ reset.gone = recordings
  /\ reset' = [reset EXCEPT !.stage = "cleared", !.doomed = playlists]
  /\ UNCHANGED <<files, content, api, era, merged, runs>>

\* The dataset is imported into what is left.  Tracks, credits, tags and
\* listens have gone with their recordings, a member's listens too.
ResetCommits ==
  /\ reset.stage = "cleared"
  /\ Imported({}, {}, {}, {}, {}, era + 1)
  /\ curated' = {}
  /\ playlists' = {[p EXCEPT !.tracks = {}] : p \in playlists \ reset.doomed}
  /\ reset' = NoReset
  /\ era' = era + 1 /\ merged' = 1
  /\ UNCHANGED <<files, fit, generation, runs>>

\* match_key of what is in the catalogue; of several with one key, any.  With
\* --reset the listeners seeded before go first.
KeysOf(r) == IF r.id[1] = "mb" THEN NamesOf[r.id[2]] ELSE {r.id}
Seeds ==
  /\ Run /\ Readable
  /\ LET items == ItemsRead
         found == {n \in DOMAIN items : \E r \in recordings : items[n] \in KeysOf(r)}
         histories == Histories(PlaysRead, found, MinHistory) IN
     \E row \in [found -> recordings], old \in {listens, {l \in listens : l[1] = Member}} :
       /\ \A n \in found : items[n] \in KeysOf(row[n])
       /\ listens' = old \cup
            UNION {{<<slot, row[n]>> : n \in histories[slot]} : slot \in DOMAIN histories}
  /\ UNCHANGED <<files, recordings, credits, tagged, inherited, curated, api, reset, era, merged>>

\* A script dies or is interrupted: files stay as they are, the transaction
\* is rolled back.
Stops ==
  /\ ~Quiet
  /\ crawl' = NoCrawl /\ reset' = NoReset
  /\ disk' = [disk EXCEPT !.writing = 0]
  /\ UNCHANGED <<cache, content, api, era, merged, runs>>

-----------------------------------------------------------------------------
(* The API                                                                 *)

\* A member plays or imports a recording.
MemberListens ==
  /\ \E r \in recordings \ reset.gone : listens' = listens \cup {<<Member, r>>}
  /\ UNCHANGED <<files, recordings, credits, tagged, inherited, curated, api, reset, era, merged, runs>>

\* RecommenderService.snapshot: built once, for the life of the process.
Fits ==
  /\ ~fit.made /\ listens # {}
  /\ fit' = [recordings |-> {l[2] : l \in listens}, era |-> era, made |-> TRUE]
  /\ UNCHANGED <<files, content, playlists, generation, reset, era, merged, runs>>

Restarts ==
  /\ fit.made
  /\ fit' = NoFit
  /\ generation' = NoGeneration
  /\ UNCHANGED <<files, content, playlists, reset, era, merged, runs>>

\* generate_playlist: tracks of the snapshot; the playlist is flushed.
GenerateFlushes ==
  /\ fit.made /\ generation.stage \in {"none", "failed", "aborted"}
  /\ Cardinality(playlists) < MaxPlaylists
  /\ \E tracks \in (SUBSET fit.recordings) \ {{}} :
       generation' = [stage |-> "flushed", tracks |-> tracks, locked |-> {}, era |-> fit.era]
  /\ UNCHANGED <<files, content, playlists, fit, reset, era, merged, runs>>

\* Its tracks, one by one: the foreign key locks the recording, waits for one
\* that is being deleted, and refuses one that is gone.
GenerateInserts ==
  /\ generation.stage = "flushed"
  /\ \E r \in generation.tracks \ generation.locked :
       IF r \in recordings
       THEN r \notin reset.gone /\ generation' = [generation EXCEPT !.locked = @ \cup {r}]
       ELSE generation' = [generation EXCEPT !.stage = "failed", !.locked = {}]
  /\ UNCHANGED <<files, content, playlists, fit, reset, era, merged, runs>>

\* The generation and the reset wait for each other: one of them is undone.
DeadlockBroken ==
  /\ generation.locked # {} /\ generation.tracks \cap reset.gone # {}
  /\ \/ /\ generation' = [generation EXCEPT !.stage = "aborted", !.locked = {}]
        /\ UNCHANGED reset
     \/ /\ reset' = NoReset
        /\ UNCHANGED generation
  /\ UNCHANGED <<files, content, playlists, fit, era, merged, runs>>

GenerateCommits ==
  /\ generation.stage = "flushed" /\ generation.locked = generation.tracks
  /\ playlists' = playlists \cup {[n |-> Cardinality(playlists) + 1, tracks |-> generation.tracks]}
  /\ generation' = NoGeneration
  /\ UNCHANGED <<files, content, fit, reset, era, merged, runs>>

-----------------------------------------------------------------------------
Next ==
  \/ CrawlStarts \/ CrawlLooksUp \/ CrawlWrites
  \/ (\E d \in 1..Len(Dumps) : DatasetPlays(d)) \/ DatasetItems \/ Enriches
  \/ Import \/ Seeds \/ Stops
  \/ ResetBegins \/ ResetDeletes \/ ResetClears \/ ResetCommits
  \/ MemberListens \/ Fits \/ Restarts
  \/ GenerateFlushes \/ GenerateInserts \/ GenerateCommits \/ DeadlockBroken

Spec == Init /\ [][Next]_vars

-----------------------------------------------------------------------------
(* Properties                                                              *)

\* Whichever scripts ran, in whatever order and wherever they stopped: each
\* recording has an artist and, as "a recording inherits its artists' tags",
\* all the tags of its artists; and of no artist are there more recordings
\* than the imported datasets allow together, "so one release cannot own the
\* catalogue".
CatalogueWhole ==
  /\ \A r \in recordings : \E c \in credits : c[1] = r
  /\ Inherit(credits, tagged) \subseteq inherited
  /\ \A c \in credits : c[2][1] = "name" =>
       Cardinality({x \in credits : x[2] = c[2]}) <= MaxPerArtist * merged

\* "A rebuilt catalogue invalidates them all": whenever the rebuild comes in
\* between, a stored playlist has tracks; a generation is refused only if the
\* catalogue was reset after the snapshot that it used was fitted, and is
\* undone by a deadlock with a reset only if it has two tracks or more.
PlaylistsHold ==
  /\ \A p \in playlists : p.tracks # {} /\ p.tracks \subseteq recordings
  /\ generation.stage = "failed" => generation.era < era
  /\ generation.stage = "aborted" => \E r, s \in generation.tracks : r # s

\* Each script's writes show to the API as one step, those of --reset too,
\* which in the code are DELETEs and COPYs between which generations run.
Shelf == INSTANCE Library WITH shelf <- recordings, lists <- playlists

LibrarySpec == Shelf!Spec
=============================================================================
