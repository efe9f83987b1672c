------------------------------ MODULE Dataset ------------------------------
(***************************************************************************)
(* From a dump of listens to a dataset, and from a dataset to a catalogue: *)
(* what scripts/build_dataset.py, enrich_tags.py, seed_listeners.py and    *)
(* build_catalog_from_dataset.py compute, without what they store.         *)
(*                                                                         *)
(* A dump is a sequence of lines [user, artist, track, at]; lines that do  *)
(* not parse are left out.  Where the code breaks a tie by number or by    *)
(* spelling, the choice here is fixed but arbitrary.                       *)
(***************************************************************************)
EXTENDS Integers, SequencesExt

CONSTANTS
  Normal,         \* normalise, on names
  PerUserCap, MinUserListens, MinItemListens, MaxUsers,   \* build_dataset
  MaxPerArtist, MinListeners,                             \* build_catalog_from_dataset
  MinHistory, MaxHistories                                \* listens of a seeded listener; listeners

ASSUME LimitsAssumption ==
  {PerUserCap, MinUserListens, MinItemListens, MaxUsers,
   MaxPerArtist, MinListeners, MinHistory, MaxHistories} \subseteq Nat

Key(artist, track) == <<Normal[artist], Normal[track]>>
SmallestOf(n, S) == Min({n, Cardinality(S)})

\* sorted(...)[:n]: the n elements of S with the highest scores.
Top(n, S, score) ==
  CHOOSE T \in SUBSET S :
    /\ Cardinality(T) = SmallestOf(n, S)
    /\ \A x \in T, y \in S \ T : score[x] >= score[y]

\* sorted(...) by falling score.
Ranked(S, score) ==
  CHOOSE f \in [1..Cardinality(S) -> S] :
    \A i, j \in 1..Cardinality(S) : i < j => f[i] # f[j] /\ score[f[i]] >= score[f[j]]

-----------------------------------------------------------------------------
(* build_dataset.build                                                     *)

\* The lines that are read: of each user, up to PerUserCap.
Lines(dump) ==
  {i \in DOMAIN dump : Cardinality({j \in 1..i : dump[j].user = dump[i].user}) <= PerUserCap}
KeyOfLine(dump, i) == Key(dump[i].artist, dump[i].track)

\* Users with enough of the items; items that enough of the users played.
Active(heard, items) == {u \in DOMAIN heard : Cardinality(heard[u] \cap items) >= MinUserListens}
Popular(heard, users) ==
  {k \in UNION {heard[u] : u \in users} :
    Cardinality({u \in users : k \in heard[u]}) >= MinItemListens}

\* The items, in order, and the interactions: a user, an item by its index,
\* and the earliest time that he played it.  Users are counted again after
\* items are dropped; items stay that none of those users played, unless the
\* users were too many and only the most active are taken.
Build(dump) ==
  LET lines == Lines(dump)
      LinesOf(u, k) == {i \in lines : dump[i].user = u /\ KeyOfLine(dump, i) = k}
      heard == [u \in {dump[i].user : i \in lines} |->
                 {KeyOfLine(dump, i) : i \in {i \in lines : dump[i].user = u}}]
      kept == Popular(heard, Active(heard, UNION Range(heard)))
      active == Active(heard, kept)
      users == Top(MaxUsers, active, [u \in active |-> Cardinality(heard[u] \cap kept)])
      keys == IF users = active THEN kept ELSE kept \cap UNION {heard[u] : u \in users}
      items == SetToSeq(keys) IN
  [items |-> items,
   plays |-> UNION {{[user |-> u, item |-> n, at |-> Min({dump[i].at : i \in LinesOf(u, items[n])})] :
                      n \in {n \in DOMAIN items : items[n] \in heard[u]}} : u \in users}]

-----------------------------------------------------------------------------
(* enrich_tags                                                             *)

\* An artist of the MusicBrainz dump: [names, votes, genres], with aliases
\* and sort name among the names and without genres of too few votes.
Candidates(name, dump) == {i \in DOMAIN dump : name \in {Normal[n] : n \in dump[i].names}}

\* collect: of the artists with a name, the first of those with most votes.
Best(name, dump) ==
  Min({i \in Candidates(name, dump) :
        \A j \in Candidates(name, dump) : dump[i].votes >= dump[j].votes})

\* main: artist_tags.json, with the genres that the catalogue has for them.
Enriched(items, dump, catalogue) ==
  LET targets == {item[1] : item \in Range(items)} IN
  UNION {{<<name, genre>> : genre \in dump[Best(name, dump)].genres} :
          name \in {name \in targets : Candidates(name, dump) # {}}}
  \cup {tag \in catalogue : tag[1] \in targets}

-----------------------------------------------------------------------------
(* build_catalog_from_dataset, seed_listeners                              *)

Listeners(plays, n) == Cardinality({p \in plays : p.item = n})

\* The items to import: of each artist the most listened, and of them those
\* with listeners enough.
Kept(items, plays) ==
  LET listeners == [n \in DOMAIN items |-> Listeners(plays, n)]
      By(artist) == {n \in DOMAIN items : items[n][1] = artist} IN
  {n \in UNION {Top(MaxPerArtist, By(item[1]), listeners) : item \in Range(items)} :
    listeners[n] >= MinListeners}

\* The listeners to seed, most active first: each has the items he played of
\* those that are in the catalogue, if they are enough.
Histories(plays, items, least) ==
  LET Of(u) == {p.item : p \in {p \in plays : p.user = u /\ p.item \in items}}
      users == {u \in {p.user : p \in plays} : Cardinality(Of(u)) >= least}
      ranked == Ranked(users, [u \in users |-> Cardinality(Of(u))]) IN
  [slot \in 1..SmallestOf(MaxHistories, users) |-> Of(ranked[slot])]
=============================================================================
