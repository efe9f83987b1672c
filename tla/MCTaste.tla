------------------------------ MODULE MCTaste ------------------------------
(***************************************************************************)
(* Taste with three artists and a tag, three recordings (two of one name)  *)
(* and the exports of one listener: the same plays from three services, a  *)
(* page of ListenBrainz, and files that are not in the format they claim.  *)
(***************************************************************************)
EXTENDS Taste, TLC

CONSTANTS bjork, portishead, beatles, trip, r1, r2, r3, s1, s2, s3

MCArtists == {bjork, portishead, beatles}
MCTags == {trip}
MCRecordings == {r1, r2, r3}
MCSeeded == {r1, r3}
MCArtistsOf == (r1 :> {bjork}) @@ (r2 :> {bjork, portishead}) @@ (r3 :> {beatles})
MCNameOf == (bjork :> "Bjork") @@ (portishead :> "Portishead") @@ (beatles :> "The Beatles")
MCTitleOf == (r1 :> "Joga") @@ (r2 :> "Joga") @@ (r3 :> "Help")
MCMbidOf == (r1 :> "m1") @@ (r2 :> "m2") @@ (r3 :> "m3")

MCNames ==
  {"Bjork", "BJORK", "Portishead", "The Beatles", "Joga", "Joga - Remaster", "Help", "Debut"}
MCNormal == [n \in MCNames |-> CASE n = "BJORK" -> "Bjork"
                                 [] n = "Joga - Remaster" -> "Joga"
                                 [] OTHER -> n]
\* t1 and t2 are in one minute, which begins with t1.
MCTimes == {"t1", "t2", "t3", "t3m"}
MCMinute == ("t1" :> "t1") @@ ("t2" :> "t1") @@ ("t3" :> "t3m") @@ ("t3m" :> "t3m")

Played(artist, track, at, played) ==
  [of |-> "spotify_gdpr", artist |-> artist, track |-> track, at |-> at, played |-> played]
Listened(artist, track, at, mbid) ==
  [of |-> "listenbrainz", artist |-> artist, track |-> track, at |-> at, mbid |-> mbid]
Nothing == [of |-> "other"]

MCFiles ==
  << [kind |-> "array", exact |-> TRUE,
      rows |-> <<Nothing, Played("BJORK", "Joga - Remaster", "t1", 30),
                 Played("Bjork", "Joga", "t1", -1), Played("Bjork", "Joga", "t2", 29),
                 Played("The Beatles", Missing, "t2", 90)>>],
     [kind |-> "wrapped", exact |-> TRUE,
      rows |-> <<Nothing, Listened("Bjork", "Joga", "t1", "m2"),
                 Listened("The Beatles", "Help", "t2", "m9"),
                 Listened("The Beatles", "Help", "soon", "m3"),
                 Listened("Bjork", "Joga", "t3", Missing),
                 Listened("The Beatles", "Help", "t3", "m3")>>],
     [kind |-> "csv", exact |-> FALSE,
      rows |-> <<<<"track", "when", "artist">>, <<"Joga", "t2", "Bjork">>, <<Missing>>,
                 <<"Help", "t3", "The Beatles">>, <<"Help", "t1">>>>],
     [kind |-> "csv", exact |-> FALSE,
      rows |-> <<<<"Bjork", "Debut", "Joga", "t2">>, <<"The Beatles", Missing, "Help", "now">>>>],
     [kind |-> "object", exact |-> TRUE, rows |-> <<Nothing>>] >>

Symmetry == Permutations(Saves)
=============================================================================
