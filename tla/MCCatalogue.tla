---------------------------- MODULE MCCatalogue ----------------------------
(***************************************************************************)
(* Catalogue with two dumps of listens that share a track, two charts that *)
(* share a recording, and an artist dump with two artists of one name.     *)
(***************************************************************************)
EXTENDS Catalogue, TLC

MCNormal == [n \in {"A", "a", "b", "v", "w", "x", "y", "z"} |-> IF n = "A" THEN "a" ELSE n]

Line(user, artist, track, at) == [user |-> user, artist |-> artist, track |-> track, at |-> at]
MCDumps ==
  << <<Line(1, "A", "x", 5), Line(1, "a", "x", 3), Line(1, "A", "y", 4), Line(1, "b", "z", 6),
       Line(1, "b", "w", 7), Line(2, "A", "x", 1), Line(2, "a", "y", 2), Line(2, "b", "z", 3),
       Line(3, "A", "y", 1), Line(3, "b", "z", 2), Line(4, "b", "w", 2)>>,
     <<Line(1, "a", "x", 8), Line(1, "b", "z", 8), Line(1, "b", "v", 9), Line(5, "A", "x", 8),
       Line(5, "b", "v", 9)>> >>
MCArtistDump ==
  << [names |-> {"A"}, votes |-> 2, genres |-> {"rock"}],
     [names |-> {"a", "b"}, votes |-> 3, genres |-> {"pop"}],
     [names |-> {"b"}, votes |-> 3, genres |-> {"jazz"}] >>

MCCharts == {{[mbid |-> "m1", count |-> 3]},
             {[mbid |-> "m1", count |-> 5], [mbid |-> "m2", count |-> 6]}}
MCCreditsOf == ("m1" :> {"p"}) @@ ("m2" :> {"p", "q"})
MCNamesOf == ("m1" :> {<<"a", "x">>}) @@ ("m2" :> {<<"a", "z">>, <<"b", "z">>})
MCNameOfArtist == ("p" :> "a") @@ ("q" :> "b")
MCGenresOf == ("p" :> {"rock"}) @@ ("q" :> {"jazz"})
=============================================================================
