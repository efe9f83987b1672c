----------------------------- MODULE MCGenerate -----------------------------
(* An instance of Generate for TLC: a catalogue of five, two of them by one *)
(* artist, and members who agree, disagree, half-agree or are unknown.      *)
EXTENDS Explain

FiveItems == 1..5
FiveArtists == <<"a", "b", "a", "c", "">>
FivePlays == <<4, 0, 3, 3, 1>>

Fond == <<5, 4, 3, 2, 1>>
Averse == <<1, 2, 3, 4, 5>>
Split == <<3, 1, 3, 1, 2>>
Unknown == <<0, 0, 0, 0, 0>>

FourTastes == {Fond, Averse, Split, Unknown}
Genres == <<{"rock"}, {"rock", "shoegaze"}, {"rock"}, {}, {"folk"}>>
SaidAtOnboarding == <<{"shoegaze"}, {}, {"folk"}>>

SomeHistories == {{}, {1, 5}, {1, 2, 3, 4}}
=============================================================================
