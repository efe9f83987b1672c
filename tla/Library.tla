------------------------------ MODULE Library ------------------------------
(***************************************************************************)
(* What whoever stores a playlist may count on: recordings are only added, *)
(* and a playlist stays as it was stored, until the whole catalogue is     *)
(* replaced by another at one moment, and all playlists go with it.        *)
(***************************************************************************)

VARIABLES
  shelf,   \* the recordings of the catalogue
  lists    \* the playlists: [n, tracks]

vars == <<shelf, lists>>

Init == shelf = {} /\ lists = {}

Add ==
  /\ shelf \subseteq shelf'
  /\ UNCHANGED lists

\* A playlist with a number of its own, of recordings that are there.
Store ==
  /\ \E list \in lists' :
       /\ lists' = lists \cup {list}
       /\ \A other \in lists : other.n # list.n
       /\ list.tracks # {} /\ list.tracks \subseteq shelf
  /\ UNCHANGED shelf

Replace ==
  /\ shelf' \cap shelf = {}
  /\ lists' = {}

Next == Add \/ Store \/ Replace

Spec == Init /\ [][Next]_vars
=============================================================================
