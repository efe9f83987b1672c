------------------------------ MODULE RoomFeed ------------------------------
(***************************************************************************)
(* What a page may count on from the events of its room: they come in the  *)
(* order they were published and never twice, some may not come at all,    *)
(* and a page that has left hears no more.  Events are numbered.           *)
(***************************************************************************)
EXTENDS Naturals, Sequences

VARIABLES
  sent,     \* how many events have been published
  heard,    \* those shown to the page
  here      \* the page has not left

vars == <<sent, heard, here>>

Latest == IF heard = <<>> THEN 0 ELSE heard[Len(heard)]

Init == sent = 0 /\ heard = <<>> /\ here = TRUE

Publish ==
  /\ sent' = sent + 1
  /\ UNCHANGED <<heard, here>>

Show ==
  /\ here
  /\ \E e \in (Latest + 1)..sent : heard' = Append(heard, e)
  /\ UNCHANGED <<sent, here>>

Leave ==
  /\ here
  /\ here' = FALSE
  /\ UNCHANGED <<sent, heard>>

Next == Publish \/ Show \/ Leave

Spec == Init /\ [][Next]_vars
=============================================================================
