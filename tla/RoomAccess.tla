----------------------------- MODULE RoomAccess -----------------------------
(***************************************************************************)
(* What the rooms API promises about who is in a room, with no handlers,   *)
(* transactions or processes: every operation takes effect at one instant, *)
(* judged on the rows as they are at that instant.  One joiner takes one   *)
(* place and spends one use; nobody leaves a room that is still there.     *)
(***************************************************************************)
EXTENDS Naturals, FiniteSets

CONSTANTS Users, RoomIds, InviteIds, Capacity, Budget

VARIABLES
  open,     \* the rooms that exist
  people,   \* who is in each room
  door,     \* the invites that still admit somebody, and to which room
  spent     \* how many people each invite has admitted

vars == <<open, people, door, spent>>

Init ==
  /\ open \in SUBSET RoomIds
  /\ people \in [RoomIds -> SUBSET Users]
  /\ \A r \in RoomIds \ open : people[r] = {}
  /\ door = [i \in {} |-> 0]
  /\ spent = [i \in InviteIds |-> 0]

Open(r, u) ==
  /\ r \notin open
  /\ open' = open \cup {r}
  /\ people' = [people EXCEPT ![r] = {u}]
  /\ UNCHANGED <<door, spent>>

Close(r) ==
  /\ r \in open
  /\ open' = open \ {r}
  /\ people' = [people EXCEPT ![r] = {}]
  /\ door' = [i \in {j \in DOMAIN door : door[j] # r} |-> door[i]]
  /\ spent' = [i \in InviteIds |-> IF i \in DOMAIN door' THEN spent[i] ELSE 0]

Offer(r, i) ==
  /\ r \in open
  /\ i \notin DOMAIN door
  /\ door' = [j \in DOMAIN door \cup {i} |-> IF j = i THEN r ELSE door[j]]
  /\ UNCHANGED <<open, people, spent>>

Admit(u, i) ==
  /\ i \in DOMAIN door
  /\ u \notin people[door[i]]
  /\ Cardinality(people[door[i]]) < Capacity
  /\ spent[i] < Budget
  /\ people' = [people EXCEPT ![door[i]] = @ \cup {u}]
  /\ spent' = [spent EXCEPT ![i] = @ + 1]
  /\ UNCHANGED <<open, door>>

Next ==
  \/ \E r \in RoomIds, u \in Users : Open(r, u)
  \/ \E r \in RoomIds : Close(r)
  \/ \E r \in RoomIds, i \in InviteIds : Offer(r, i)
  \/ \E u \in Users, i \in InviteIds : Admit(u, i)

Spec == Init /\ [][Next]_vars
=============================================================================
