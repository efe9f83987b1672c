----------------------------- MODULE RoomsProofs -----------------------------
(* Proofs about Rooms, for every number of processes, users, rooms and      *)
(* invites and every limit.                                                 *)
EXTENDS Rooms, FiniteSetTheorems, TLAPS

-----------------------------------------------------------------------------
(* Type correctness                                                        *)

JoinTask == [at : {"found", "admitted"}, user : Users, room : RoomIds,
             invite : InviteIds, uses : 0..(MaxUses - 1)]
PatchTask == [at : {"patching"}, room : RoomIds, mode : Modes, changed : BOOLEAN]

\* The task at a process is the one its stage says.
LEMMA TaskShape ==
  ASSUME TypeOK, NEW p \in Processes
  PROVE  /\ loop[p].at \in {"found", "admitted"} => loop[p] \in JoinTask
         /\ loop[p].at = "patching" => loop[p] \in PatchTask
  BY DEF TypeOK, Task, Idle, JoinTask, PatchTask

\* An event the broadcaster is handed leaves the clients' beliefs well typed.
LEMMA EmitType ==
  ASSUME TypeOK, NEW ev \in Event, Emit(ev)
  PROVE  /\ outbox' \in [Event -> 0..MaxInFlight]
         /\ heardMode' \in [RoomIds -> Modes]
         /\ heardJoins' \in [RoomIds -> SUBSET Users]
         /\ lost' \subseteq Event
  BY LimitsAssumption DEF TypeOK, Emit, Deliver, Lose, Event, JoinedEvent, ModeEvent

\* The type invariant, which bounds every invite's uses by max_uses.
THEOREM TypeCorrect == Spec => []TypeOK
<1>1. Init => TypeOK
  BY LimitsAssumption, DemoRoomAssumption, UsersAssumption
  DEF Init, TypeOK, Task, NoInvite, InviteRow, GoneInvite, Idle
<1>2. TypeOK /\ [Next]_vars => TypeOK'
  <2> SUFFICES ASSUME TypeOK, [Next]_vars PROVE TypeOK'
    OBVIOUS
  <2>1. ASSUME NEW u \in Users, NEW r \in RoomIds, NEW m \in Modes, CreateRoom(u, r, m)
        PROVE TypeOK'
    BY <2>1 DEF CreateRoom, TypeOK
  <2>2. ASSUME NEW u \in Users, NEW r \in RoomIds, DeleteRoom(u, r)
        PROVE TypeOK'
    BY <2>2 DEF DeleteRoom, TypeOK
  <2>3. ASSUME NEW u \in Users, NEW r \in RoomIds, NEW i \in InviteIds, CreateInvite(u, r, i)
        PROVE TypeOK'
    BY <2>3, LimitsAssumption DEF CreateInvite, TypeOK, InviteRow
  <2>4. ASSUME NEW i \in InviteIds, InviteExpires(i)
        PROVE TypeOK'
    <3>1. invite[i] \in InviteRow
      BY <2>4 DEF InviteExpires, LiveInvite, TypeOK, NoInvite, GoneInvite
    <3>2. [invite[i] EXCEPT !.expired = TRUE] \in InviteRow
      BY <3>1 DEF InviteRow
    <3>3. QED
      BY <2>4, <3>2 DEF InviteExpires, TypeOK
  <2>5. ASSUME NEW p \in Processes, NEW u \in Users, NEW i \in InviteIds, JoinLookup(p, u, i)
        PROVE TypeOK'
    <3>1. invite[i] \in InviteRow /\ invite[i].uses \in 0..(MaxUses - 1)
      BY <2>5, LimitsAssumption
      DEF JoinLookup, LiveInvite, TypeOK, NoInvite, GoneInvite, InviteRow
    <3>2. QED
      BY <2>5, <3>1 DEF JoinLookup, EmitNothing, TypeOK, Task, InviteRow
  <2>6. ASSUME NEW p \in Processes, JoinAdmit(p)
        PROVE TypeOK'
    <3>1. [loop[p] EXCEPT !.at = "admitted"] \in JoinTask
      BY <2>6, TaskShape DEF JoinAdmit, JoinTask
    <3>2. QED
      BY <2>6, <3>1 DEF JoinAdmit, EmitNothing, TypeOK, Task, JoinTask
  <2>7. ASSUME NEW p \in Processes, JoinCommit(p)
        PROVE TypeOK'
    <3> DEFINE t == loop[p]
               ev == [type |-> "member_joined", room |-> t.room, user |-> t.user]
    <3>1. t \in JoinTask
      BY <2>7, TaskShape DEF JoinCommit
    <3>2. ev \in Event
      BY <3>1 DEF JoinTask, Event, JoinedEvent
    <3>3. Emit(ev)
      BY <2>7 DEF JoinCommit
    <3>4. /\ outbox' \in [Event -> 0..MaxInFlight]
          /\ heardMode' \in [RoomIds -> Modes]
          /\ heardJoins' \in [RoomIds -> SUBSET Users]
          /\ lost' \subseteq Event
      BY <3>2, <3>3, EmitType
    <3>5. invite' \in [InviteIds -> InviteRow \cup {NoInvite, GoneInvite}]
      <4> DEFINE row == invite[t.invite]
      <4>1. t.invite \in InviteIds /\ t.uses + 1 \in 0..MaxUses
        BY <3>1, LimitsAssumption DEF JoinTask
      <4>2. CASE row \in InviteRow
        <5>1. [row EXCEPT !.uses = t.uses + 1] \in InviteRow
          BY <4>1, <4>2 DEF InviteRow
        <5>2. QED
          BY <2>7, <4>1, <5>1 DEF JoinCommit, TypeOK
      <4>3. CASE row \in {NoInvite, GoneInvite}
        <5>1. [row EXCEPT !.uses = t.uses + 1] = row
          BY <4>3 DEF NoInvite, GoneInvite
        <5>2. QED
          BY <2>7, <4>1, <4>3, <5>1 DEF JoinCommit, TypeOK
      <4>4. QED
        BY <4>1, <4>2, <4>3 DEF TypeOK
    <3>6. QED
      BY <2>7, <3>1, <3>4, <3>5 DEF JoinCommit, Release, TypeOK, Task, JoinTask
  <2>8. ASSUME NEW p \in Processes, NEW u \in Users, NEW r \in RoomIds, NEW m \in Modes,
               PatchRead(p, u, r, m)
        PROVE TypeOK'
    BY <2>8 DEF PatchRead, EmitNothing, TypeOK, Task
  <2>9. ASSUME NEW p \in Processes, PatchCommit(p)
        PROVE TypeOK'
    <3> DEFINE t == loop[p]
               ev == [type |-> "mode_changed", room |-> t.room, mode |-> t.mode]
    <3>1. t \in PatchTask
      BY <2>9, TaskShape DEF PatchCommit
    <3>2. ev \in Event
      BY <3>1 DEF PatchTask, Event, ModeEvent
    <3>3. Emit(ev)
      BY <2>9 DEF PatchCommit
    <3>4. /\ outbox' \in [Event -> 0..MaxInFlight]
          /\ heardMode' \in [RoomIds -> Modes]
          /\ heardJoins' \in [RoomIds -> SUBSET Users]
          /\ lost' \subseteq Event
      BY <3>2, <3>3, EmitType
    <3>5. QED
      BY <2>9, <3>1, <3>4 DEF PatchCommit, Release, TypeOK, Task, PatchTask
  <2>10. ASSUME NEW p \in Processes,
                JoinTurnedAway(p) \/ JoinRollback(p) \/ PatchRollback(p) \/ Abort(p)
         PROVE TypeOK'
    BY <2>10 DEF JoinTurnedAway, JoinRollback, PatchRollback, Abort, Release, EmitNothing,
                 TypeOK, Task
  <2>11. ASSUME NEW ev \in Event, RedisPublish(ev)
         PROVE TypeOK'
    BY <2>11, LimitsAssumption
    DEF RedisPublish, Deliver, Lose, TypeOK, Event, JoinedEvent, ModeEvent
  <2>12. CASE UNCHANGED vars
    BY <2>12 DEF vars, TypeOK
  <2>13. QED
    BY <2>1, <2>2, <2>3, <2>4, <2>5, <2>6, <2>7, <2>8, <2>9, <2>10, <2>11, <2>12
    DEF Next, ThreadStep, LoopStep
<1>3. QED
  BY <1>1, <1>2, PTL DEF Spec
-----------------------------------------------------------------------------
(* Rows and the handlers that have read them                               *)

Joining(p) == loop[p].at \in {"found", "admitted"}

UnusedInvitesAdmittedNobody == \A i \in InviteIds : invite[i] = NoInvite => joined[i] = {}

JoinersAreMembers ==
  \A i \in InviteIds : LiveInvite(i) => joined[i] \subseteq members[invite[i].room]

\* What a join has read stays true of rows that can only be added to: the room
\* was there, its invite is there for as long as the room is, and the uses read
\* are never more than the people already let in.
ReadsAreBacked ==
  \A p \in Processes : Joining(p) =>
    LET t == loop[p] IN
    /\ status[t.room] # "unused"
    /\ status[t.room] = "live" => LiveInvite(t.invite) /\ invite[t.invite].room = t.room
    /\ t.uses <= Cardinality(joined[t.invite])

RowsInv ==
  /\ TypeOK
  /\ NothingOutlivesItsRoom
  /\ UnusedInvitesAdmittedNobody
  /\ JoinersAreMembers
  /\ UsesNeverOvercounted
  /\ ReadsAreBacked

\* Every set of users is finite, and a newcomer adds one to it.
LEMMA UsersFinite ==
  ASSUME NEW S \in SUBSET Users
  PROVE  /\ IsFiniteSet(S)
         /\ Cardinality(S) \in Nat
         /\ \A u : Cardinality(S \cup {u}) = IF u \in S THEN Cardinality(S)
                                                        ELSE Cardinality(S) + 1
  BY UsersAssumption, FS_Subset, FS_CardinalityType, FS_AddElement

\* A live invite belongs to a live room.
LEMMA LiveInviteRow ==
  ASSUME TypeOK, NothingOutlivesItsRoom, NEW i \in InviteIds, LiveInvite(i)
  PROVE  /\ invite[i] \in InviteRow
         /\ invite[i].room \in RoomIds
         /\ invite[i].uses \in 0..MaxUses
         /\ status[invite[i].room] = "live"
<1>1. invite[i] \in InviteRow
  BY DEF TypeOK, LiveInvite, NoInvite, GoneInvite
<1>2. QED
  BY <1>1 DEF InviteRow, TypeOK, NothingOutlivesItsRoom, InvitesTo

LEMMA RowsInit == Init => RowsInv
<1> SUFFICES ASSUME Init PROVE RowsInv
  OBVIOUS
<1>1. TypeOK
  BY LimitsAssumption, DemoRoomAssumption, UsersAssumption
  DEF Init, TypeOK, Task, NoInvite, InviteRow, GoneInvite, Idle
<1>2. \A i \in InviteIds : ~LiveInvite(i)
  BY DEF Init, LiveInvite, NoInvite
<1>3. \A p \in Processes : ~Joining(p)
  BY DEF Init, Joining, Idle
<1>4. NothingOutlivesItsRoom
  BY <1>2 DEF Init, NothingOutlivesItsRoom, InvitesTo
<1>5. QED
  BY <1>1, <1>2, <1>3, <1>4
  DEF Init, RowsInv, UnusedInvitesAdmittedNobody, JoinersAreMembers,
      UsesNeverOvercounted, ReadsAreBacked

\* A step that writes no row of invites, members or rooms, and starts no join,
\* keeps the invariant.
LEMMA RowsQuiet ==
  ASSUME RowsInv, TypeOK',
         UNCHANGED <<status, members, invite, joined>>,
         \A p \in Processes : Joining(p)' =>
           /\ Joining(p)
           /\ loop'[p].room = loop[p].room
           /\ loop'[p].invite = loop[p].invite
           /\ loop'[p].uses = loop[p].uses
  PROVE  RowsInv'
<1>1. NothingOutlivesItsRoom' /\ UnusedInvitesAdmittedNobody' /\ JoinersAreMembers'
      /\ UsesNeverOvercounted'
  BY DEF RowsInv, NothingOutlivesItsRoom, InvitesTo, LiveInvite,
         UnusedInvitesAdmittedNobody, JoinersAreMembers, UsesNeverOvercounted
<1>2. ReadsAreBacked'
  BY DEF RowsInv, ReadsAreBacked, LiveInvite
<1>3. QED
  BY <1>1, <1>2 DEF RowsInv

LEMMA RowsStep == RowsInv /\ TypeOK' /\ [Next]_vars => RowsInv'
<1> SUFFICES ASSUME RowsInv, TypeOK', [Next]_vars PROVE RowsInv'
  OBVIOUS
<1> USE DEF RowsInv
<1>1. ASSUME NEW u \in Users, NEW r \in RoomIds, NEW m \in Modes, CreateRoom(u, r, m)
      PROVE RowsInv'
  <2>1. \A i \in InviteIds : LiveInvite(i) => invite[i].room # r
    BY <1>1, LiveInviteRow DEF CreateRoom
  <2>2. \A i \in InviteIds : LiveInvite(i)' <=> LiveInvite(i)
    BY <1>1 DEF CreateRoom, LiveInvite
  <2>3. NothingOutlivesItsRoom'
    BY <1>1, <2>2 DEF CreateRoom, NothingOutlivesItsRoom, InvitesTo, TypeOK
  <2>4. JoinersAreMembers'
    BY <1>1, <2>1, <2>2, LiveInviteRow DEF CreateRoom, JoinersAreMembers, TypeOK
  <2>5. UsesNeverOvercounted' /\ UnusedInvitesAdmittedNobody'
    BY <1>1, <2>2 DEF CreateRoom, UsesNeverOvercounted, UnusedInvitesAdmittedNobody
  <2>6. ReadsAreBacked'
    <3> SUFFICES ASSUME NEW p \in Processes, Joining(p)
                 PROVE LET t == loop[p] IN
                       /\ status'[t.room] # "unused"
                       /\ status'[t.room] = "live" =>
                            LiveInvite(t.invite) /\ invite[t.invite].room = t.room
                       /\ t.uses <= Cardinality(joined[t.invite])
      BY <1>1 DEF ReadsAreBacked, Joining, CreateRoom, LiveInvite
    <3>1. loop[p] \in JoinTask
      BY TaskShape DEF Joining
    <3>2. loop[p].room # r /\ status'[loop[p].room] = status[loop[p].room]
      BY <1>1, <3>1 DEF CreateRoom, ReadsAreBacked, JoinTask, TypeOK
    <3>3. QED
      BY <3>2 DEF ReadsAreBacked
  <2>7. QED
    BY <2>3, <2>4, <2>5, <2>6
<1>2. ASSUME NEW u \in Users, NEW r \in RoomIds, DeleteRoom(u, r)
      PROVE RowsInv'
  <2>1. \A i \in InviteIds :
          LiveInvite(i)' => LiveInvite(i) /\ invite'[i] = invite[i] /\ invite[i].room # r
    BY <1>2 DEF DeleteRoom, LiveInvite, GoneInvite
  <2>2. \A i \in InviteIds :
          LiveInvite(i) /\ invite[i].room # r => LiveInvite(i)' /\ invite'[i] = invite[i]
    BY <1>2 DEF DeleteRoom, LiveInvite, GoneInvite
  <2>3. NothingOutlivesItsRoom'
    BY <1>2, <2>1 DEF DeleteRoom, NothingOutlivesItsRoom, InvitesTo, TypeOK
  <2>4. JoinersAreMembers'
    BY <1>2, <2>1, LiveInviteRow DEF DeleteRoom, JoinersAreMembers, TypeOK
  <2>5. UsesNeverOvercounted'
    BY <1>2, <2>1 DEF DeleteRoom, UsesNeverOvercounted
  <2>6. UnusedInvitesAdmittedNobody'
    BY <1>2 DEF DeleteRoom, UnusedInvitesAdmittedNobody, NoInvite, GoneInvite
  <2>7. ReadsAreBacked'
    <3> SUFFICES ASSUME NEW p \in Processes, Joining(p)
                 PROVE LET t == loop[p] IN
                       /\ status'[t.room] # "unused"
                       /\ status'[t.room] = "live" =>
                            LiveInvite(t.invite)' /\ invite'[t.invite].room = t.room
                       /\ t.uses <= Cardinality(joined'[t.invite])
      BY <1>2 DEF ReadsAreBacked, Joining, DeleteRoom
    <3>1. loop[p] \in JoinTask
      BY TaskShape DEF Joining
    <3>2. QED
      BY <1>2, <2>2, <3>1 DEF DeleteRoom, ReadsAreBacked, JoinTask, TypeOK
  <2>8. QED
    BY <2>3, <2>4, <2>5, <2>6, <2>7
<1>3. ASSUME NEW u \in Users, NEW r \in RoomIds, NEW i \in InviteIds, CreateInvite(u, r, i)
      PROVE RowsInv'
  <2>1. /\ invite' = [invite EXCEPT ![i] =
                        [state |-> "live", room |-> r, uses |-> 0, expired |-> FALSE]]
        /\ invite[i] = NoInvite /\ ~LiveInvite(i)
        /\ status[r] = "live"
        /\ UNCHANGED <<status, members, joined, loop>>
    BY <1>3 DEF CreateInvite, IsMember, LiveInvite, NoInvite
  <2>2. \A j \in InviteIds \ {i} : invite'[j] = invite[j] /\ (LiveInvite(j)' <=> LiveInvite(j))
    BY <2>1 DEF TypeOK, LiveInvite
  <2>3. LiveInvite(i)' /\ invite'[i].room = r /\ invite'[i].uses = 0
    BY <2>1 DEF TypeOK, LiveInvite
  <2>4. joined[i] = {} /\ Cardinality(joined[i]) = 0
    BY <2>1, FS_EmptySet DEF UnusedInvitesAdmittedNobody
  <2>5. NothingOutlivesItsRoom'
    BY <2>1, <2>2, <2>3 DEF NothingOutlivesItsRoom, InvitesTo
  <2>6. JoinersAreMembers'
    BY <2>1, <2>2, <2>3, <2>4 DEF JoinersAreMembers
  <2>7. UsesNeverOvercounted'
    BY <2>1, <2>2, <2>3, <2>4 DEF UsesNeverOvercounted
  <2>8. UnusedInvitesAdmittedNobody'
    BY <2>1, <2>2, <2>4 DEF UnusedInvitesAdmittedNobody
  <2>9. ReadsAreBacked'
    <3> SUFFICES ASSUME NEW p \in Processes, Joining(p)
                 PROVE LET t == loop[p] IN
                       /\ status[t.room] # "unused"
                       /\ status[t.room] = "live" =>
                            LiveInvite(t.invite)' /\ invite'[t.invite].room = t.room
                       /\ t.uses <= Cardinality(joined[t.invite])
      BY <2>1 DEF ReadsAreBacked, Joining
    <3>1. loop[p] \in JoinTask
      BY TaskShape DEF Joining
    <3>2. QED
      BY <2>1, <2>2, <3>1 DEF ReadsAreBacked, JoinTask
  <2>10. QED
    BY <2>5, <2>6, <2>7, <2>8, <2>9
<1>4. ASSUME NEW i \in InviteIds, InviteExpires(i)
      PROVE RowsInv'
  <2>1. \A j \in InviteIds :
          /\ LiveInvite(j)' <=> LiveInvite(j)
          /\ LiveInvite(j) => invite'[j].room = invite[j].room /\ invite'[j].uses = invite[j].uses
          /\ invite'[j] = NoInvite => invite[j] = NoInvite
    <3>1. invite[i] \in InviteRow
      BY <1>4, LiveInviteRow DEF InviteExpires
    <3>2. QED
      BY <1>4, <3>1 DEF InviteExpires, LiveInvite, TypeOK, InviteRow, NoInvite, GoneInvite
  <2>2. UNCHANGED <<status, members, joined, loop>>
    BY <1>4 DEF InviteExpires
  <2>3. NothingOutlivesItsRoom' /\ JoinersAreMembers' /\ UsesNeverOvercounted'
        /\ UnusedInvitesAdmittedNobody'
    BY <2>1, <2>2 DEF NothingOutlivesItsRoom, InvitesTo, JoinersAreMembers,
                      UsesNeverOvercounted, UnusedInvitesAdmittedNobody
  <2>4. ReadsAreBacked'
    <3> SUFFICES ASSUME NEW p \in Processes, Joining(p)
                 PROVE LET t == loop[p] IN
                       /\ status[t.room] # "unused"
                       /\ status[t.room] = "live" =>
                            LiveInvite(t.invite)' /\ invite'[t.invite].room = t.room
                       /\ t.uses <= Cardinality(joined[t.invite])
      BY <2>2 DEF ReadsAreBacked, Joining
    <3>1. loop[p] \in JoinTask
      BY TaskShape DEF Joining
    <3>2. QED
      BY <2>1, <2>2, <3>1 DEF ReadsAreBacked, JoinTask
  <2>5. QED
    BY <2>3, <2>4
<1>5. ASSUME NEW p \in Processes, NEW u \in Users, NEW i \in InviteIds, JoinLookup(p, u, i)
      PROVE RowsInv'
  <2>1. /\ UNCHANGED <<status, members, invite, joined>>
        /\ LiveInvite(i)
        /\ loop' = [loop EXCEPT ![p] = [at |-> "found", user |-> u, room |-> invite[i].room,
                                        invite |-> i, uses |-> invite[i].uses]]
    BY <1>5 DEF JoinLookup
  <2>2. NothingOutlivesItsRoom' /\ UnusedInvitesAdmittedNobody' /\ JoinersAreMembers'
        /\ UsesNeverOvercounted'
    BY <2>1 DEF NothingOutlivesItsRoom, InvitesTo, LiveInvite,
           UnusedInvitesAdmittedNobody, JoinersAreMembers, UsesNeverOvercounted
  <2>3. ReadsAreBacked'
    BY <2>1, LiveInviteRow DEF ReadsAreBacked, Joining, LiveInvite, UsesNeverOvercounted, TypeOK
  <2>4. QED
    BY <2>2, <2>3
<1>6. ASSUME NEW p \in Processes, JoinAdmit(p)
      PROVE RowsInv'
  <2>1. loop[p] \in JoinTask
    BY <1>6, TaskShape DEF JoinAdmit
  <2>2. \A q \in Processes : Joining(q)' =>
          /\ Joining(q)
          /\ loop'[q].room = loop[q].room
          /\ loop'[q].invite = loop[q].invite
          /\ loop'[q].uses = loop[q].uses
    BY <1>6, <2>1 DEF JoinAdmit, Joining, JoinTask, TypeOK
  <2>3. QED
    BY <1>6, <2>2, RowsQuiet DEF JoinAdmit
<1>7. ASSUME NEW p \in Processes, JoinCommit(p)
      PROVE RowsInv'
  <2> DEFINE t == loop[p]
             i == t.invite
             r == t.room
             u == t.user
  <2>1. t \in JoinTask
    BY <1>7, TaskShape DEF JoinCommit
  <2>2. i \in InviteIds /\ r \in RoomIds /\ u \in Users /\ t.uses \in Nat
    BY <2>1 DEF JoinTask
  <2>3. status[r] = "live" /\ u \notin members[r]
    BY <1>7 DEF JoinCommit, RowAccepted
  <2>4. LiveInvite(i) /\ invite[i].room = r /\ t.uses <= Cardinality(joined[i])
    BY <1>7, <2>3 DEF ReadsAreBacked, Joining, JoinCommit
  <2>5. /\ members' = [members EXCEPT ![r] = @ \cup {u}]
        /\ invite' = [invite EXCEPT ![i].uses = t.uses + 1]
        /\ joined' = [joined EXCEPT ![i] = @ \cup {u}]
        /\ loop' = [loop EXCEPT ![p] = Idle]
        /\ status' = status
    BY <1>7 DEF JoinCommit, Release
  <2>6. \A j \in InviteIds :
          /\ LiveInvite(j)' <=> LiveInvite(j)
          /\ LiveInvite(j) => invite'[j].room = invite[j].room
          /\ j # i => invite'[j] = invite[j]
          /\ invite'[j] = NoInvite => invite[j] = NoInvite
    <3>1. invite[i] \in InviteRow
      BY <2>2, <2>4, LiveInviteRow
    <3>2. QED
      BY <2>2, <2>4, <2>5, <3>1 DEF LiveInvite, TypeOK, InviteRow, NoInvite, GoneInvite
  <2>7. invite'[i].uses = t.uses + 1
    <3>1. invite[i] \in InviteRow
      BY <2>2, <2>4, LiveInviteRow
    <3>2. QED
      BY <2>2, <2>5, <3>1 DEF TypeOK, InviteRow
  <2>8. u \notin joined[i] /\ joined[i] \in SUBSET Users
    BY <2>2, <2>3, <2>4 DEF JoinersAreMembers, TypeOK
  <2>9. /\ Cardinality(joined'[i]) = Cardinality(joined[i]) + 1
        /\ Cardinality(joined[i]) \in Nat
    BY <2>2, <2>5, <2>8, UsersFinite DEF TypeOK
  <2>10. NothingOutlivesItsRoom'
    BY <2>2, <2>3, <2>5, <2>6 DEF NothingOutlivesItsRoom, InvitesTo, TypeOK
  <2>11. JoinersAreMembers'
    BY <2>2, <2>4, <2>5, <2>6, LiveInviteRow DEF JoinersAreMembers, TypeOK
  <2>12. UsesNeverOvercounted'
    <3> SUFFICES ASSUME NEW j \in InviteIds, LiveInvite(j)
                 PROVE invite'[j].uses <= Cardinality(joined'[j])
      BY <2>6 DEF UsesNeverOvercounted
    <3>1. CASE j = i
      BY <2>2, <2>4, <2>7, <2>9, <3>1
    <3>2. CASE j # i
      BY <2>2, <2>5, <2>6, <3>2 DEF UsesNeverOvercounted, TypeOK
    <3>3. QED
      BY <3>1, <3>2
  <2>13. UnusedInvitesAdmittedNobody'
    BY <2>2, <2>4, <2>5, <2>6 DEF UnusedInvitesAdmittedNobody, TypeOK, LiveInvite, NoInvite
  <2>14. ReadsAreBacked'
    <3> SUFFICES ASSUME NEW q \in Processes, Joining(q), q # p
                 PROVE /\ status[loop[q].room] # "unused"
                       /\ status[loop[q].room] = "live" =>
                            /\ invite'[loop[q].invite].state = "live"
                            /\ invite'[loop[q].invite].room = loop[q].room
                       /\ loop[q].uses <= Cardinality(joined'[loop[q].invite])
      <4>1. loop'[p] = Idle /\ \A q \in Processes \ {p} : loop'[q] = loop[q]
        BY <2>5 DEF TypeOK
      <4>2. ~Joining(p)' /\ \A q \in Processes \ {p} : Joining(q)' <=> Joining(q)
        BY <4>1 DEF Joining, Idle
      <4>3. QED
        BY <2>5, <4>1, <4>2 DEF ReadsAreBacked, LiveInvite
    <3>1. loop[q] \in JoinTask
      BY TaskShape DEF Joining
    <3>2. Cardinality(joined[loop[q].invite]) \in Nat
      BY <3>1, UsersFinite DEF JoinTask, TypeOK
    <3>3. Cardinality(joined'[loop[q].invite]) >= Cardinality(joined[loop[q].invite])
      <4>1. CASE loop[q].invite = i
        BY <2>9, <4>1
      <4>2. CASE loop[q].invite # i
        <5>1. joined'[loop[q].invite] = joined[loop[q].invite]
          BY <2>5, <3>1, <4>2 DEF JoinTask, TypeOK
        <5>2. QED
          BY <3>2, <5>1
      <4>3. QED
        BY <4>1, <4>2
    <3>4. loop[q].uses <= Cardinality(joined'[loop[q].invite])
      <4>1. loop[q].uses \in Nat /\ loop[q].uses <= Cardinality(joined[loop[q].invite])
        BY <3>1 DEF ReadsAreBacked, JoinTask
      <4>2. Cardinality(joined'[loop[q].invite]) \in Nat
        BY <3>1, UsersFinite DEF JoinTask, TypeOK
      <4>3. QED
        BY <3>2, <3>3, <4>1, <4>2
    <3>5. QED
      BY <2>3, <2>6, <3>1, <3>4 DEF ReadsAreBacked, JoinTask, LiveInvite
  <2>15. QED
    BY <2>10, <2>11, <2>12, <2>13, <2>14
<1>8. ASSUME NEW p \in Processes,
             \/ JoinTurnedAway(p) \/ JoinRollback(p) \/ Abort(p)
             \/ PatchCommit(p) \/ PatchRollback(p)
      PROVE RowsInv'
  <2>1. UNCHANGED <<status, members, invite, joined>> /\ Release(p)
    BY <1>8 DEF JoinTurnedAway, JoinRollback, Abort, PatchCommit, PatchRollback
  <2>2. QED
    BY <2>1, RowsQuiet DEF Release, Joining, Idle, TypeOK
<1>9. ASSUME NEW p \in Processes, NEW u \in Users, NEW r \in RoomIds, NEW m \in Modes,
             PatchRead(p, u, r, m)
      PROVE RowsInv'
  BY <1>9, RowsQuiet DEF PatchRead, Joining, TypeOK
<1>10. ASSUME NEW ev \in Event, RedisPublish(ev)
       PROVE RowsInv'
  BY <1>10, RowsQuiet DEF RedisPublish, Joining
<1>11. CASE UNCHANGED vars
  BY <1>11, RowsQuiet DEF vars, Joining
<1>12. QED
  BY <1>1, <1>2, <1>3, <1>4, <1>5, <1>6, <1>7, <1>8, <1>9, <1>10, <1>11
  DEF Next, ThreadStep, LoopStep

LEMMA RowsInvariant == Spec => []RowsInv
BY RowsInit, RowsStep, TypeCorrect, PTL DEF Spec

\* With any number of processes, an invite's use count never exceeds the number
\* of people it let in: overwritten increments only ever lose uses.
THEOREM InvitesNeverOvercharged == Spec => []UsesNeverOvercounted
BY RowsInvariant, PTL DEF RowsInv

\* With any number of processes, a deleted room keeps no member and no invite.
THEOREM RoomsTakeTheirRows == Spec => []NothingOutlivesItsRoom
BY RowsInvariant, PTL DEF RowsInv

-----------------------------------------------------------------------------
(* Everyone came in once                                                   *)

CameInOnce(r) ==
  /\ members[r] = {owner[r]} \cup UNION {joined[i] : i \in InvitesTo(r)}
  /\ \A i, j \in InvitesTo(r) :
       /\ owner[r] \notin joined[i]
       /\ i # j => joined[i] \cap joined[j] = {}

\* A step that leaves a room's people and its invites alone.
LEMMA CameInQuiet ==
  ASSUME NEW r, CameInOnce(r), members'[r] = members[r], owner'[r] = owner[r],
         InvitesTo(r)' = InvitesTo(r),
         \A i \in InvitesTo(r) : joined'[i] = joined[i]
  PROVE  CameInOnce(r)'
BY DEF CameInOnce

\* What a join that commits finds, in any number of processes.
LEMMA CommitRows ==
  ASSUME RowsInv, NEW p \in Processes, JoinCommit(p)
  PROVE  LET t == loop[p] IN
         /\ t.room \in RoomIds /\ t.user \in Users /\ t.invite \in InviteIds
         /\ status[t.room] = "live" /\ t.user \notin members[t.room]
         /\ LiveInvite(t.invite) /\ invite[t.invite].room = t.room
         /\ \A r \in RoomIds : InvitesTo(r)' = InvitesTo(r)
<1> DEFINE t == loop[p]
           i == t.invite
<1>1. t \in JoinTask /\ TypeOK
  BY TaskShape DEF JoinCommit, RowsInv
<1>2. status[t.room] = "live" /\ t.user \notin members[t.room]
  BY DEF JoinCommit, RowAccepted
<1>3. LiveInvite(i) /\ invite[i].room = t.room
  BY <1>2 DEF RowsInv, ReadsAreBacked, Joining, JoinCommit
<1>4. t.room \in RoomIds /\ t.user \in Users /\ i \in InviteIds
  BY <1>1 DEF JoinTask
<1>5. invite' = [invite EXCEPT ![i].uses = t.uses + 1]
  BY DEF JoinCommit
<1>6. invite[i] \in InviteRow
  BY <1>1, <1>3, <1>4, LiveInviteRow DEF RowsInv
<1>7. \A j \in InviteIds : /\ LiveInvite(j)' <=> LiveInvite(j)
                           /\ LiveInvite(j) => invite'[j].room = invite[j].room
  BY <1>1, <1>4, <1>5, <1>6 DEF LiveInvite, TypeOK, InviteRow
<1>8. \A r \in RoomIds : InvitesTo(r)' = InvitesTo(r)
  BY <1>7 DEF InvitesTo
<1>9. QED
  BY <1>2, <1>3, <1>4, <1>8

LEMMA CameInStep == RowsInv /\ EveryoneCameInOnce /\ [Next]_vars => EveryoneCameInOnce'
<1> SUFFICES ASSUME RowsInv, EveryoneCameInOnce, [Next]_vars,
                    NEW r \in RoomIds \ {DemoRoom}, status'[r] = "live"
             PROVE  CameInOnce(r)'
  BY DEF EveryoneCameInOnce, CameInOnce
<1>t. TypeOK
  BY DEF RowsInv
<1>c. status[r] = "live" => CameInOnce(r)
  BY DEF EveryoneCameInOnce, CameInOnce
<1>1. ASSUME NEW u \in Users, NEW s \in RoomIds, NEW m \in Modes, CreateRoom(u, s, m)
      PROVE CameInOnce(r)'
  <2>1. InvitesTo(r)' = InvitesTo(r)
    BY <1>1 DEF CreateRoom, InvitesTo, LiveInvite
  <2>2. CASE r = s
    <3>1. InvitesTo(r) = {}
      BY <1>1, <2>2 DEF CreateRoom, RowsInv, NothingOutlivesItsRoom
    <3>2. members'[r] = {u} /\ owner'[r] = u
      BY <1>1, <1>t, <2>2 DEF CreateRoom, TypeOK
    <3>3. QED
      BY <2>1, <3>1, <3>2 DEF CameInOnce
  <2>3. CASE r # s
    BY <1>1, <1>c, <1>t, <2>1, <2>3, CameInQuiet DEF CreateRoom, TypeOK
  <2>4. QED
    BY <2>2, <2>3
<1>2. ASSUME NEW u \in Users, NEW s \in RoomIds, DeleteRoom(u, s)
      PROVE CameInOnce(r)'
  <2>1. r # s /\ status[r] = "live"
    BY <1>2, <1>t DEF DeleteRoom, TypeOK
  <2>2. \A i \in InviteIds : LiveInvite(i) /\ invite[i].room = r => invite'[i] = invite[i]
    BY <1>2, <2>1 DEF DeleteRoom
  <2>3. \A i \in InviteIds : LiveInvite(i)' => invite'[i] = invite[i]
    BY <1>2 DEF DeleteRoom, LiveInvite, GoneInvite
  <2>4. InvitesTo(r)' = InvitesTo(r)
    BY <2>2, <2>3 DEF InvitesTo, LiveInvite
  <2>5. QED
    BY <1>2, <1>c, <1>t, <2>1, <2>4, CameInQuiet DEF DeleteRoom, TypeOK
<1>3. ASSUME NEW u \in Users, NEW s \in RoomIds, NEW i \in InviteIds, CreateInvite(u, s, i)
      PROVE CameInOnce(r)'
  <2>1. joined[i] = {} /\ i \notin InvitesTo(r)
    BY <1>3 DEF CreateInvite, RowsInv, UnusedInvitesAdmittedNobody, InvitesTo, LiveInvite, NoInvite
  <2>2. InvitesTo(r)' \subseteq InvitesTo(r) \cup {i} /\ InvitesTo(r) \subseteq InvitesTo(r)'
    BY <1>3, <1>t, <2>1 DEF CreateInvite, InvitesTo, LiveInvite, TypeOK
  <2>3. UNCHANGED <<status, members, owner, joined>>
    BY <1>3 DEF CreateInvite
  <2>4. UNION {joined[j] : j \in InvitesTo(r)'} = UNION {joined[j] : j \in InvitesTo(r)}
    BY <2>1, <2>2
  <2>5. \A j, k \in InvitesTo(r)' : /\ owner[r] \notin joined[j]
                                    /\ j # k => joined[j] \cap joined[k] = {}
    BY <1>c, <2>1, <2>2, <2>3 DEF CameInOnce
  <2>6. QED
    BY <1>c, <2>3, <2>4, <2>5 DEF CameInOnce
<1>4. ASSUME NEW i \in InviteIds, InviteExpires(i)
      PROVE CameInOnce(r)'
  <2>1. invite[i] \in InviteRow
    BY <1>4, <1>t, LiveInviteRow DEF InviteExpires, RowsInv
  <2>2. InvitesTo(r)' = InvitesTo(r)
    BY <1>4, <1>t, <2>1 DEF InviteExpires, InvitesTo, LiveInvite, TypeOK, InviteRow
  <2>3. QED
    BY <1>4, <1>c, <2>2, CameInQuiet DEF InviteExpires
<1>5. ASSUME NEW p \in Processes, JoinCommit(p)
      PROVE CameInOnce(r)'
  <2> DEFINE t == loop[p]
             i == t.invite
             u == t.user
  <2>1. /\ t.room \in RoomIds /\ u \in Users /\ i \in InviteIds
        /\ u \notin members[t.room] /\ LiveInvite(i) /\ invite[i].room = t.room
        /\ InvitesTo(r)' = InvitesTo(r)
    BY <1>5, CommitRows
  <2>2. /\ members' = [members EXCEPT ![t.room] = @ \cup {u}]
        /\ joined' = [joined EXCEPT ![i] = @ \cup {u}]
        /\ UNCHANGED <<status, owner>>
    BY <1>5 DEF JoinCommit
  <2> HIDE DEF t, i, u
  <2>3. /\ joined'[i] = joined[i] \cup {u}
        /\ \A j \in InviteIds \ {i} : joined'[j] = joined[j]
    BY <1>t, <2>1, <2>2 DEF TypeOK
  <2>4. CASE r = t.room
    <3>1. i \in InvitesTo(r) /\ InvitesTo(r) \subseteq InviteIds
      BY <2>1, <2>4 DEF InvitesTo
    <3>2. members'[r] = members[r] \cup {u}
      BY <1>t, <2>1, <2>2, <2>4 DEF TypeOK
    <3>3. CameInOnce(r)
      BY <1>c, <2>2
    <3>4. u # owner[r] /\ \A j \in InvitesTo(r) : u \notin joined[j]
      BY <2>1, <2>4, <3>3 DEF CameInOnce
    <3>5. members'[r] = {owner[r]} \cup UNION {joined'[j] : j \in InvitesTo(r)}
      BY <2>3, <3>1, <3>2, <3>3 DEF CameInOnce
    <3>6. \A j, k \in InvitesTo(r) : /\ owner[r] \notin joined'[j]
                                     /\ j # k => joined'[j] \cap joined'[k] = {}
      BY <2>3, <3>1, <3>3, <3>4 DEF CameInOnce
    <3>7. QED
      BY <2>1, <2>2, <3>5, <3>6 DEF CameInOnce
  <2>5. CASE r # t.room
    <3>1. \A j \in InvitesTo(r) : joined'[j] = joined[j]
      BY <2>1, <2>3, <2>5 DEF InvitesTo
    <3>2. members'[r] = members[r]
      BY <1>t, <2>1, <2>2, <2>5 DEF TypeOK
    <3>3. QED
      BY <1>c, <2>1, <2>2, <3>1, <3>2, CameInQuiet
  <2>6. QED
    BY <2>4, <2>5
<1>6. ASSUME UNCHANGED <<status, owner, members, invite, joined>>
      PROVE CameInOnce(r)'
  BY <1>6, <1>c DEF CameInOnce, InvitesTo, LiveInvite
<1>7. QED
  BY <1>1, <1>2, <1>3, <1>4, <1>5, <1>6
  DEF Next, ThreadStep, LoopStep, JoinLookup, JoinAdmit, JoinTurnedAway, JoinRollback,
      PatchRead, PatchCommit, PatchRollback, Abort, RedisPublish, vars

\* With any number of processes, nobody is in a room but its owner and those
\* an invite to it was spent on, and nobody had two spent on them.
THEOREM NobodyComesInTwice == Spec => []EveryoneCameInOnce
<1>1. Init => EveryoneCameInOnce
  BY DEF Init, EveryoneCameInOnce
<1>2. QED
  BY <1>1, CameInStep, RowsInvariant, PTL DEF Spec

-----------------------------------------------------------------------------
(* Joins are announced                                                     *)

Joiners(r) == members[r] \ {owner[r]}

\* A join is published or about to be only if it has been committed, and then
\* it is, or its event is lost; nothing is said of a room that is not there yet.
Announced(r) ==
  /\ status[r] = "unused" => /\ heardJoins[r] = {}
                             /\ \A u \in Users : ~(outbox[Joined(u, r)] > 0)
  /\ status[r] = "live" =>
       /\ heardJoins[r] \subseteq Joiners(r)
       /\ \A u \in Users : outbox[Joined(u, r)] > 0 => u \in Joiners(r)
       /\ \A u \in Joiners(r) :
            u \in heardJoins[r] \/ outbox[Joined(u, r)] > 0 \/ Joined(u, r) \in lost

AnnouncedInv == \A r \in RoomIds \ {DemoRoom} : Announced(r)

LEMMA AnnouncedQuiet ==
  ASSUME NEW r, Announced(r), status'[r] = status[r],
         members'[r] = members[r], owner'[r] = owner[r], heardJoins'[r] = heardJoins[r],
         \A u \in Users : /\ outbox'[Joined(u, r)] = outbox[Joined(u, r)]
                          /\ Joined(u, r) \in lost => Joined(u, r) \in lost',
         members[r] \subseteq Users
  PROVE  Announced(r)'
BY DEF Announced, Joiners, Joined

\* What a commit's event does to what is heard and to what is about to be.
LEMMA EmitJoins ==
  ASSUME TypeOK, NEW ev \in Event, Emit(ev)
  PROVE  /\ \A r \in RoomIds, u \in Users : ev # Joined(u, r) =>
              /\ outbox'[Joined(u, r)] = outbox[Joined(u, r)]
              /\ Joined(u, r) \in lost => Joined(u, r) \in lost'
         /\ \A r \in RoomIds : (\A u \in Users : ev # Joined(u, r)) => heardJoins'[r] = heardJoins[r]
         /\ \A r \in RoomIds, u \in Users : ev = Joined(u, r) =>
              \/ outbox'[ev] > 0 /\ heardJoins'[r] = heardJoins[r]
              \/ outbox'[ev] = outbox[ev] /\ heardJoins'[r] = heardJoins[r] \cup {u}
              \/ outbox'[ev] = outbox[ev] /\ heardJoins'[r] = heardJoins[r] /\ ev \in lost'
<1>1. \A r \in RoomIds, u \in Users : Joined(u, r) \in Event
  BY DEF Joined, Event, JoinedEvent
<1>2. ev \in JoinedEvent => ev = Joined(ev.user, ev.room) /\ ev.room \in RoomIds /\ ev.user \in Users
  BY DEF Joined, JoinedEvent
<1>3. ev \notin JoinedEvent => ev.type = "mode_changed"
  BY DEF Event, ModeEvent
<1>4. \A r \in RoomIds, u \in Users : ev = Joined(u, r) =>
        ev.type = "member_joined" /\ ev.room = r /\ ev.user = u
  BY DEF Joined
<1>5. CASE Redis /\ outbox' = [outbox EXCEPT ![ev] = @ + 1] /\ UNCHANGED <<heardJoins, lost>>
  <2>1. outbox[ev] \in Nat /\ outbox'[ev] = outbox[ev] + 1 /\ \A x \in Event \ {ev} : outbox'[x] = outbox[x]
    BY <1>5, LimitsAssumption DEF TypeOK
  <2>2. QED
    BY <1>1, <1>5, <2>1
<1>6. CASE Deliver(ev) /\ UNCHANGED outbox
  <2>1. outbox' = outbox /\ Deliver(ev) /\ \A x : x # ev /\ x \in lost => x \in lost'
    BY <1>6 DEF Deliver
  <2>2. CASE ev \in JoinedEvent
    <3>1. heardJoins' = [heardJoins EXCEPT ![ev.room] = @ \cup {ev.user}]
      BY <1>2, <1>4, <2>1, <2>2 DEF Deliver
    <3>2. /\ heardJoins'[ev.room] = heardJoins[ev.room] \cup {ev.user}
          /\ \A r \in RoomIds \ {ev.room} : heardJoins'[r] = heardJoins[r]
      BY <1>2, <2>2, <3>1 DEF TypeOK
    <3>3. QED
      BY <1>2, <1>4, <2>1, <2>2, <3>2
  <2>3. CASE ev \notin JoinedEvent
    BY <1>3, <1>4, <2>1, <2>3 DEF Deliver
  <2>4. QED
    BY <2>2, <2>3
<1>7. CASE Lose(ev) /\ UNCHANGED outbox
  BY <1>7 DEF Lose
<1>8. QED
  BY <1>5, <1>6, <1>7 DEF Emit

LEMMA AnnouncedStep ==
  RowsInv /\ TypeOK' /\ EveryoneCameInOnce /\ AnnouncedInv /\ [Next]_vars => AnnouncedInv'
<1> SUFFICES ASSUME RowsInv, TypeOK', EveryoneCameInOnce, AnnouncedInv, [Next]_vars,
                    NEW r \in RoomIds \ {DemoRoom}
             PROVE  Announced(r)'
  BY DEF AnnouncedInv
<1>t. TypeOK /\ Announced(r) /\ members[r] \subseteq Users
  BY DEF RowsInv, AnnouncedInv, TypeOK
<1>1. ASSUME NEW u \in Users, NEW s \in RoomIds, NEW m \in Modes, CreateRoom(u, s, m)
      PROVE Announced(r)'
  <2>1. UNCHANGED <<outbox, heardJoins, lost>>
    BY <1>1 DEF CreateRoom
  <2>2. CASE r = s
    <3>1. /\ status[r] = "unused" /\ status'[r] = "live"
          /\ members'[r] = {u} /\ owner'[r] = u
      BY <1>1, <1>t, <2>2 DEF CreateRoom, TypeOK
    <3>2. QED
      BY <1>t, <2>1, <3>1 DEF Announced, Joiners
  <2>3. CASE r # s
    BY <1>1, <1>t, <2>1, <2>3, AnnouncedQuiet DEF CreateRoom, TypeOK
  <2>4. QED
    BY <2>2, <2>3
<1>2. ASSUME NEW u \in Users, NEW s \in RoomIds, DeleteRoom(u, s)
      PROVE Announced(r)'
  <2>1. UNCHANGED <<outbox, heardJoins, lost, owner>>
    BY <1>2 DEF DeleteRoom
  <2>2. CASE r = s
    <3>1. status'[r] = "deleted"
      BY <1>2, <1>t, <2>2 DEF DeleteRoom, TypeOK
    <3>2. QED
      BY <3>1 DEF Announced
  <2>3. CASE r # s
    BY <1>2, <1>t, <2>1, <2>3, AnnouncedQuiet DEF DeleteRoom, TypeOK
  <2>4. QED
    BY <2>2, <2>3
<1>3. ASSUME NEW p \in Processes, JoinCommit(p)
      PROVE Announced(r)'
  <2> DEFINE t == loop[p]
             s == t.room
             u == t.user
             ev == Joined(u, s)
  <2>1. s \in RoomIds /\ u \in Users /\ status[s] = "live" /\ u \notin members[s]
    BY <1>3, CommitRows
  <2>2. /\ members' = [members EXCEPT ![s] = @ \cup {u}]
        /\ UNCHANGED <<status, owner>>
        /\ Emit(ev)
    BY <1>3 DEF JoinCommit, Joined
  <2>3. ev \in Event
    BY <2>1 DEF Joined, Event, JoinedEvent
  <2> HIDE DEF t, s, u
  <2>4. \A q \in RoomIds, v \in Users : ev = Joined(v, q) <=> q = s /\ v = u
    BY DEF Joined
  <2> HIDE DEF ev
  <2>5. CASE r = s
    <3>1. members'[r] = members[r] \cup {u}
      BY <1>t, <2>1, <2>2, <2>5 DEF TypeOK
    <3>2. u # owner[r]
      BY <2>1, <2>5 DEF EveryoneCameInOnce
    <3>3. Joiners(r)' = Joiners(r) \cup {u}
      BY <2>2, <3>1, <3>2 DEF Joiners
    <3>4. \A v \in Users \ {u} : /\ outbox'[Joined(v, r)] = outbox[Joined(v, r)]
                                 /\ Joined(v, r) \in lost => Joined(v, r) \in lost'
      BY <1>t, <2>2, <2>3, <2>4, EmitJoins
    <3>5. ev = Joined(u, r)
      BY <2>1, <2>4, <2>5
    <3>6. \/ outbox'[Joined(u, r)] > 0 /\ heardJoins'[r] = heardJoins[r]
          \/ /\ outbox'[Joined(u, r)] = outbox[Joined(u, r)]
             /\ heardJoins'[r] = heardJoins[r] \cup {u}
          \/ /\ outbox'[Joined(u, r)] = outbox[Joined(u, r)]
             /\ heardJoins'[r] = heardJoins[r] /\ Joined(u, r) \in lost'
      BY <1>t, <2>1, <2>2, <2>3, <3>5, EmitJoins
    <3>7. Joiners(r) \subseteq Users /\ status[r] = "live" /\ status'[r] = "live"
      BY <1>t, <2>1, <2>2, <2>5 DEF Joiners
    <3>8. /\ heardJoins[r] \subseteq Joiners(r)
          /\ \A v \in Users : outbox[Joined(v, r)] > 0 => v \in Joiners(r)
          /\ \A v \in Joiners(r) :
               v \in heardJoins[r] \/ outbox[Joined(v, r)] > 0 \/ Joined(v, r) \in lost
      BY <1>t, <3>7 DEF Announced
    <3> DEFINE J == Joiners(r)
    <3>9. ASSUME NEW v \in Users, outbox'[Joined(v, r)] > 0 PROVE v \in J \cup {u}
      <4>1. v # u => outbox[Joined(v, r)] > 0
        BY <3>4, <3>9
      <4>2. QED
        BY <3>8, <4>1
    <3>10. ASSUME NEW v \in J \cup {u}
           PROVE  v \in heardJoins'[r] \/ outbox'[Joined(v, r)] > 0 \/ Joined(v, r) \in lost'
      <4>1. CASE v = u
        BY <3>6, <4>1
      <4>2. CASE v # u
        <5>1. outbox'[Joined(v, r)] = outbox[Joined(v, r)]
          BY <3>4, <3>7, <4>2
        <5>2. Joined(v, r) \in lost => Joined(v, r) \in lost'
          BY <3>4, <3>7, <4>2
        <5>3. v \in heardJoins[r] => v \in heardJoins'[r]
          BY <3>6
        <5>4. QED
          BY <3>8, <4>2, <5>1, <5>2, <5>3
      <4>3. QED
        BY <4>1, <4>2
    <3>11. heardJoins'[r] \subseteq J \cup {u}
      BY <3>6, <3>8
    <3>12. (\A v : Joined(v, r)' = Joined(v, r)) /\ status'[r] # "unused"
      BY <3>7 DEF Joined
    <3>13. QED
      BY <3>3, <3>9, <3>10, <3>11, <3>12 DEF Announced
  <2>6. CASE r # s
    <3>1. members'[r] = members[r]
      BY <1>t, <2>1, <2>2, <2>6 DEF TypeOK
    <3>2. \A v \in Users : ev # Joined(v, r)
      BY <2>4, <2>6
    <3>3. /\ heardJoins'[r] = heardJoins[r]
          /\ \A v \in Users : /\ outbox'[Joined(v, r)] = outbox[Joined(v, r)]
                              /\ Joined(v, r) \in lost => Joined(v, r) \in lost'
      BY <1>t, <2>2, <2>3, <3>2, EmitJoins
    <3>4. QED
      BY <1>t, <2>2, <3>1, <3>3, AnnouncedQuiet
  <2>7. QED
    BY <2>5, <2>6
<1>4. ASSUME NEW p \in Processes, PatchCommit(p)
      PROVE Announced(r)'
  <2> DEFINE t == loop[p]
             ev == [type |-> "mode_changed", room |-> t.room, mode |-> t.mode]
  <2>1. t \in PatchTask
    BY <1>4, <1>t, TaskShape DEF PatchCommit
  <2>2. ev \in Event /\ \A v \in Users : ev # Joined(v, r)
    BY <2>1 DEF PatchTask, Event, ModeEvent, Joined
  <2>3. Emit(ev) /\ UNCHANGED <<status, owner, members>>
    BY <1>4 DEF PatchCommit
  <2>4. /\ heardJoins'[r] = heardJoins[r]
        /\ \A v \in Users : /\ outbox'[Joined(v, r)] = outbox[Joined(v, r)]
                            /\ Joined(v, r) \in lost => Joined(v, r) \in lost'
    BY <1>t, <2>2, <2>3, EmitJoins
  <2>5. QED
    BY <1>t, <2>3, <2>4, AnnouncedQuiet
<1>5. ASSUME NEW ev \in Event, RedisPublish(ev)
      PROVE Announced(r)'
  <2>1. /\ outbox' = [outbox EXCEPT ![ev] = @ - 1] /\ outbox[ev] > 0
        /\ Deliver(ev) \/ Lose(ev)
        /\ UNCHANGED <<status, owner, members>>
    BY <1>5 DEF RedisPublish
  <2>2. \A u \in Users : Joined(u, r) \in Event
    BY DEF Joined, Event, JoinedEvent
  <2>3. \A x \in Event \ {ev} : outbox'[x] = outbox[x] /\ (x \in lost => x \in lost')
    BY <1>t, <2>1 DEF TypeOK, Deliver, Lose
  <2>4. CASE ev \in JoinedEvent /\ ev.room = r
    <3> DEFINE u == ev.user
    <3>1. u \in Users /\ ev = Joined(u, r) /\ ev.type = "member_joined"
      BY <2>4 DEF JoinedEvent, Joined
    <3>2. \/ heardJoins'[r] = heardJoins[r] \cup {u}
          \/ heardJoins'[r] = heardJoins[r] /\ ev \in lost'
      BY <1>t, <2>1, <2>4, <3>1 DEF Deliver, Lose, TypeOK
    <3> HIDE DEF u
    <3>3. \A v \in Users \ {u} : /\ outbox'[Joined(v, r)] = outbox[Joined(v, r)]
                                 /\ Joined(v, r) \in lost => Joined(v, r) \in lost'
      <4>1. \A v \in Users \ {u} : Joined(v, r) # ev
        BY <3>1 DEF Joined
      <4>2. QED
        BY <2>2, <2>3, <4>1
    <3>4. outbox[Joined(u, r)] > 0
      BY <2>1, <3>1
    <3>5. CASE status[r] = "live"
      <4>1. /\ heardJoins[r] \subseteq Joiners(r) /\ u \in Joiners(r)
            /\ \A v \in Users : outbox[Joined(v, r)] > 0 => v \in Joiners(r)
            /\ \A v \in Joiners(r) :
                 v \in heardJoins[r] \/ outbox[Joined(v, r)] > 0 \/ Joined(v, r) \in lost
        BY <1>t, <3>1, <3>4, <3>5 DEF Announced
      <4>2. Joiners(r)' = Joiners(r) /\ Joiners(r) \subseteq Users
        BY <1>t, <2>1 DEF Joiners
      <4>3. ASSUME NEW v \in Users, outbox'[Joined(v, r)] > 0 PROVE v \in Joiners(r)
        <5>1. v # u => outbox[Joined(v, r)] > 0
          BY <3>3, <4>3
        <5>2. QED
          BY <4>1, <5>1
      <4>4. ASSUME NEW v \in Joiners(r)
            PROVE  v \in heardJoins'[r] \/ outbox'[Joined(v, r)] > 0 \/ Joined(v, r) \in lost'
        <5>1. CASE v = u
          BY <3>1, <3>2, <5>1
        <5>2. CASE v # u
          <6>1. outbox'[Joined(v, r)] = outbox[Joined(v, r)]
            BY <3>3, <4>2, <5>2
          <6>2. Joined(v, r) \in lost => Joined(v, r) \in lost'
            BY <3>3, <4>2, <5>2
          <6>3. v \in heardJoins[r] => v \in heardJoins'[r]
            BY <3>2
          <6>4. QED
            BY <4>1, <5>2, <6>1, <6>2, <6>3
        <5>3. QED
          BY <5>1, <5>2
      <4>5. (\A v : Joined(v, r)' = Joined(v, r)) /\ status'[r] = "live"
        BY <2>1, <3>5 DEF Joined
      <4>6. QED
        BY <3>2, <4>1, <4>2, <4>3, <4>4, <4>5 DEF Announced
    <3>6. CASE status[r] # "live"
      BY <1>t, <2>1, <3>1, <3>4, <3>6 DEF Announced
    <3>7. QED
      BY <3>5, <3>6
  <2>5. CASE ~(ev \in JoinedEvent /\ ev.room = r)
    <3>1. \A v \in Users : Joined(v, r) # ev
      BY <2>5 DEF Joined, JoinedEvent
    <3>2. heardJoins'[r] = heardJoins[r]
      BY <1>t, <2>1, <2>5 DEF Deliver, Lose, TypeOK, Event, JoinedEvent, ModeEvent
    <3>3. QED
      BY <1>t, <2>1, <2>2, <2>3, <3>1, <3>2, AnnouncedQuiet
  <2>6. QED
    BY <2>4, <2>5
<1>6. ASSUME UNCHANGED <<status, owner, members, outbox, heardJoins, lost>>
      PROVE Announced(r)'
  BY <1>6, <1>t, AnnouncedQuiet
<1>7. QED
  BY <1>1, <1>2, <1>3, <1>4, <1>5, <1>6
  DEF Next, ThreadStep, LoopStep, CreateInvite, InviteExpires, JoinLookup, JoinAdmit,
      JoinTurnedAway, JoinRollback, PatchRead, PatchRollback, Abort, EmitNothing, vars

\* With any number of processes, whatever order Redis takes the events in and
\* whichever of them are lost on the way: a join is announced only after its
\* commit, and one that is committed has been announced or waits for Redis,
\* unless its publish raised or its process died.
THEOREM CommittedJoinsAreAnnounced == Spec => []JoinsAnnounced
<1>1. Init => AnnouncedInv
  BY DEF Init, AnnouncedInv, Announced, Joined, Event, JoinedEvent
<1>2. RowsInv /\ AnnouncedInv => JoinsAnnounced
  <2> SUFFICES ASSUME RowsInv, AnnouncedInv, NEW r \in RoomIds \ {DemoRoom}, status[r] = "live"
               PROVE  /\ heardJoins[r] \subseteq members[r] \ {owner[r]}
                      /\ \A u \in members[r] \ ({owner[r]} \cup heardJoins[r]) :
                           outbox[Joined(u, r)] > 0 \/ Joined(u, r) \in lost
    BY DEF JoinsAnnounced
  <2>1. Announced(r)
    BY DEF AnnouncedInv
  <2>2. QED
    BY <2>1 DEF Announced, Joiners
<1>3. QED
  BY <1>1, <1>2, AnnouncedStep, RowsInvariant, NobodyComesInTwice, TypeCorrect, PTL DEF Spec

-----------------------------------------------------------------------------
(* The member limit                                                        *)

\* The joins that have passed the capacity check of a room and not committed.
Waiting(r) == {p \in Processes : loop[p].at = "admitted" /\ loop[p].room = r}

\* Each process can hold one place nobody has counted; the strengthening counts
\* the places held against the limit.
PlacesInv ==
  \A r \in RoomIds :
    Cardinality(members[r]) + Cardinality(Waiting(r)) + 1 <= MaxMembers + Cardinality(Processes)

LEMMA ProcessesFinite ==
  ASSUME NEW S \in SUBSET Processes
  PROVE  /\ IsFiniteSet(S)
         /\ Cardinality(S) \in Nat
         /\ Cardinality(Processes) \in Nat \ {0}
         /\ Cardinality(S) <= Cardinality(Processes)
  BY ProcessesAssumption, FS_Subset, FS_CardinalityType, FS_EmptySet

\* A step that lets nobody in and admits nobody keeps the bound.
LEMMA PlacesQuiet ==
  ASSUME TypeOK, TypeOK', PlacesInv,
         \A r \in RoomIds : members'[r] \subseteq members[r] /\ Waiting(r)' \subseteq Waiting(r)
  PROVE  PlacesInv'
<1> SUFFICES ASSUME NEW r \in RoomIds
             PROVE Cardinality(members'[r]) + Cardinality(Waiting(r)') + 1
                     <= MaxMembers + Cardinality(Processes)
  BY DEF PlacesInv
<1>1. members[r] \in SUBSET Users /\ members'[r] \in SUBSET Users
  BY DEF TypeOK
<1>2. Cardinality(members'[r]) <= Cardinality(members[r])
  BY <1>1, UsersFinite, FS_Subset
<1>3. Waiting(r) \in SUBSET Processes /\ Waiting(r)' \in SUBSET Processes
  BY DEF Waiting
<1>4. Cardinality(Waiting(r)') <= Cardinality(Waiting(r))
  BY <1>3, ProcessesFinite, FS_Subset
<1>5. /\ Cardinality(members[r]) \in Nat /\ Cardinality(members'[r]) \in Nat
      /\ Cardinality(Waiting(r)) \in Nat /\ Cardinality(Waiting(r)') \in Nat
      /\ Cardinality(Processes) \in Nat
  BY <1>1, <1>3, UsersFinite, ProcessesFinite
<1>6. Cardinality(members[r]) + Cardinality(Waiting(r)) + 1
        <= MaxMembers + Cardinality(Processes)
  BY DEF PlacesInv
<1>7. QED
  BY <1>2, <1>4, <1>5, <1>6, LimitsAssumption

LEMMA PlacesInit == Init => PlacesInv
<1> SUFFICES ASSUME Init, NEW r \in RoomIds
             PROVE Cardinality(members[r]) + Cardinality(Waiting(r)) + 1
                     <= MaxMembers + Cardinality(Processes)
  BY DEF PlacesInv
<1>1. Waiting(r) = {}
  BY DEF Init, Waiting, Idle
<1>2. Cardinality(members[r]) <= MaxMembers /\ Cardinality(members[r]) \in Nat
  BY LimitsAssumption, UsersAssumption, UsersFinite, FS_EmptySet DEF Init
<1>3. Cardinality(Waiting(r)) = 0
  BY <1>1, FS_EmptySet
<1>4. Cardinality(Processes) \in Nat \ {0}
  BY ProcessesFinite
<1>5. QED
  BY <1>2, <1>3, <1>4, LimitsAssumption

LEMMA PlacesStep == RowsInv /\ TypeOK' /\ PlacesInv /\ [Next]_vars => PlacesInv'
<1> SUFFICES ASSUME RowsInv, TypeOK', PlacesInv, [Next]_vars PROVE PlacesInv'
  OBVIOUS
<1>t. TypeOK
  BY DEF RowsInv
<1>1. ASSUME NEW u \in Users, NEW r \in RoomIds, NEW m \in Modes, CreateRoom(u, r, m)
      PROVE PlacesInv'
  <2> SUFFICES ASSUME NEW s \in RoomIds
               PROVE Cardinality(members'[s]) + Cardinality(Waiting(s)') + 1
                       <= MaxMembers + Cardinality(Processes)
    BY DEF PlacesInv
  <2>1. Waiting(s)' = Waiting(s)
    BY <1>1 DEF CreateRoom, Waiting
  <2>2. CASE s # r
    <3>1. members'[s] = members[s]
      BY <1>1, <1>t, <2>2 DEF CreateRoom, TypeOK
    <3>2. QED
      BY <2>1, <3>1 DEF PlacesInv
  <2>3. CASE s = r
    <3>1. Waiting(r) = {}
      BY <1>1 DEF CreateRoom, Waiting, RowsInv, ReadsAreBacked, Joining
    <3>2. members'[r] = {u}
      BY <1>1, <1>t DEF CreateRoom, TypeOK
    <3>3. Cardinality(Waiting(s)') = 0 /\ Cardinality(members'[s]) = 1
      BY <2>1, <2>3, <3>1, <3>2, FS_EmptySet, FS_Singleton
    <3>4. QED
      BY <3>3, ProcessesFinite, LimitsAssumption
  <2>4. QED
    BY <2>2, <2>3
<1>2. ASSUME NEW u \in Users, NEW r \in RoomIds, DeleteRoom(u, r)
      PROVE PlacesInv'
  BY <1>2, <1>t, PlacesQuiet DEF DeleteRoom, Waiting, TypeOK
<1>3. ASSUME UNCHANGED <<members, loop>>
      PROVE PlacesInv'
  BY <1>3, <1>t, PlacesQuiet DEF Waiting
<1>4. ASSUME NEW p \in Processes, UNCHANGED members, loop'[p].at # "admitted",
             \A q \in Processes \ {p} : loop'[q] = loop[q]
      PROVE PlacesInv'
  <2>1. \A r \in RoomIds : Waiting(r)' \subseteq Waiting(r)
    BY <1>4 DEF Waiting
  <2>2. QED
    BY <1>4, <1>t, <2>1, PlacesQuiet
<1>5. ASSUME NEW p \in Processes, JoinAdmit(p)
      PROVE PlacesInv'
  <2> SUFFICES ASSUME NEW s \in RoomIds
               PROVE Cardinality(members'[s]) + Cardinality(Waiting(s)') + 1
                       <= MaxMembers + Cardinality(Processes)
    BY DEF PlacesInv
  <2>1. members' = members
    BY <1>5 DEF JoinAdmit
  <2>2. Waiting(s)' \in SUBSET Processes /\ members[s] \in SUBSET Users
    BY <1>t DEF Waiting, TypeOK
  <2>3. loop[p] \in JoinTask
    BY <1>5, <1>t, TaskShape DEF JoinAdmit
  <2>4. CASE s = loop[p].room
    <3>1. Cardinality(members[s]) < MaxMembers
      BY <1>5, <2>4 DEF JoinAdmit, HasRoomFor
    <3>2. Cardinality(Waiting(s)') <= Cardinality(Processes)
      BY <2>2, ProcessesFinite
    <3>3. /\ Cardinality(members[s]) \in Nat
          /\ Cardinality(Waiting(s)') \in Nat
          /\ Cardinality(Processes) \in Nat
      BY <2>2, ProcessesFinite, UsersFinite
    <3>4. QED
      BY <2>1, <3>1, <3>2, <3>3, LimitsAssumption
  <2>5. CASE s # loop[p].room
    <3>1. Waiting(s)' = Waiting(s)
      BY <1>5, <1>t, <2>3, <2>5 DEF JoinAdmit, Waiting, TypeOK, JoinTask
    <3>2. QED
      BY <2>1, <3>1 DEF PlacesInv
  <2>6. QED
    BY <2>4, <2>5
<1>6. ASSUME NEW p \in Processes, JoinCommit(p)
      PROVE PlacesInv'
  <2> DEFINE t == loop[p]
  <2> SUFFICES ASSUME NEW s \in RoomIds
               PROVE Cardinality(members'[s]) + Cardinality(Waiting(s)') + 1
                       <= MaxMembers + Cardinality(Processes)
    BY DEF PlacesInv
  <2>1. /\ t.at = "admitted"
        /\ members' = [members EXCEPT ![t.room] = @ \cup {t.user}]
        /\ loop' = [loop EXCEPT ![p] = Idle]
    BY <1>6 DEF JoinCommit, Release
  <2>2. Waiting(s)' = Waiting(s) \ {p}
    BY <1>t, <2>1 DEF Waiting, TypeOK, Idle
  <2>3. Waiting(s) \in SUBSET Processes /\ members[s] \in SUBSET Users
    BY <1>t DEF Waiting, TypeOK
  <2>4. /\ Cardinality(Waiting(s)) \in Nat /\ IsFiniteSet(Waiting(s))
        /\ Cardinality(members[s]) \in Nat
        /\ Cardinality(Processes) \in Nat
    BY <2>3, UsersFinite, ProcessesFinite
  <2>5. Cardinality(members[s]) + Cardinality(Waiting(s)) + 1
          <= MaxMembers + Cardinality(Processes)
    BY DEF PlacesInv
  <2>6. CASE s = t.room
    <3>1. p \in Waiting(s)
      BY <2>1, <2>6 DEF Waiting
    <3>2. Cardinality(Waiting(s)') = Cardinality(Waiting(s)) - 1
      BY <2>2, <2>4, <3>1, FS_RemoveElement
    <3>3. members'[s] = members[s] \cup {t.user}
      BY <1>t, <2>1, <2>6 DEF TypeOK
    <3>4. Cardinality(members'[s]) <= Cardinality(members[s]) + 1
          /\ Cardinality(members'[s]) \in Nat
      <4>1. Cardinality(members[s] \cup {t.user}) = IF t.user \in members[s]
                                                    THEN Cardinality(members[s])
                                                    ELSE Cardinality(members[s]) + 1
        BY <2>3, UsersFinite
      <4>2. QED
        BY <2>4, <3>3, <4>1
    <3>5. QED
      BY <2>4, <2>5, <3>2, <3>4, LimitsAssumption
  <2>7. CASE s # t.room
    <3>1. Waiting(s)' = Waiting(s)
      BY <2>2, <2>7 DEF Waiting
    <3>2. members'[s] = members[s]
      BY <1>t, <2>1, <2>7 DEF TypeOK
    <3>3. QED
      BY <2>5, <3>1, <3>2
  <2>8. QED
    BY <2>6, <2>7
<1>7. ASSUME NEW i \in InviteIds,
             InviteExpires(i) \/ \E u \in Users, r \in RoomIds : CreateInvite(u, r, i)
      PROVE PlacesInv'
  BY <1>3, <1>7 DEF InviteExpires, CreateInvite
<1>8. ASSUME NEW p \in Processes,
             \/ JoinTurnedAway(p) \/ JoinRollback(p) \/ Abort(p)
             \/ PatchCommit(p) \/ PatchRollback(p)
      PROVE PlacesInv'
  <2>1. UNCHANGED members /\ Release(p)
    BY <1>8 DEF JoinTurnedAway, JoinRollback, Abort, PatchCommit, PatchRollback
  <2>2. loop'[p].at # "admitted" /\ \A q \in Processes \ {p} : loop'[q] = loop[q]
    BY <1>t, <2>1 DEF Release, Idle, TypeOK
  <2>3. QED
    BY <1>4, <2>1, <2>2
<1>9. ASSUME NEW p \in Processes, NEW u \in Users, NEW i \in InviteIds, JoinLookup(p, u, i)
      PROVE PlacesInv'
  BY <1>4, <1>9, <1>t DEF JoinLookup, TypeOK
<1>10. ASSUME NEW p \in Processes, NEW u \in Users, NEW r \in RoomIds, NEW m \in Modes,
              PatchRead(p, u, r, m)
       PROVE PlacesInv'
  BY <1>4, <1>10, <1>t DEF PatchRead, TypeOK
<1>11. ASSUME NEW ev \in Event, RedisPublish(ev)
       PROVE PlacesInv'
  BY <1>3, <1>11 DEF RedisPublish
<1>12. CASE UNCHANGED vars
  BY <1>3, <1>12 DEF vars
<1>13. QED
  BY <1>1, <1>2, <1>5, <1>6, <1>7, <1>8, <1>9, <1>10, <1>11, <1>12
  DEF Next, ThreadStep, LoopStep

\* With n processes a room exceeds MAX_MEMBERS by at most n - 1.
THEOREM OverflowIsBounded == Spec => []OverflowBounded
<1>1. TypeOK /\ PlacesInv => OverflowBounded
  <2> SUFFICES ASSUME TypeOK, PlacesInv, NEW r \in RoomIds
               PROVE Cardinality(members[r]) + 1 <= MaxMembers + Cardinality(Processes)
    BY DEF OverflowBounded
  <2>1. /\ Cardinality(members[r]) \in Nat
        /\ Cardinality(Waiting(r)) \in Nat
        /\ Cardinality(Processes) \in Nat
    BY UsersFinite, ProcessesFinite DEF TypeOK, Waiting
  <2>2. QED
    BY <2>1, LimitsAssumption DEF PlacesInv
<1>2. QED
  BY <1>1, PlacesInit, PlacesStep, RowsInvariant, TypeCorrect, PTL DEF Spec

\* In one process, as the API is deployed, a room never exceeds MAX_MEMBERS.
THEOREM OneProcessNeverOverfills ==
  ASSUME Cardinality(Processes) = 1
  PROVE  Spec => []RoomNeverOverfull
<1>1. TypeOK /\ OverflowBounded => RoomNeverOverfull
  BY UsersFinite, LimitsAssumption DEF TypeOK, OverflowBounded, RoomNeverOverfull
<1>2. QED
  BY <1>1, OverflowIsBounded, TypeCorrect, PTL

-----------------------------------------------------------------------------
(* The seeded demo room                                                    *)

\* Nobody who may write is in the demo room, so it never has an invite, so no
\* join ever reaches it; and only its owner, a persona, could delete it.
SealedInv ==
  DemoRoom \in RoomIds =>
    /\ DemoRoomSealed
    /\ owner[DemoRoom] \in Demo
    /\ InvitesTo(DemoRoom) = {}
    /\ \A p \in Processes : Joining(p) => loop[p].room # DemoRoom

\* Demo users cannot change or delete the room the seed script shares with
\* every visitor, and neither can anybody else.
THEOREM DemoRoomStaysSealed == Spec => []DemoRoomSealed
<1>1. Init => SealedInv
  BY DEF Init, SealedInv, DemoRoomSealed, InvitesTo, LiveInvite, NoInvite, Joining, Idle
<1>2. TypeOK /\ TypeOK' /\ SealedInv /\ [Next]_vars => SealedInv'
  <2> SUFFICES ASSUME TypeOK, TypeOK', SealedInv, [Next]_vars, DemoRoom \in RoomIds
               PROVE SealedInv'
    BY DEF SealedInv
  <2> USE DEF SealedInv, DemoRoomSealed
  <2>1. ASSUME NEW u \in Users, NEW r \in RoomIds, NEW m \in Modes, CreateRoom(u, r, m)
        PROVE SealedInv'
    BY <2>1 DEF CreateRoom, TypeOK, InvitesTo, LiveInvite, Joining
  <2>2. ASSUME NEW u \in Users, NEW r \in RoomIds, DeleteRoom(u, r)
        PROVE SealedInv'
    <3>1. r # DemoRoom
      BY <2>2 DEF DeleteRoom, Writable
    <3>2. InvitesTo(DemoRoom)' = {}
      BY <2>2 DEF DeleteRoom, InvitesTo, LiveInvite, GoneInvite
    <3>3. QED
      BY <2>2, <3>1, <3>2 DEF DeleteRoom, TypeOK, Joining
  <2>3. ASSUME NEW u \in Users, NEW r \in RoomIds, NEW i \in InviteIds, CreateInvite(u, r, i)
        PROVE SealedInv'
    <3>1. r # DemoRoom
      BY <2>3 DEF CreateInvite, Writable, IsMember
    <3>2. InvitesTo(DemoRoom)' = {}
      BY <2>3, <3>1 DEF CreateInvite, InvitesTo, LiveInvite, TypeOK
    <3>3. QED
      BY <2>3, <3>2 DEF CreateInvite, Joining
  <2>4. ASSUME NEW i \in InviteIds, InviteExpires(i)
        PROVE SealedInv'
    <3>1. invite[i] \in InviteRow
      BY <2>4 DEF InviteExpires, LiveInvite, TypeOK, NoInvite, GoneInvite
    <3>2. InvitesTo(DemoRoom)' = {}
      BY <2>4, <3>1 DEF InviteExpires, InvitesTo, LiveInvite, TypeOK, InviteRow
    <3>3. QED
      BY <2>4, <3>2 DEF InviteExpires, Joining
  <2>5. ASSUME NEW p \in Processes, NEW u \in Users, NEW i \in InviteIds, JoinLookup(p, u, i)
        PROVE SealedInv'
    BY <2>5 DEF JoinLookup, TypeOK, InvitesTo, LiveInvite, Joining
  <2>6. ASSUME NEW p \in Processes, JoinAdmit(p)
        PROVE SealedInv'
    <3>1. loop[p] \in JoinTask
      BY <2>6, TaskShape DEF JoinAdmit
    <3>2. QED
      BY <2>6, <3>1 DEF JoinAdmit, TypeOK, InvitesTo, LiveInvite, Joining, JoinTask
  <2>7. ASSUME NEW p \in Processes, JoinCommit(p)
        PROVE SealedInv'
    <3>1. loop[p] \in JoinTask /\ loop[p].room # DemoRoom
      BY <2>7, TaskShape DEF JoinCommit, Joining
    <3>2. invite'[loop[p].invite].room = invite[loop[p].invite].room
          /\ invite'[loop[p].invite].state = invite[loop[p].invite].state
      BY <2>7, <3>1 DEF JoinCommit, TypeOK, JoinTask, InviteRow, NoInvite, GoneInvite
    <3>3. InvitesTo(DemoRoom)' = {}
      BY <2>7, <3>1, <3>2 DEF JoinCommit, InvitesTo, LiveInvite, TypeOK
    <3>4. QED
      BY <2>7, <3>1, <3>3 DEF JoinCommit, Release, TypeOK, Joining, Idle
  <2>8. ASSUME NEW p \in Processes,
               \/ JoinTurnedAway(p) \/ JoinRollback(p) \/ Abort(p)
               \/ PatchCommit(p) \/ PatchRollback(p)
        PROVE SealedInv'
    <3>1. UNCHANGED <<status, owner, members, invite>> /\ Release(p)
      BY <2>8 DEF JoinTurnedAway, JoinRollback, Abort, PatchCommit, PatchRollback
    <3>2. QED
      BY <3>1 DEF Release, TypeOK, InvitesTo, LiveInvite, Joining, Idle
  <2>9. ASSUME NEW p \in Processes, NEW u \in Users, NEW r \in RoomIds, NEW m \in Modes,
               PatchRead(p, u, r, m)
        PROVE SealedInv'
    BY <2>9 DEF PatchRead, TypeOK, InvitesTo, LiveInvite, Joining
  <2>10. ASSUME NEW ev \in Event, RedisPublish(ev)
         PROVE SealedInv'
    BY <2>10 DEF RedisPublish, InvitesTo, LiveInvite, Joining
  <2>11. CASE UNCHANGED vars
    BY <2>11 DEF vars, InvitesTo, LiveInvite, Joining
  <2>12. QED
    BY <2>1, <2>2, <2>3, <2>4, <2>5, <2>6, <2>7, <2>8, <2>9, <2>10, <2>11
    DEF Next, ThreadStep, LoopStep
<1>3. SealedInv => DemoRoomSealed
  BY DEF SealedInv, DemoRoomSealed
<1>4. QED
  BY <1>1, <1>2, <1>3, TypeCorrect, PTL DEF Spec

-----------------------------------------------------------------------------
(* One process: the interleaved handlers are as good as atomic             *)

\* With one event loop nothing else can spend a use or take a place between
\* what a join reads and what it commits, unless the room itself goes.
FreshReads ==
  \A p \in Processes : Joining(p) /\ status[loop[p].room] = "live" =>
    LET t == loop[p] IN
    /\ invite[t.invite].uses = t.uses
    /\ t.at = "admitted" => /\ HasRoomFor(t)
                            /\ t.user \notin members[t.room]

LEMMA SoleProcess ==
  ASSUME Cardinality(Processes) = 1
  PROVE  \A p, q \in Processes : p = q
  BY ProcessesAssumption, FS_Singleton

\* A step after which no join is under way has fresh reads.
LEMMA NobodyJoining == (\A p \in Processes : ~Joining(p)) => FreshReads
BY DEF FreshReads

LEMMA FreshInit == Init => FreshReads
BY NobodyJoining DEF Init, Joining, Idle

LEMMA FreshStep ==
  ASSUME Cardinality(Processes) = 1
  PROVE  RowsInv /\ TypeOK' /\ FreshReads /\ [Next]_vars => FreshReads'
<1> SUFFICES ASSUME RowsInv, TypeOK', FreshReads, [Next]_vars PROVE FreshReads'
  OBVIOUS
<1>t. TypeOK
  BY DEF RowsInv
<1>q. ASSUME UNCHANGED <<status, members, invite, loop>> PROVE FreshReads'
  BY <1>q DEF FreshReads, Joining, HasRoomFor
<1>i. ASSUME NEW p \in Processes, ~Joining(p)' PROVE FreshReads'
  BY <1>i, SoleProcess DEF FreshReads
<1>1. ASSUME NEW u \in Users, NEW r \in RoomIds, NEW m \in Modes, CreateRoom(u, r, m)
      PROVE FreshReads'
  <2> SUFFICES ASSUME NEW p \in Processes, Joining(p), status'[loop[p].room] = "live"
               PROVE LET t == loop[p] IN
                     /\ invite[t.invite].uses = t.uses
                     /\ t.at = "admitted" => /\ Cardinality(members'[t.room]) < MaxMembers
                                             /\ t.user \notin members'[t.room]
    BY <1>1 DEF CreateRoom, FreshReads, Joining, HasRoomFor
  <2>1. loop[p] \in JoinTask
    BY <1>t, TaskShape DEF Joining
  <2>2. loop[p].room # r
    BY <1>1 DEF CreateRoom, RowsInv, ReadsAreBacked
  <2>3. status'[loop[p].room] = status[loop[p].room]
        /\ members'[loop[p].room] = members[loop[p].room]
    BY <1>1, <1>t, <2>1, <2>2 DEF CreateRoom, TypeOK, JoinTask
  <2>4. QED
    BY <2>3 DEF FreshReads, HasRoomFor
<1>2. ASSUME NEW u \in Users, NEW r \in RoomIds, DeleteRoom(u, r)
      PROVE FreshReads'
  <2> SUFFICES ASSUME NEW p \in Processes, Joining(p), status'[loop[p].room] = "live"
               PROVE LET t == loop[p] IN
                     /\ invite'[t.invite].uses = t.uses
                     /\ t.at = "admitted" => /\ Cardinality(members'[t.room]) < MaxMembers
                                             /\ t.user \notin members'[t.room]
    BY <1>2 DEF DeleteRoom, FreshReads, Joining, HasRoomFor
  <2>1. loop[p] \in JoinTask
    BY <1>t, TaskShape DEF Joining
  <2>2. loop[p].room # r
    BY <1>2, <1>t, <2>1 DEF DeleteRoom, TypeOK, JoinTask
  <2>3. status'[loop[p].room] = status[loop[p].room]
        /\ members'[loop[p].room] = members[loop[p].room]
    BY <1>2, <1>t, <2>1, <2>2 DEF DeleteRoom, TypeOK, JoinTask
  <2>4. invite[loop[p].invite].room = loop[p].room
    BY <2>3 DEF RowsInv, ReadsAreBacked
  <2>5. invite'[loop[p].invite] = invite[loop[p].invite]
    BY <1>2, <2>1, <2>2, <2>4 DEF DeleteRoom, JoinTask
  <2>6. QED
    BY <2>3, <2>5 DEF FreshReads, HasRoomFor
<1>3. ASSUME NEW u \in Users, NEW r \in RoomIds, NEW i \in InviteIds, CreateInvite(u, r, i)
      PROVE FreshReads'
  <2> SUFFICES ASSUME NEW p \in Processes, Joining(p), status[loop[p].room] = "live"
               PROVE LET t == loop[p] IN
                     /\ invite'[t.invite].uses = t.uses
                     /\ t.at = "admitted" => /\ Cardinality(members[t.room]) < MaxMembers
                                             /\ t.user \notin members[t.room]
    BY <1>3 DEF CreateInvite, FreshReads, Joining, HasRoomFor
  <2>1. LiveInvite(loop[p].invite)
    BY DEF RowsInv, ReadsAreBacked
  <2>2. loop[p].invite # i
    BY <1>3, <2>1 DEF CreateInvite, LiveInvite, NoInvite
  <2>3. invite'[loop[p].invite] = invite[loop[p].invite]
    BY <1>3, <1>t, <2>2, TaskShape DEF CreateInvite, TypeOK, JoinTask, Joining
  <2>4. QED
    BY <2>3 DEF FreshReads, HasRoomFor
<1>4. ASSUME NEW i \in InviteIds, InviteExpires(i)
      PROVE FreshReads'
  <2> SUFFICES ASSUME NEW p \in Processes, Joining(p), status[loop[p].room] = "live"
               PROVE LET t == loop[p] IN
                     /\ invite'[t.invite].uses = t.uses
                     /\ t.at = "admitted" => /\ Cardinality(members[t.room]) < MaxMembers
                                             /\ t.user \notin members[t.room]
    BY <1>4 DEF InviteExpires, FreshReads, Joining, HasRoomFor
  <2>1. loop[p] \in JoinTask /\ invite[i] \in InviteRow
    BY <1>4, <1>t, TaskShape, LiveInviteRow DEF InviteExpires, Joining, RowsInv
  <2>2. invite'[loop[p].invite].uses = invite[loop[p].invite].uses
    BY <1>4, <1>t, <2>1 DEF InviteExpires, TypeOK, JoinTask, InviteRow
  <2>3. QED
    BY <2>2 DEF FreshReads, HasRoomFor
<1>5. ASSUME NEW p \in Processes, NEW u \in Users, NEW i \in InviteIds, JoinLookup(p, u, i)
      PROVE FreshReads'
  <2>1. /\ UNCHANGED invite
        /\ loop'[p] = [at |-> "found", user |-> u, room |-> invite[i].room,
                       invite |-> i, uses |-> invite[i].uses]
    BY <1>5, <1>t DEF JoinLookup, TypeOK
  <2>2. QED
    BY <2>1, SoleProcess DEF FreshReads
<1>6. ASSUME NEW p \in Processes, JoinAdmit(p)
      PROVE FreshReads'
  <2>1. loop[p] \in JoinTask
    BY <1>6, <1>t, TaskShape DEF JoinAdmit
  <2>2. loop'[p] = [loop[p] EXCEPT !.at = "admitted"]
    BY <1>6, <1>t DEF JoinAdmit, TypeOK
  <2>3. /\ UNCHANGED <<status, members, invite>>
        /\ status[loop[p].room] = "live"
        /\ loop[p].user \notin members[loop[p].room]
        /\ Cardinality(members[loop[p].room]) < MaxMembers
        /\ loop'[p].room = loop[p].room /\ loop'[p].user = loop[p].user
        /\ loop'[p].invite = loop[p].invite /\ loop'[p].uses = loop[p].uses
    BY <1>6, <2>1, <2>2 DEF JoinAdmit, HasRoomFor, JoinTask
  <2>4. invite[loop[p].invite].uses = loop[p].uses
    BY <1>6, <2>3 DEF FreshReads, Joining, JoinAdmit
  <2>5. QED
    BY <2>3, <2>4, SoleProcess DEF FreshReads, HasRoomFor
<1>7. ASSUME NEW p \in Processes,
             \/ JoinTurnedAway(p) \/ JoinCommit(p) \/ JoinRollback(p)
             \/ PatchCommit(p) \/ PatchRollback(p) \/ Abort(p)
             \/ \E u \in Users, r \in RoomIds, m \in Modes : PatchRead(p, u, r, m)
      PROVE FreshReads'
  <2>1. ~Joining(p)'
    BY <1>7, <1>t DEF JoinTurnedAway, JoinCommit, JoinRollback, PatchCommit, PatchRollback,
                      Abort, PatchRead, Release, Idle, Joining, TypeOK
  <2>2. QED
    BY <1>i, <2>1
<1>8. ASSUME NEW ev \in Event, RedisPublish(ev)
      PROVE FreshReads'
  BY <1>8, <1>q DEF RedisPublish
<1>9. CASE UNCHANGED vars
  BY <1>9, <1>q DEF vars
<1>10. QED
  BY <1>1, <1>2, <1>3, <1>4, <1>5, <1>6, <1>7, <1>8, <1>9 DEF Next, ThreadStep, LoopStep

LEMMA FreshInvariant ==
  ASSUME Cardinality(Processes) = 1
  PROVE  Spec => [](RowsInv /\ FreshReads)
BY FreshInit, FreshStep, RowsInvariant, TypeCorrect, PTL DEF Spec, RowsInv

\* What a join that is about to commit knows, in one process.
LEMMA CommitFacts ==
  ASSUME RowsInv, FreshReads, NEW p \in Processes, JoinCommit(p)
  PROVE  LET t == loop[p] IN
         /\ t.room \in RoomIds /\ t.user \in Users /\ t.invite \in InviteIds
         /\ t.uses \in Nat /\ t.uses < MaxUses
         /\ status[t.room] = "live"
         /\ LiveInvite(t.invite)
         /\ invite[t.invite] \in InviteRow
         /\ invite[t.invite].room = t.room
         /\ invite[t.invite].uses = t.uses
         /\ t.user \notin members[t.room]
         /\ Cardinality(members[t.room]) < MaxMembers
<1>1. loop[p] \in JoinTask
  BY TaskShape DEF JoinCommit, RowsInv
<1>2. Joining(p) /\ loop[p].at = "admitted" /\ status[loop[p].room] = "live"
  BY DEF JoinCommit, RowAccepted, Joining
<1>3. LiveInvite(loop[p].invite) /\ invite[loop[p].invite].room = loop[p].room
  BY <1>2 DEF RowsInv, ReadsAreBacked
<1>4. invite[loop[p].invite] \in InviteRow
  BY <1>1, <1>3, LiveInviteRow DEF RowsInv, JoinTask
<1>5. QED
  BY <1>1, <1>2, <1>3, <1>4, LimitsAssumption DEF FreshReads, HasRoomFor, JoinTask

LEMMA UsesStep ==
  RowsInv /\ TypeOK' /\ FreshReads /\ UsesCountJoins /\ [Next]_vars => UsesCountJoins'
<1> SUFFICES ASSUME RowsInv, TypeOK', FreshReads, UsesCountJoins, [Next]_vars
             PROVE UsesCountJoins'
  OBVIOUS
<1>t. TypeOK
  BY DEF RowsInv
<1>q. ASSUME UNCHANGED <<invite, joined>> PROVE UsesCountJoins'
  BY <1>q DEF UsesCountJoins, LiveInvite
<1>1. ASSUME NEW u \in Users, NEW r \in RoomIds, DeleteRoom(u, r)
      PROVE UsesCountJoins'
  BY <1>1 DEF DeleteRoom, UsesCountJoins, LiveInvite, GoneInvite
<1>2. ASSUME NEW u \in Users, NEW r \in RoomIds, NEW i \in InviteIds, CreateInvite(u, r, i)
      PROVE UsesCountJoins'
  <2>1. joined[i] = {} /\ Cardinality(joined[i]) = 0
    BY <1>2, FS_EmptySet DEF CreateInvite, RowsInv, UnusedInvitesAdmittedNobody
  <2>2. QED
    BY <1>2, <1>t, <2>1 DEF CreateInvite, UsesCountJoins, LiveInvite, TypeOK
<1>3. ASSUME NEW i \in InviteIds, InviteExpires(i)
      PROVE UsesCountJoins'
  <2>1. invite[i] \in InviteRow
    BY <1>3, LiveInviteRow DEF InviteExpires, RowsInv
  <2>2. QED
    BY <1>3, <1>t, <2>1 DEF InviteExpires, UsesCountJoins, LiveInvite, TypeOK, InviteRow
<1>4. ASSUME NEW p \in Processes, JoinCommit(p)
      PROVE UsesCountJoins'
  <2> DEFINE t == loop[p]
  <2>1. /\ t.room \in RoomIds /\ t.invite \in InviteIds /\ t.uses \in Nat
        /\ invite[t.invite] \in InviteRow
        /\ LiveInvite(t.invite)
        /\ invite[t.invite].room = t.room /\ invite[t.invite].uses = t.uses
        /\ t.user \notin members[t.room]
    BY <1>4, CommitFacts
  <2>2. t.user \notin joined[t.invite] /\ joined[t.invite] \in SUBSET Users
    BY <1>t, <2>1 DEF RowsInv, JoinersAreMembers, TypeOK
  <2>3. /\ invite' = [invite EXCEPT ![t.invite].uses = t.uses + 1]
        /\ joined' = [joined EXCEPT ![t.invite] = @ \cup {t.user}]
    BY <1>4 DEF JoinCommit
  <2>4. Cardinality(joined'[t.invite]) = Cardinality(joined[t.invite]) + 1
    BY <1>t, <2>1, <2>2, <2>3, UsersFinite DEF TypeOK
  <2>5. invite'[t.invite].uses = t.uses + 1
    BY <1>t, <2>1, <2>3 DEF TypeOK, InviteRow
  <2>6. Cardinality(joined[t.invite]) = t.uses
    BY <2>1 DEF UsesCountJoins
  <2>7. \A j \in InviteIds \ {t.invite} : invite'[j] = invite[j] /\ joined'[j] = joined[j]
    BY <1>t, <2>1, <2>3 DEF TypeOK
  <2>8. QED
    <3> SUFFICES ASSUME NEW j \in InviteIds, invite'[j].state = "live"
                 PROVE invite'[j].uses = Cardinality(joined'[j])
      BY DEF UsesCountJoins, LiveInvite
    <3>1. CASE j = t.invite
      BY <2>4, <2>5, <2>6, <3>1
    <3>2. CASE j # t.invite
      BY <2>7, <3>2 DEF UsesCountJoins, LiveInvite
    <3>3. QED
      BY <3>1, <3>2
<1>5. ASSUME NEW u \in Users, NEW r \in RoomIds, NEW m \in Modes, CreateRoom(u, r, m)
      PROVE UsesCountJoins'
  BY <1>5, <1>q DEF CreateRoom
<1>6. ASSUME NEW p \in Processes,
             \/ \E u \in Users, i \in InviteIds : JoinLookup(p, u, i)
             \/ JoinAdmit(p) \/ JoinTurnedAway(p) \/ JoinRollback(p) \/ Abort(p)
             \/ \E u \in Users, r \in RoomIds, m \in Modes : PatchRead(p, u, r, m)
             \/ PatchCommit(p) \/ PatchRollback(p)
      PROVE UsesCountJoins'
  BY <1>6, <1>q DEF JoinLookup, JoinAdmit, JoinTurnedAway, JoinRollback, Abort, PatchRead,
                    PatchCommit, PatchRollback
<1>7. ASSUME NEW ev \in Event, RedisPublish(ev)
      PROVE UsesCountJoins'
  BY <1>7, <1>q DEF RedisPublish
<1>8. CASE UNCHANGED vars
  BY <1>8, <1>q DEF vars
<1>9. QED
  BY <1>1, <1>2, <1>3, <1>4, <1>5, <1>6, <1>7, <1>8 DEF Next, ThreadStep, LoopStep

\* In one process every join spends exactly one use of its invite, and nothing
\* else spends one.
THEOREM OneProcessUsesAreExact ==
  ASSUME Cardinality(Processes) = 1
  PROVE  Spec => []UsesCountJoins
<1>1. Init => UsesCountJoins
  BY DEF Init, UsesCountJoins, LiveInvite, NoInvite
<1>2. QED
  BY <1>1, UsesStep, FreshInvariant, TypeCorrect, PTL DEF Spec

-----------------------------------------------------------------------------
(* The mode in one process                                                 *)

\* Nothing is ever waiting, what was announced last is what is stored or its
\* event was lost, and a patch that is about to announce the mode it found has
\* found the right one.
ModesInv ==
  /\ \A ev \in Event : outbox[ev] = 0
  /\ \A r \in RoomIds : status[r] = "live" => heardMode[r] = mode[r] \/ Changed(mode[r], r) \in lost
  /\ \A p \in Processes : loop[p].at = "patching" =>
       /\ status[loop[p].room] # "unused"
       /\ status[loop[p].room] = "live" /\ ~loop[p].changed => mode[loop[p].room] = loop[p].mode

LEMMA ModesStep ==
  ASSUME ~Redis
  PROVE  TypeOK /\ TypeOK' /\ ModesInv /\ [Next]_vars => ModesInv'
<1> SUFFICES ASSUME TypeOK, TypeOK', ModesInv, [Next]_vars PROVE ModesInv'
  OBVIOUS
<1>p. \A p, q \in Processes : p = q
  BY RedisAssumption, SoleProcess
<1>q. ASSUME UNCHANGED <<status, mode, outbox, heardMode>>,
             \A r, m : Changed(m, r) \in lost => Changed(m, r) \in lost',
             \A p \in Processes : loop'[p].at = "patching" => loop'[p] = loop[p]
      PROVE ModesInv'
  BY <1>q DEF ModesInv, Changed
<1>1. ASSUME NEW u \in Users, NEW s \in RoomIds, NEW m \in Modes, CreateRoom(u, s, m)
      PROVE ModesInv'
  <2>1. \A p \in Processes : loop[p].at = "patching" => loop[p].room \in RoomIds \ {s}
    BY <1>1, TaskShape DEF CreateRoom, ModesInv, PatchTask
  <2>2. /\ \A r \in RoomIds \ {s} : /\ status'[r] = status[r] /\ mode'[r] = mode[r]
                                    /\ heardMode'[r] = heardMode[r]
        /\ heardMode'[s] = m /\ mode'[s] = m /\ UNCHANGED <<loop, outbox, lost>>
    BY <1>1 DEF CreateRoom, TypeOK
  <2>3. QED
    BY <2>1, <2>2 DEF ModesInv, Changed
<1>2. ASSUME NEW u \in Users, NEW s \in RoomIds, DeleteRoom(u, s)
      PROVE ModesInv'
  <2>1. \A p \in Processes : loop[p].at = "patching" => loop[p].room \in RoomIds
    BY TaskShape DEF PatchTask
  <2>2. \A r \in RoomIds : status'[r] = IF r = s THEN "deleted" ELSE status[r]
    BY <1>2 DEF DeleteRoom, TypeOK
  <2>3. UNCHANGED <<mode, heardMode, loop, outbox, lost>>
    BY <1>2 DEF DeleteRoom
  <2>4. QED
    BY <2>1, <2>2, <2>3 DEF ModesInv, Changed
<1>3. ASSUME NEW p \in Processes, NEW u \in Users, NEW r \in RoomIds, NEW m \in Modes,
             PatchRead(p, u, r, m)
      PROVE ModesInv'
  <2>1. loop'[p] = [at |-> "patching", room |-> r, mode |-> m, changed |-> mode[r] # m]
    BY <1>3 DEF PatchRead, TypeOK
  <2>2. status[r] = "live" /\ UNCHANGED <<status, mode, outbox, heardMode, lost>>
    BY <1>3 DEF PatchRead, IsMember, EmitNothing
  <2>3. loop'[p].room = r /\ loop'[p].mode = m /\ (~loop'[p].changed => mode[r] = m)
    <3>1. loop'[p].room = r /\ loop'[p].mode = m
      BY <2>1
    <3>2. ASSUME mode[r] # m PROVE loop'[p].changed
      <4>1. (mode[r] # m) = TRUE
        BY <3>2
      <4>2. loop'[p] = [at |-> "patching", room |-> r, mode |-> m, changed |-> TRUE]
        BY Zenon, <2>1, <4>1
      <4>3. QED
        BY <4>2
    <3>3. QED
      BY <3>1, <3>2
  <2>4. \A q \in Processes : loop'[q].room = r /\ loop'[q].mode = m /\ (~loop'[q].changed => mode[r] = m)
    BY <1>p, <2>3
  <2>5. QED
    BY <2>2, <2>4 DEF ModesInv, Changed
<1>4. ASSUME NEW p \in Processes, PatchCommit(p)
      PROVE ModesInv'
  <2> DEFINE t == loop[p]
  <2>1. t \in PatchTask /\ t.at = "patching"
    BY <1>4, TaskShape DEF PatchCommit
  <2>2. t.room \in RoomIds /\ t.mode \in Modes
    BY <2>1 DEF PatchTask
  <2>3. /\ UNCHANGED <<outbox, status>>
        /\ mode' = IF t.changed THEN [mode EXCEPT ![t.room] = t.mode] ELSE mode
    BY <1>4 DEF PatchCommit, Emit, Lose
  <2>4. \/ /\ heardMode' = [heardMode EXCEPT ![t.room] = t.mode]
           /\ lost' = lost \ {Changed(t.mode, t.room)}
        \/ UNCHANGED heardMode /\ lost' = lost \cup {Changed(t.mode, t.room)}
    BY <1>4 DEF PatchCommit, Emit, Deliver, Lose, Changed
  <2>5. loop'[p] = Idle
    BY <1>4 DEF PatchCommit, Release, TypeOK
  <2>6. \A q \in Processes : loop'[q].at # "patching"
    BY <1>p, <2>5 DEF Idle
  <2>7. status[t.room] = "live" => mode'[t.room] = t.mode
    BY <2>1, <2>2, <2>3 DEF ModesInv, TypeOK
  <2>8. ASSUME NEW r \in RoomIds, status[r] = "live"
        PROVE  heardMode'[r] = mode'[r] \/ Changed(mode'[r], r) \in lost'
    <3>1. CASE r = t.room
      BY <2>2, <2>4, <2>7, <2>8, <3>1 DEF TypeOK
    <3>2. CASE r # t.room
      <4>1. mode'[r] = mode[r] /\ heardMode'[r] = heardMode[r]
        BY <2>2, <2>3, <2>4, <3>2 DEF TypeOK
      <4>2. Changed(mode[r], r) # Changed(t.mode, t.room)
        BY <3>2 DEF Changed
      <4>3. Changed(mode[r], r) \in lost => Changed(mode[r], r) \in lost'
        BY <2>4, <4>2
      <4>4. heardMode[r] = mode[r] \/ Changed(mode[r], r) \in lost
        BY <2>8 DEF ModesInv
      <4>5. QED
        BY <4>1, <4>3, <4>4
    <3>3. QED
      BY <3>1, <3>2
  <2>9. QED
    BY <2>3, <2>6, <2>8 DEF ModesInv, Changed
<1>5. ASSUME NEW p \in Processes, JoinCommit(p)
      PROVE ModesInv'
  <2> DEFINE ev == [type |-> "member_joined", room |-> loop[p].room, user |-> loop[p].user]
  <2>1. UNCHANGED <<status, mode, outbox, heardMode>>
    BY <1>5 DEF JoinCommit, Emit, Deliver, Lose
  <2>2. lost' \in {lost \ {ev}, lost \cup {ev}}
    BY <1>5 DEF JoinCommit, Emit, Deliver, Lose
  <2>3. \A r, m : Changed(m, r) # ev
    BY DEF Changed
  <2> HIDE DEF ev
  <2>4. \A r, m : Changed(m, r) \in lost => Changed(m, r) \in lost'
    BY <2>2, <2>3
  <2>5. loop'[p] = Idle
    BY <1>5 DEF JoinCommit, Release, TypeOK
  <2>6. QED
    BY <1>p, <1>q, <2>1, <2>4, <2>5 DEF Idle
<1>6. ASSUME NEW p \in Processes, NEW u \in Users, NEW i \in InviteIds, JoinLookup(p, u, i)
      PROVE ModesInv'
  <2>1. loop'[p].at = "found"
    BY <1>6 DEF JoinLookup, TypeOK
  <2>2. QED
    BY <1>6, <1>p, <1>q, <2>1 DEF JoinLookup, EmitNothing
<1>7. ASSUME NEW p \in Processes, JoinAdmit(p)
      PROVE ModesInv'
  <2>1. loop[p] \in JoinTask
    BY <1>7, TaskShape DEF JoinAdmit
  <2>2. loop'[p].at = "admitted"
    BY <1>7, <2>1 DEF JoinAdmit, TypeOK, JoinTask
  <2>3. QED
    BY <1>7, <1>p, <1>q, <2>2 DEF JoinAdmit, EmitNothing
<1>8. ASSUME NEW p \in Processes,
             JoinTurnedAway(p) \/ JoinRollback(p) \/ PatchRollback(p) \/ Abort(p)
      PROVE ModesInv'
  <2>1. UNCHANGED <<status, mode, outbox, heardMode, lost>> /\ Release(p)
    BY <1>8 DEF JoinTurnedAway, JoinRollback, PatchRollback, Abort, EmitNothing
  <2>2. loop'[p] = Idle
    BY <2>1 DEF Release, TypeOK
  <2>3. QED
    BY <1>p, <1>q, <2>1, <2>2 DEF Idle
<1>9. ASSUME NEW ev \in Event, RedisPublish(ev)
      PROVE ModesInv'
  BY <1>9 DEF RedisPublish, ModesInv
<1>10. ASSUME UNCHANGED <<status, mode, outbox, heardMode, lost, loop>>
       PROVE ModesInv'
  BY <1>10, <1>q
<1>11. QED
  BY <1>1, <1>2, <1>3, <1>4, <1>5, <1>6, <1>7, <1>8, <1>9, <1>10
  DEF Next, ThreadStep, LoopStep, CreateInvite, InviteExpires, vars

\* In one process without Redis, as the API is deployed, the mode that a room
\* was told last is the mode it has, unless the process died before it said so.
THEOREM InProcessModesAgree ==
  ASSUME ~Redis
  PROVE  Spec => []ModeAgrees
<1>1. Init => ModesInv
  BY DEF Init, ModesInv, Idle
<1>2. ModesInv => ModeAgrees
  BY DEF ModesInv, ModeAgrees
<1>3. QED
  BY <1>1, <1>2, ModesStep, TypeCorrect, PTL DEF Spec

-----------------------------------------------------------------------------
(* RoomAccess                                                              *)

\* The instance counts with the same Cardinality.
LEMMA AccessCounts ==
  ASSUME NEW S
  PROVE  Access!Cardinality(S) = Cardinality(S)
BY DEF Access!Cardinality, Cardinality

LEMMA AccessInit == Init => Access!Init
<1> SUFFICES ASSUME Init PROVE Access!Init
  OBVIOUS
<1>1. \A i \in InviteIds : ~LiveInvite(i)
  BY DEF Init, LiveInvite, NoInvite
<1>2. {j \in InviteIds : LiveInvite(j)} = {}
  BY <1>1
<1>3. members \in [RoomIds -> SUBSET Users]
  BY UsersAssumption DEF Init
<1>4. \A r \in RoomIds \ {s \in RoomIds : status[s] = "live"} : members[r] = {}
  BY DEF Init
<1>5. [i \in {j \in InviteIds : LiveInvite(j)} |-> invite[i].room] = [i \in {} |-> 0]
  BY <1>2
<1>6. QED
  BY <1>1, <1>3, <1>4, <1>5 DEF Access!Init

\* A step that touches no row the abstract state is made of is a stutter.
LEMMA AccessQuiet ==
  ASSUME UNCHANGED <<status, members, invite>>
  PROVE  UNCHANGED Access!vars
BY DEF Access!vars, LiveInvite

LEMMA AccessStep ==
  RowsInv /\ TypeOK' /\ FreshReads /\ [Next]_vars => [Access!Next]_(Access!vars)
<1> SUFFICES ASSUME RowsInv, TypeOK', FreshReads, [Next]_vars
             PROVE [Access!Next]_(Access!vars)
  OBVIOUS
<1> DEFINE open == {r \in RoomIds : status[r] = "live"}
           live == {j \in InviteIds : LiveInvite(j)}
           door == [i \in live |-> invite[i].room]
           spent == [i \in InviteIds |-> IF LiveInvite(i) THEN invite[i].uses ELSE 0]
<1>t. TypeOK
  BY DEF RowsInv
<1>1. ASSUME NEW u \in Users, NEW r \in RoomIds, NEW m \in Modes, CreateRoom(u, r, m)
      PROVE Access!Open(r, u)
  <2>1. r \notin open /\ open' = open \cup {r}
    BY <1>1, <1>t DEF CreateRoom, TypeOK
  <2>2. UNCHANGED <<door, spent>>
    BY <1>1 DEF CreateRoom, LiveInvite
  <2>3. QED
    BY <1>1, <2>1, <2>2 DEF CreateRoom, Access!Open
<1>2. ASSUME NEW u \in Users, NEW r \in RoomIds, DeleteRoom(u, r)
      PROVE Access!Close(r)
  <2>1. r \in open /\ open' = open \ {r}
    BY <1>2, <1>t DEF DeleteRoom, IsMember, TypeOK
  <2>2. \A i \in InviteIds :
          /\ LiveInvite(i)' <=> LiveInvite(i) /\ invite[i].room # r
          /\ LiveInvite(i)' => invite'[i] = invite[i]
    BY <1>2 DEF DeleteRoom, LiveInvite, GoneInvite
  <2>3. live' = {j \in live : door[j] # r}
    BY <2>2
  <2>4. door' = [i \in {j \in DOMAIN door : door[j] # r} |-> door[i]]
    BY <2>2, <2>3
  <2>5. spent' = [i \in InviteIds |-> IF i \in DOMAIN door' THEN spent[i] ELSE 0]
    BY <2>2
  <2>6. QED
    BY <1>2, <2>1, <2>4, <2>5 DEF DeleteRoom, Access!Close
<1>3. ASSUME NEW u \in Users, NEW r \in RoomIds, NEW i \in InviteIds, CreateInvite(u, r, i)
      PROVE Access!Offer(r, i)
  <2>1. /\ invite[i] = NoInvite /\ ~LiveInvite(i)
        /\ invite'[i] = [state |-> "live", room |-> r, uses |-> 0, expired |-> FALSE]
        /\ \A j \in InviteIds \ {i} : invite'[j] = invite[j]
    BY <1>3, <1>t DEF CreateInvite, TypeOK, LiveInvite, NoInvite
  <2>2. LiveInvite(i)' /\ \A j \in InviteIds \ {i} : LiveInvite(j)' <=> LiveInvite(j)
    BY <2>1 DEF LiveInvite
  <2>3. live' = live \cup {i}
    BY <2>2
  <2>4. door' = [j \in DOMAIN door \cup {i} |-> IF j = i THEN r ELSE door[j]]
    BY <2>1, <2>3
  <2>5. spent' = spent
    BY <2>1, <2>2
  <2>6. QED
    BY <1>3, <2>1, <2>4, <2>5 DEF CreateInvite, IsMember, Access!Offer
<1>4. ASSUME NEW i \in InviteIds, InviteExpires(i)
      PROVE UNCHANGED Access!vars
  <2>1. invite[i] \in InviteRow /\ LiveInvite(i)
    BY <1>4, LiveInviteRow DEF InviteExpires, RowsInv
  <2>2. \A j \in InviteIds :
          /\ LiveInvite(j)' <=> LiveInvite(j)
          /\ LiveInvite(j) => invite'[j].room = invite[j].room /\ invite'[j].uses = invite[j].uses
    BY <1>4, <1>t, <2>1 DEF InviteExpires, LiveInvite, TypeOK, InviteRow
  <2>3. live' = live
    BY <2>2
  <2>4. door' = door /\ spent' = spent
    BY <2>2, <2>3
  <2>5. QED
    BY <1>4, <2>4 DEF InviteExpires, Access!vars
<1>5. ASSUME NEW p \in Processes, JoinCommit(p),
             NEW u \in Users, NEW i \in InviteIds, u = loop[p].user, i = loop[p].invite
      PROVE Access!Admit(u, i)
  <2> DEFINE t == loop[p]
  <2>1. /\ t.room \in RoomIds /\ t.invite \in InviteIds /\ t.uses \in Nat /\ t.uses < MaxUses
        /\ LiveInvite(t.invite) /\ invite[t.invite] \in InviteRow
        /\ invite[t.invite].room = t.room /\ invite[t.invite].uses = t.uses
        /\ t.user \notin members[t.room]
        /\ Cardinality(members[t.room]) < MaxMembers
    BY <1>5, CommitFacts
  <2>2. /\ invite' = [invite EXCEPT ![t.invite].uses = t.uses + 1]
        /\ members' = [members EXCEPT ![t.room] = @ \cup {t.user}]
        /\ status' = status
    BY <1>5 DEF JoinCommit
  <2>3. /\ invite'[t.invite].state = "live"
        /\ invite'[t.invite].room = t.room
        /\ invite'[t.invite].uses = t.uses + 1
    BY <1>t, <2>1, <2>2 DEF TypeOK, InviteRow, LiveInvite
  <2>4. \A j \in InviteIds \ {t.invite} : invite'[j] = invite[j]
    BY <2>2, <1>t DEF TypeOK
  <2>5. live' = live
    BY <2>1, <2>3, <2>4 DEF LiveInvite
  <2>6. door' = door
    BY <2>1, <2>3, <2>4, <2>5
  <2>7. spent' = [spent EXCEPT ![t.invite] = @ + 1]
    BY <2>1, <2>3, <2>4 DEF LiveInvite
  <2>8. t.invite \in DOMAIN door /\ door[t.invite] = t.room /\ spent[t.invite] = t.uses
    BY <2>1
  <2>9. QED
    BY <1>5, <2>1, <2>2, <2>6, <2>7, <2>8, AccessCounts DEF Access!Admit
<1>6. ASSUME NEW p \in Processes,
             \/ \E u \in Users, i \in InviteIds : JoinLookup(p, u, i)
             \/ JoinAdmit(p) \/ JoinTurnedAway(p) \/ JoinRollback(p) \/ Abort(p)
             \/ \E u \in Users, r \in RoomIds, m \in Modes : PatchRead(p, u, r, m)
             \/ PatchCommit(p) \/ PatchRollback(p)
      PROVE UNCHANGED Access!vars
  BY <1>6, AccessQuiet DEF JoinLookup, JoinAdmit, JoinTurnedAway, JoinRollback, Abort,
                           PatchRead, PatchCommit, PatchRollback
<1>7. ASSUME NEW ev \in Event, RedisPublish(ev)
      PROVE UNCHANGED Access!vars
  BY <1>7, AccessQuiet DEF RedisPublish
<1>8. CASE UNCHANGED vars
  BY <1>8, AccessQuiet DEF vars
<1>9. ASSUME NEW p \in Processes, JoinCommit(p)
      PROVE Access!Next
  <2>1. loop[p].user \in Users /\ loop[p].invite \in InviteIds
    BY <1>9, CommitFacts
  <2>2. QED
    BY <1>5, <1>9, <2>1 DEF Access!Next
<1>10. QED
  BY <1>1, <1>2, <1>3, <1>4, <1>6, <1>7, <1>8, <1>9
  DEF Next, ThreadStep, LoopStep, Access!Next

\* In one process the API implements the atomic specification of who is in a
\* room: every step is a step of RoomAccess or changes nothing it can see.
THEOREM OneProcessIsAtomic ==
  ASSUME Cardinality(Processes) = 1
  PROVE  Spec => AccessSpec
BY AccessInit, AccessStep, FreshInvariant, TypeCorrect, PTL
DEF Spec, AccessSpec, Access!Spec
=============================================================================
