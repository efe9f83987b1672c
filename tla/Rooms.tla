------------------------------- MODULE Rooms -------------------------------
(***************************************************************************)
(* Rooms, their members and their invites, as apps/api serves them         *)
(* (api/rooms.py, realtime.py, db/001_init.sql).                           *)
(*                                                                         *)
(* Two kinds of handler run at once.  A plain `def` handler (create_room,  *)
(* delete_room, create_invite) runs in a threadpool: it commits between    *)
(* any two steps of anything else.  An `async def` handler (join_room,     *)
(* update_room) runs on its process's event loop and does not let go of it *)
(* before its commit, so `loop` holds at most one of them per process,     *)
(* with what it has read so far.  Every request is one READ COMMITTED      *)
(* transaction; nothing it writes is visible before its commit.            *)
(***************************************************************************)
EXTENDS Naturals, FiniteSets

CONSTANTS
  Processes,    \* API processes; each has one event loop
  Redis,        \* TRUE: RedisBroadcaster; FALSE: InProcessBroadcaster
  Users,
  Demo,         \* users with is_demo set: the seeded personas
  RoomIds,
  DemoRoom,     \* the room scripts/seed.py creates, or None
  InviteIds,
  Modes,
  MaxMembers,   \* MAX_MEMBERS
  MaxUses,      \* room_invites.max_uses
  MaxInFlight,  \* bound: publishes of one event that await Redis at once
  MaxLost,      \* bound: events lost
  None

ASSUME ProcessesAssumption == IsFiniteSet(Processes) /\ Processes # {}
ASSUME UsersAssumption == IsFiniteSet(Users) /\ Demo \subseteq Users
ASSUME DemoRoomAssumption == DemoRoom \in RoomIds => Demo # {}
ASSUME LimitsAssumption ==
  /\ MaxMembers \in Nat \ {0}
  /\ Cardinality(Demo) <= MaxMembers
  /\ MaxUses \in Nat \ {0}
  /\ MaxInFlight \in Nat \ {0} /\ MaxLost \in Nat
ASSUME RedisAssumption == Redis \in BOOLEAN /\ (~Redis => Cardinality(Processes) = 1)

VARIABLES
  status,     \* rooms: a room id is unused, live, or deleted (ids are never reused)
  owner,      \* rooms.owner_id
  mode,       \* rooms.mode
  members,    \* room_members
  invite,     \* room_invites
  joined,     \* history: who joined by each invite
  loop,       \* what each event loop is running, and what it has read
  outbox,     \* publishes a handler has begun and Redis has not yet taken
  heardMode,  \* the mode the last mode_changed event named, or the room began with
  heardJoins, \* the users whose member_joined event has been published
  lost        \* history: events that were committed and then never published

vars == <<status, owner, mode, members, invite, joined, loop, outbox,
          heardMode, heardJoins, lost>>

JoinedEvent == [type : {"member_joined"}, room : RoomIds, user : Users]
ModeEvent   == [type : {"mode_changed"}, room : RoomIds, mode : Modes]
Event       == JoinedEvent \cup ModeEvent

Idle == [at |-> "idle"]

\* What a handler on the event loop holds: join_room after the invite checks
\* ("found") and after the membership and capacity checks ("admitted"), and
\* update_room after it has read the room ("patching").
Task ==
  {Idle}
  \cup [at : {"found", "admitted"}, user : Users, room : RoomIds,
        invite : InviteIds, uses : 0..(MaxUses - 1)]
  \cup [at : {"patching"}, room : RoomIds, mode : Modes, changed : BOOLEAN]

NoInvite == [state |-> "unused"]
GoneInvite == [state |-> "deleted"]
InviteRow == [state : {"live"}, room : RoomIds, uses : 0..MaxUses, expired : BOOLEAN]

TypeOK ==
  /\ status \in [RoomIds -> {"unused", "live", "deleted"}]
  /\ owner \in [RoomIds -> Users \cup {None}]
  /\ mode \in [RoomIds -> Modes]
  /\ members \in [RoomIds -> SUBSET Users]
  /\ invite \in [InviteIds -> InviteRow \cup {NoInvite, GoneInvite}]
  /\ joined \in [InviteIds -> SUBSET Users]
  /\ loop \in [Processes -> Task]
  /\ outbox \in [Event -> 0..MaxInFlight]
  /\ heardMode \in [RoomIds -> Modes]
  /\ heardJoins \in [RoomIds -> SUBSET Users]
  /\ lost \subseteq Event

\* The database scripts/seed.py leaves behind: the demo room, owned by one of
\* the personas and holding all of them, or nothing at all.
Init ==
  /\ status = [r \in RoomIds |-> IF r = DemoRoom THEN "live" ELSE "unused"]
  /\ \E persona \in IF DemoRoom \in RoomIds THEN Demo ELSE {None} :
       owner = [r \in RoomIds |-> IF r = DemoRoom THEN persona ELSE None]
  /\ \E m \in Modes : mode = [r \in RoomIds |-> m]
  /\ members = [r \in RoomIds |-> IF r = DemoRoom THEN Demo ELSE {}]
  /\ invite = [i \in InviteIds |-> NoInvite]
  /\ joined = [i \in InviteIds |-> {}]
  /\ loop = [p \in Processes |-> Idle]
  /\ outbox = [ev \in Event |-> 0]
  /\ heardMode = mode
  /\ heardJoins = [r \in RoomIds |-> {}]
  /\ lost = {}

-----------------------------------------------------------------------------
(* Helpers                                                                 *)

IsMember(u, r) == status[r] = "live" /\ u \in members[r]

LiveInvite(i) == invite[i].state = "live"

\* Mutant: the demo accounts may write.
AnyoneMayWrite(u) == u \in Users

\* deps.writable_user
Writable(u) == u \notin Demo

\* What the sockets of a room are told, once the broadcaster has the event.
Deliver(ev) ==
  /\ heardMode' = IF ev.type = "mode_changed"
                  THEN [heardMode EXCEPT ![ev.room] = ev.mode] ELSE heardMode
  /\ heardJoins' = IF ev.type = "member_joined"
                   THEN [heardJoins EXCEPT ![ev.room] = @ \cup {ev.user}] ELSE heardJoins
  /\ lost' = lost \ {ev}

Lose(ev) ==
  /\ lost' = lost \cup {ev}
  /\ Cardinality(lost') <= MaxLost
  /\ UNCHANGED <<heardMode, heardJoins>>

\* In one process publish() never suspends: the event is out in the step that
\* commits.  With Redis it awaits the server, and the loop runs other handlers.
\* A process that dies right after the commit publishes nothing.
Emit(ev) ==
  \/ /\ ~Redis
     /\ Deliver(ev)
     /\ UNCHANGED outbox
  \/ /\ Redis /\ outbox[ev] < MaxInFlight
     /\ outbox' = [outbox EXCEPT ![ev] = @ + 1]
     /\ UNCHANGED <<heardMode, heardJoins, lost>>
  \/ Lose(ev) /\ UNCHANGED outbox

EmitNothing == UNCHANGED <<outbox, heardMode, heardJoins, lost>>

Release(p) == loop' = [loop EXCEPT ![p] = Idle]

-----------------------------------------------------------------------------
(* Threadpool handlers: the reads they check cannot be undone by anything  *)
(* but a delete, which makes the commit fail, so each is its commit.       *)

\* Mutant: the owner's room_members row is forgotten.
CreateRoomUnjoined(u, r, m) ==
  /\ Writable(u)
  /\ status[r] = "unused"
  /\ status' = [status EXCEPT ![r] = "live"]
  /\ owner' = [owner EXCEPT ![r] = u]
  /\ mode' = [mode EXCEPT ![r] = m]
  /\ heardMode' = [heardMode EXCEPT ![r] = m]
  /\ UNCHANGED <<members, invite, joined, loop, outbox, heardJoins, lost>>

CreateRoom(u, r, m) ==
  /\ Writable(u)
  /\ status[r] = "unused"
  /\ status' = [status EXCEPT ![r] = "live"]
  /\ owner' = [owner EXCEPT ![r] = u]
  /\ mode' = [mode EXCEPT ![r] = m]
  /\ members' = [members EXCEPT ![r] = {u}]
  /\ heardMode' = [heardMode EXCEPT ![r] = m]
  /\ UNCHANGED <<invite, joined, loop, outbox, heardJoins, lost>>

\* room_members and room_invites follow the room by ON DELETE CASCADE.
DeleteRoom(u, r) ==
  /\ Writable(u)
  /\ IsMember(u, r)
  /\ owner[r] = u
  /\ status' = [status EXCEPT ![r] = "deleted"]
  /\ members' = [members EXCEPT ![r] = {}]
  /\ invite' = [i \in InviteIds |->
                  IF LiveInvite(i) /\ invite[i].room = r THEN GoneInvite ELSE invite[i]]
  /\ UNCHANGED <<owner, mode, joined, loop, outbox, heardMode, heardJoins, lost>>

CreateInvite(u, r, i) ==
  /\ Writable(u)
  /\ IsMember(u, r)
  /\ invite[i] = NoInvite
  /\ invite' = [invite EXCEPT ![i] =
                  [state |-> "live", room |-> r, uses |-> 0, expired |-> FALSE]]
  /\ UNCHANGED <<status, owner, mode, members, joined, loop, outbox, heardMode, heardJoins, lost>>

\* expires_at passes.
InviteExpires(i) ==
  /\ LiveInvite(i)
  /\ ~invite[i].expired
  /\ invite' = [invite EXCEPT ![i].expired = TRUE]
  /\ UNCHANGED <<status, owner, mode, members, joined, loop, outbox, heardMode, heardJoins, lost>>

-----------------------------------------------------------------------------
(* join_room                                                               *)

\* Mutant: max_uses is not checked.
JoinLookupUnlimited(p, u, i) ==
  /\ loop[p] = Idle
  /\ Writable(u)
  /\ LiveInvite(i)
  /\ ~invite[i].expired
  /\ loop' = [loop EXCEPT ![p] = [at |-> "found", user |-> u, room |-> invite[i].room,
                                  invite |-> i, uses |-> invite[i].uses]]
  /\ EmitNothing
  /\ UNCHANGED <<status, owner, mode, members, invite, joined>>

\* SELECT ... FROM room_invites WHERE token_hash: unknown, expired and used-up
\* invites are refused here, with nothing written.
JoinLookup(p, u, i) ==
  /\ loop[p] = Idle
  /\ Writable(u)
  /\ LiveInvite(i)
  /\ ~invite[i].expired
  /\ invite[i].uses < MaxUses
  /\ loop' = [loop EXCEPT ![p] = [at |-> "found", user |-> u, room |-> invite[i].room,
                                  invite |-> i, uses |-> invite[i].uses]]
  /\ EmitNothing
  /\ UNCHANGED <<status, owner, mode, members, invite, joined>>

\* Mutant: the limit is off by one.
HasRoomForOneMore(t) == Cardinality(members[t.room]) <= MaxMembers

HasRoomFor(t) == Cardinality(members[t.room]) < MaxMembers

\* Mutant: the event is sent before the commit.
JoinAdmitAnnounced(p) ==
  LET t == loop[p] IN
  /\ t.at = "found"
  /\ status[t.room] = "live"
  /\ t.user \notin members[t.room]
  /\ HasRoomFor(t)
  /\ loop' = [loop EXCEPT ![p].at = "admitted"]
  /\ Emit([type |-> "member_joined", room |-> t.room, user |-> t.user])
  /\ UNCHANGED <<status, owner, mode, members, invite, joined>>

JoinAdmit(p) ==
  LET t == loop[p] IN
  /\ t.at = "found"
  /\ status[t.room] = "live"
  /\ t.user \notin members[t.room]
  /\ HasRoomFor(t)
  /\ loop' = [loop EXCEPT ![p].at = "admitted"]
  /\ EmitNothing
  /\ UNCHANGED <<status, owner, mode, members, invite, joined>>

\* Mutant: opening the link again spends a use.
JoinTurnedAwayCharged(p) ==
  LET t == loop[p] IN
  /\ t.at = "found"
  /\ status[t.room] = "live" /\ t.user \in members[t.room]
  /\ invite' = [invite EXCEPT ![t.invite].uses = t.uses + 1]
  /\ Release(p)
  /\ EmitNothing
  /\ UNCHANGED <<status, owner, mode, members, joined>>

\* 404 room not found, 200 already a member, or 409 room full.
JoinTurnedAway(p) ==
  LET t == loop[p] IN
  /\ t.at = "found"
  /\ \/ status[t.room] # "live"
     \/ t.user \in members[t.room]
     \/ ~HasRoomFor(t)
  /\ Release(p)
  /\ EmitNothing
  /\ UNCHANGED <<status, owner, mode, members, invite, joined>>

\* Mutant: room_members has no foreign key on rooms.
RowAcceptedAnywhere(t) == t.user \notin members[t.room]

\* Mutant: room_members has no primary key.
RowAcceptedTwice(t) == status[t.room] = "live"

\* The room exists (foreign key) and the user is not in it (primary key).
RowAccepted(t) == status[t.room] = "live" /\ t.user \notin members[t.room]

\* `invite.uses += 1` writes the value read plus one.
JoinCommit(p) ==
  LET t == loop[p] IN
  /\ t.at = "admitted"
  /\ RowAccepted(t)
  /\ members' = [members EXCEPT ![t.room] = @ \cup {t.user}]
  /\ invite' = [invite EXCEPT ![t.invite].uses = t.uses + 1]
  /\ joined' = [joined EXCEPT ![t.invite] = @ \cup {t.user}]
  /\ Release(p)
  /\ Emit([type |-> "member_joined", room |-> t.room, user |-> t.user])
  /\ UNCHANGED <<status, owner, mode>>

\* The flush violates a constraint: IntegrityError, a 500, and a rollback.
JoinRollback(p) ==
  LET t == loop[p] IN
  /\ t.at = "admitted"
  /\ ~RowAccepted(t)
  /\ Release(p)
  /\ EmitNothing
  /\ UNCHANGED <<status, owner, mode, members, invite, joined>>

-----------------------------------------------------------------------------
(* update_room                                                             *)

\* Assigning the value just read leaves the row clean: no UPDATE is emitted.
PatchRead(p, u, r, m) ==
  /\ loop[p] = Idle
  /\ IsMember(u, r)
  /\ loop' = [loop EXCEPT ![p] = [at |-> "patching", room |-> r, mode |-> m,
                                  changed |-> mode[r] # m]]
  /\ EmitNothing
  /\ UNCHANGED <<status, owner, mode, members, invite, joined>>

\* Mutant: the new mode is stored and not broadcast.
PatchCommitSilent(p) ==
  LET t == loop[p] IN
  /\ t.at = "patching"
  /\ t.changed => status[t.room] = "live"
  /\ mode' = IF t.changed THEN [mode EXCEPT ![t.room] = t.mode] ELSE mode
  /\ Release(p)
  /\ EmitNothing
  /\ UNCHANGED <<status, owner, members, invite, joined>>

PatchCommit(p) ==
  LET t == loop[p] IN
  /\ t.at = "patching"
  /\ t.changed => status[t.room] = "live"
  /\ mode' = IF t.changed THEN [mode EXCEPT ![t.room] = t.mode] ELSE mode
  /\ Release(p)
  /\ Emit([type |-> "mode_changed", room |-> t.room, mode |-> t.mode])
  /\ UNCHANGED <<status, owner, members, invite, joined>>

\* The UPDATE matches no row: StaleDataError, a 500, and a rollback.
PatchRollback(p) ==
  LET t == loop[p] IN
  /\ t.at = "patching"
  /\ t.changed
  /\ status[t.room] # "live"
  /\ Release(p)
  /\ EmitNothing
  /\ UNCHANGED <<status, owner, mode, members, invite, joined>>

-----------------------------------------------------------------------------

\* The process dies, or its connection does, before the commit.
Abort(p) ==
  /\ loop[p] # Idle
  /\ Release(p)
  /\ EmitNothing
  /\ UNCHANGED <<status, owner, mode, members, invite, joined>>

\* Redis takes a publish; those in flight at once arrive in any order.  Or the
\* publish raises, or its process dies: the event is lost, and the request ends
\* in a 500 with everything committed.
RedisPublish(ev) ==
  /\ outbox[ev] > 0
  /\ outbox' = [outbox EXCEPT ![ev] = @ - 1]
  /\ Deliver(ev) \/ Lose(ev)
  /\ UNCHANGED <<status, owner, mode, members, invite, joined, loop>>

ThreadStep ==
  \/ \E u \in Users, r \in RoomIds, m \in Modes : CreateRoom(u, r, m)
  \/ \E u \in Users, r \in RoomIds : DeleteRoom(u, r)
  \/ \E u \in Users, r \in RoomIds, i \in InviteIds : CreateInvite(u, r, i)

LoopStep(p) ==
  \/ \E u \in Users, i \in InviteIds : JoinLookup(p, u, i)
  \/ JoinAdmit(p)
  \/ JoinTurnedAway(p)
  \/ JoinCommit(p)
  \/ JoinRollback(p)
  \/ \E u \in Users, r \in RoomIds, m \in Modes : PatchRead(p, u, r, m)
  \/ PatchCommit(p)
  \/ PatchRollback(p)
  \/ Abort(p)

Next ==
  \/ ThreadStep
  \/ \E p \in Processes : LoopStep(p)
  \/ \E i \in InviteIds : InviteExpires(i)
  \/ \E ev \in Event : RedisPublish(ev)

Spec == Init /\ [][Next]_vars

-----------------------------------------------------------------------------
(* Properties                                                              *)

\* A room holds at most MAX_MEMBERS people, the promise of join_room's 409.
\* The count is read in one statement and the row inserted in a later one.
RoomNeverOverfull == \A r \in RoomIds : Cardinality(members[r]) <= MaxMembers

\* With any number of processes, the rows read by joins still uncommitted let
\* a room overflow by at most one person per other process.
OverflowBounded ==
  \A r \in RoomIds : Cardinality(members[r]) + 1 <= MaxMembers + Cardinality(Processes)

\* join_room: "Only a join that actually added someone spends a use", and each
\* one does: invite.uses is the number of people the invite let in.
UsesCountJoins ==
  \A i \in InviteIds : LiveInvite(i) => invite[i].uses = Cardinality(joined[i])

\* With any number of processes an invite is never charged for a join that did
\* not happen, however many increments overwrite each other.
UsesNeverOvercounted ==
  \A i \in InviteIds : LiveInvite(i) => invite[i].uses <= Cardinality(joined[i])

InvitesTo(r) == {i \in InviteIds : LiveInvite(i) /\ invite[i].room = r}

\* Everyone in a room is its owner or came in by exactly one of its invites:
\* no path through join_room adds a member without spending an invite on them,
\* or spends two.
EveryoneCameInOnce ==
  \A r \in RoomIds \ {DemoRoom} : status[r] = "live" =>
    /\ members[r] = {owner[r]} \cup UNION {joined[i] : i \in InvitesTo(r)}
    /\ \A i, j \in InvitesTo(r) :
         /\ owner[r] \notin joined[i]
         /\ i # j => joined[i] \cap joined[j] = {}

\* delete_room leaves nothing behind, even for a join that read the room before
\* the delete and commits after it.
NothingOutlivesItsRoom ==
  \A r \in RoomIds : status[r] # "live" => members[r] = {} /\ InvitesTo(r) = {}

Joined(u, r) == [type |-> "member_joined", room |-> r, user |-> u]
Changed(m, r) == [type |-> "mode_changed", room |-> r, mode |-> m]
Unsent(r) == {ev \in Event : ev.room = r /\ outbox[ev] > 0}

\* update_room: "Broadcast so everyone in the room sees the mode change".  Once
\* every event of a room is out, the last mode announced is the mode stored,
\* unless the event that announced that one was lost.
ModeAgrees ==
  \A r \in RoomIds : status[r] = "live" /\ Unsent(r) = {} =>
    heardMode[r] = mode[r] \/ Changed(mode[r], r) \in lost

\* join_room: no join is announced that was not committed, and every committed
\* one has been announced or waits for Redis, unless Redis refused its event or
\* the process died with it.
JoinsAnnounced ==
  \A r \in RoomIds \ {DemoRoom} : status[r] = "live" =>
    /\ heardJoins[r] \subseteq members[r] \ {owner[r]}
    /\ \A u \in members[r] \ ({owner[r]} \cup heardJoins[r]) :
         outbox[Joined(u, r)] > 0 \/ Joined(u, r) \in lost

\* deps.writable_user: the shared demo logins cannot spoil the seeded room for
\* the next visitor.  Nobody is ever let in, and it is never deleted.
DemoRoomSealed ==
  DemoRoom \in RoomIds => status[DemoRoom] = "live" /\ members[DemoRoom] = Demo

\* In one process the interleaved handlers are as good as atomic: every step is
\* a step of RoomAccess, in which capacity and invite budget are judged on the
\* rows as they are when the join takes effect.
Access == INSTANCE RoomAccess WITH
  Capacity <- MaxMembers,
  Budget <- MaxUses,
  open <- {r \in RoomIds : status[r] = "live"},
  people <- members,
  door <- [i \in {j \in InviteIds : LiveInvite(j)} |-> invite[i].room],
  spent <- [i \in InviteIds |-> IF LiveInvite(i) THEN invite[i].uses ELSE 0]

AccessSpec == Access!Spec
=============================================================================
