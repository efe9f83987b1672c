# CommonGround in TLA+

Specifications of CommonGround, the group music recommender: what its API, its
sockets, its web client, its playlist generator and the scripts that fill its
catalogue do when requests, sockets, tabs, processes and runs of scripts get in
each other's way. The modules are translated from the source. TLC checks them on
small instances, and TLAPS proves the central properties for every instance.

1. [The system](#1-the-system)
2. [How the code runs](#2-how-the-code-runs)
3. [The modules](#3-the-modules)
4. [The runs](#4-the-runs)
5. [The theorems](#5-the-theorems)
6. [Findings](#6-findings)
7. [What is not modelled](#7-what-is-not-modelled)
8. [Plan](#8-plan)

File names are shortened: `rooms.py` is
`apps/api/commonground_api/api/rooms.py`, `group.py` is
`packages/engine/commonground_engine/group.py`, and so on.

## 1. The system

| Component | State it keeps | Operations | Talks to | What makes it correct |
|---|---|---|---|---|
| Rooms, members, invites (`rooms.py`, `db/001_init.sql`) | `rooms`, `room_members`, `room_invites` | create, update (mode), delete a room; create an invite; join by one | publishes `member_joined`, `mode_changed` | the member limit, exact invite accounting, nothing left of a deleted room, every join announced, the demo room untouched |
| Playlists and votes (`rooms.py`) | `playlists`, `playlist_tracks`, `votes` | generate, latest, history, cast a vote | calls the generator, publishes `playlist_generated`, `vote` | the latest list is the one announced; totals agree with the votes |
| Playlist generation (`services/recommender.py`, `group.py`) | nothing between requests but the fitted snapshot | `generate`: pool, ranks, veto, slots, relaxation | reads the snapshot | a full list, a hard veto no looser than needed, nothing already heard |
| Explanations (`explain.py`) | none | `group_facts`, `explain`: clauses from a slot's terms | generator | a clause names a term that counted, and the member it counted for |
| Event fan-out (`realtime.py`) | `_rooms` (queues of this process), `_tasks` (one Redis pump per room) | publish, subscribe, unsubscribe | the rooms API on one side, the sockets on the other | one pump exactly while there are queues, no event lost but by overflow, a broken relay or a publish that raised |
| Room sockets (`rooms.py:521-587`, `web/src/api.ts:294-339`) | a queue and a sender task per socket; the page's socket and its backoff | accept, pump, disconnect; connect, receive, retry, leave | fan-out | events in order, none twice, reconnection, no queue left behind |
| The room page (`RoomView.tsx`) | the page's copy of room, playlist and votes | refetch on events, optimistic votes | REST and the socket | the copy agrees with the database once nothing is under way |
| Accounts and tokens (`auth.py`, `security.py`, `api.ts`, `auth.tsx`) | `users`, `refresh_tokens`; the pair in `localStorage`; the refresh in flight | sign up, log in, refresh (rotation), log out | every request | a spent token stays spent; a tab is refused for a cause; who a tab shows is who it holds the pair of |
| Taste profiles and imports (`profiles.py`, `imports.py`) | `profile_artists`, `profile_tags` with a source, `listens`, `imports` | onboarding, import | generator | what is stated is what the last save stated; a play is counted once |
| Import formats (`imports/parsers.py`, `matching.py`) | none | detect a format; parse Spotify, ListenBrainz, Last.fm | imports | the same play is the same listen, to the minute where the format has no seconds |
| Catalogue and seed scripts (`scripts/`) | the dataset files and the tag cache on disk; `recordings`, `recording_artists`, `artist_tags`, `recording_tags` | crawl, build a dataset, enrich, import, reset, seed listeners | write what the API's snapshot is fitted from | recordings have artists and their tags; a stored playlist keeps its tracks |
| Rate limiting (`ratelimit.py`) | a deque per bucket, or a Redis counter | check, sweep | every write | at most the limit in a window |
| Fitted models, migrations, offline evaluation, start-up, other pages | – | – | – | see [section 7](#7-what-is-not-modelled) |

A request reaches a handler in `rooms.py`, which writes in one transaction,
commits, and only then publishes an event. The broadcaster puts the event on the
queue of every socket of that room, directly or through Redis. A sender task per
socket writes it to the wire. The page uses it as a hint to fetch over REST.

The hard behaviours are of six kinds: handlers that interleave between a read
and a commit; events and answers that overtake each other; sockets that die at
either end without the other noticing; tokens that expire or are spent twice;
values kept past their time (the snapshot, the socket's URL, the value a failed
vote rolls back to); and scripts that stop half-way or rebuild the catalogue under
a running API. `PROJECT.json` lists each at its line under "hazards", with the
properties that cover it, or a note why none does.

## 2. How the code runs

The models rest on these facts about the deployment.

- **One event loop per process.** An `async def` handler (`join_room`,
  `update_room`, `generate_playlist`, `cast_vote`, `room_socket`) does its
  database work with the synchronous driver, so it holds the loop until its next
  real `await`. Nothing of the same process comes between the reads and the
  commit of `join_room`.
- **A threadpool beside it.** A plain `def` handler (`create_room`,
  `delete_room`, `create_invite`) runs in a thread and can commit between any two
  steps of anything else.
- **One transaction per request**, READ COMMITTED: each statement sees what is
  committed when it runs, and primary and foreign keys are enforced at the flush
  (`db.py:39-50`).
- **The in-process broadcaster never suspends**: its lock is never held across an
  await, so the event is on every queue in the step that commits. The Redis one
  awaits the server, and other handlers run meanwhile.
- **Refresh, log-out, onboarding and the GETs run in the threadpool**: two
  refreshes of one token, or two onboarding requests, interleave statement by
  statement. `upload_import` is `async` and its database work does not pause, but
  it waits for rows that a transaction in the pool has locked.
- **The browser** runs one tab's JavaScript in steps between awaits; tabs share
  `localStorage` and nothing else.
- **The scripts** run one at a time, each writing in one transaction, and can be
  stopped before it commits.
- **Several processes only with Redis.** `render.yaml` deploys one, without it;
  `docker compose` has Redis, and `realtime.py:8-9` calls several processes
  supported.

## 3. The modules

| Module | Stands for |
|---|---|
| `RoomAccess` | abstract: who is in which room, by atomic operations |
| `Rooms` | the rooms handlers, their transactions and events; implements `RoomAccess` in one process |
| `RoomFeed` | abstract: a lossy, ordered, at-most-once feed of events |
| `Sockets` | broadcaster, socket handlers, network and the page's reconnecting socket; implements `RoomFeed` |
| `RoomPage` | playlists and votes on the server, and one page's copy of them: requests, events and answers in flight |
| `Sessions` | refresh tokens on the server, the pair and the refresh in flight in several tabs |
| `Exports` | what `detect_format` and the three parsers make of a file (no state) |
| `Taste` | onboarding saves and uploads of one user; extends `Exports` |
| `Generate` | one playlist, and the same room asking again |
| `Explain` | the reason given with each track; extends `Generate`, no state of its own |
| `Dataset` | what the dataset, tag and seed scripts compute (no state) |
| `Library` | abstract: a catalogue that only grows, with the playlists stored from it, until all of it is replaced at one moment |
| `Catalogue` | the scripts' files and transactions against the API's snapshot and playlists; extends `Dataset`, implements `Library` |
| `MC*` | instances for TLC |
| `RoomsProofs`, `SocketsProofs`, `GenerateProofs`, `SessionsProofs`, `RoomPageProofs`, `TasteProofs`, `CatalogueProofs`, `ExplainProofs` | the theorems |

`PROJECT.json` ("map") gives the source lines of every definition.

### Rooms

| State | In the code |
|---|---|
| `status`, `owner`, `mode` | rows of `rooms`; ids are never used twice |
| `members`, `invite` | rows of `room_members`, `room_invites` |
| `loop[p]` | what process `p`'s event loop is running: `join_room` after the invite lookup (`found`) or after the count (`admitted`), or `update_room` after its read (`patching`), with the values read |
| `outbox` | publishes begun whose Redis call has not been taken |
| `joined`, `heardMode`, `heardJoins` | history: who came by which invite, and what the published events have said |
| `lost` | history: events whose change was committed and that were never published |

The threadpool handlers are one action each (`CreateRoom`, `DeleteRoom`,
`CreateInvite`): the only thing that can undo what they read is a delete, and
then their own write fails. `join_room` is `JoinLookup`, `JoinAdmit` and
`JoinCommit` or `JoinRollback`, with `JoinTurnedAway` for its early returns; the
committed value of `uses` is the value *read* plus one. `update_room` is
`PatchRead` and `PatchCommit` or `PatchRollback`: an unchanged mode writes no row
but is still announced. `Abort` is a process or connection that dies before the
commit. `Emit` has three outcomes: the event is out (in-process), waits for Redis,
or is lost because the process dies between the commit and the publish. A publish
that waits ends in `RedisPublish`: Redis takes it, or the call raises or its process
dies (`Lose`), and the request that had committed is answered with a 500.
A handler that would exceed `MaxInFlight` copies of one publish waits.

`RoomAccess` has no handlers at all: admission is judged on the rows as they are
when the joiner takes their place. The refinement maps `open` to the live rooms,
`people` to `members`, `door` to the live invites and `spent` to their `uses`.
It holds for one process and fails for two, which is the point of stating it.

### Sockets

One room, one page. The page has at most one socket at a time, but up to `Conns`
handlers run on the server, because the server may not have noticed that earlier
sockets are gone. Events are numbered as they are published.

| State | In the code |
|---|---|
| `transport` | what `get_broadcaster` chose |
| `relay`, `relayed` | the room's `_pump` task, and what Redis has sent it |
| `stage`, `sender`, `queue` | per handler: before or after the `connected` frame, the `pump` task, the `asyncio.Queue` |
| `leaked` | queues left in `_rooms` with no handler; the handler's variables are gone, so they are only counted |
| `link`, `wire` | the connection as the server sees it, and frames on their way |
| `sock`, `conn`, `shown`, `fresh` | the page's `WebSocket`, which handler it talks to, the events handled, and whether the token in the URL is still good |
| `base`, `lossy`, `failed` | history: where the open socket's events start, whether anything has been lost to an overflow or a dead relay, and sends that raised |

What can go wrong is a step of its own: `Cut` (the link dies unnoticed and takes
its frames along), `ServerNotices`, `PageNotices`, `AttemptFails`, `RelayDies`,
`TokenExpires`, and the two sends that raise on a closed link. Both end with the
queue still registered: the `connected` frame is sent before the `try`, and the
`finally` clause re-raises the sender's error before it unsubscribes.

Accepting a socket and subscribing its queue is one step, because nothing in
between suspends. The Redis subscription is made later, by a task: an event
published in that gap is not delivered, and `base` moves past it.

### Generate

The request runs in one handler and interleaves with nothing; its steps are
`Gather` (pool, ranks, first veto), `PickSlot`, `Relax` (start over with a looser
veto), `Finish`, and `Regenerate` for the next request. Scores are exact: a rank
percentile `a/(2(n-1))` is its numerator, weights and thresholds are hundredths.
The fitted model is an input: any member may have any of the given score vectors.

### Explain

Operators over a finished `Generate`: `Contributions` are the four terms of a slot
computed again from the list, `Clauses` what `explain` may say, `Reason` the
`MaxClauses` it keeps (the code orders clauses of equal weight by their wording,
the model by the order in which they are looked at). `ReasonsHold` joins the two
modules: it recomputes the selection from the terms (the track named did win its
slot by them) and asks of each clause that it is true of the room. Wording is left
out; what a clause says, of whom and for which term is kept.

### RoomPage

One page, the server's playlists and votes behind it, and other members acting
on both. A playlist stands for its tracks, with one that is voted on.

| State | In the code |
|---|---|
| `lists`, `mine`, `others` | `playlists` in the order their transactions began (`generated_at` defaults to that), and `votes` on each |
| `posts`, `inbox`, `sock` | events committed and not published yet, events on their way, and whether the page is subscribed |
| `gets`, `making`, `voting` | the page's requests: fetches, `POST /playlist` from either button, `POST /vote` with what it would go back to |
| `loading`, `view`, `drawn`, `myVotes` | React state; `drawn` is `playlistRef.current`, which is one render behind `playlist` |
| `seen`, `asof`, `lost`, `crossed`, `overlapped`, `tangled` | history: how fresh what is shown is, and which of the named gaps has been hit |

`Begin`/`Generate` are the two ends of `generate_playlist`'s transaction; a
generation that began earlier and commits later sorts below the other one, and
`overlapped` records it. In-process, a commit and its event are one step; over
Redis `RedisPublish` comes later, in any order, or the call raises and the page
never hears of it. `Read` and `Arrives` are the
server's and the page's half of a fetch, so answers overtake each other. `Hear`
handles one event: a change fetches, a vote patches the list last rendered.
`Connect` fetches nothing and `Disconnect` drops what is on its way, as in the
code. `Vote` is optimistic, `VoteSaved` patches the total, `VoteFails` puts back
the value captured before, over whatever is there.

### Sessions

| State | In the code |
|---|---|
| `rows` | `refresh_tokens`: free, live, spent by a refresh, revoked by a log-out, expired; and whose |
| `swaps` | calls of `/auth/refresh`: sent, read (`SELECT`), issued or refused, and whether the tab still waits |
| `store` | the pair in `localStorage`, shared by the tabs |
| `refreshing`, `user` | per tab: the module's `refreshing` promise, the `AuthProvider`'s user |
| `calls` | the other requests: `load` and `renew` (`refreshUser`, on loading and after the picks are saved), `sign` and `me` (the two halves of `signIn`), `page` (anything else), `logout`; sent, waiting for the refresh, or sent again |
| `busy` | the sign-in attempts whose form is still shown |
| `crossed`, `disturbed` | history: tabs that changed the pair under a refresh of their own; tabs whose pair changed after they last asked whose it is |

`RefreshRead` and `RefreshCommit` are apart because the handler runs in a thread:
two may read one token unrevoked and both issue a pair. A token is named by the
request it is issued to, so uniqueness of random tokens is assumed, and nothing
else of `security.py` is. When an access token expires is left open: the server
accepts the one it is presented, or denies it.

The form is shown whenever nobody is signed in and the page is not loading
(`App.tsx:29`), so `Submit` is possible over any calls of an earlier session that the
tab still has in flight; only its own attempt, `busy`, holds it back. `SignedIn` stores
the pair before it asks who signed in. A call denied joins the tab's refresh
(`JoinSwap`) or starts one (`StartSwap`). `SwapGranted`, `SwapRefused` and
`SwapFailed` are the three ends in `refreshTokens`: a refusal clears the stored pair,
whosever it is by then, and so does any other error status (429, 5xx); when `fetch`
throws the pair stays. `Served` is the answer to a page's request; one that has
saved the picks calls `refreshUser` (`Onboarding.tsx:82-85`), whoever is signed in by
then. `Reload` is a page reload, which forgets the promise and asks `/me`.

### Exports and Taste

A file is a JSON array, the same wrapped, another JSON object, or a CSV; a row is
the fields a parser looks at. `Parse` keeps, skips or counts rows as the parsers
do (`MaxRows`, the shortest play, absent names, times that do not parse, CSV with
and without a header), and `Detect` looks only at the head of the file. A row has a
time and whether it is told to the second: Spotify's `StreamingHistory` and Last.fm's
CSV have minutes (`Timed`), and of these `Parse` yields the start of the minute. The
time it was really played is kept beside it, for the properties alone.

| State of `Taste` | In the code |
|---|---|
| `catalogue`, `listens` | `recordings` (growing), `listens` with the parsed row each was stored for |
| `profile`, `onboarded` | source of each row of `profile_artists` and `profile_tags`, `users.onboarded_at` |
| `imports` | rows of `imports` by status |
| `saves` | onboarding requests: after the `DELETE` of artists or that of tags, with the picks, the rows deleted and not committed, and the saves ahead whose row locks they wait for |
| `stated`, `tangled` | history: the last save committed; saves that ran beside another writer |

`SaveDelete`, `SaveDeleteTags`, then `SaveCommit` or `SaveFails`. The two `DELETE`s
each see what is committed when they run, and wait for the rows that another save
is deleting. The `INSERT` of a pick that still
has a row breaks the primary key and undoes the whole. `Upload` is the handler of
`POST /imports`: unreadable, imported, or one side of a deadlock of row locks
undone. The name index (`Indexes`) keeps any one recording of a key, because the
rows it is built from come in no order. More rows than one `INSERT` may carry
(`MaxInsert`) undo the upload.

### Dataset and Catalogue

`Dataset` has what the scripts compute: caps per user, the smallest history, both
popularity cuts, the best artist of a name, listeners with their histories.
`Catalogue` has when they write it.

| State | In the code |
|---|---|
| `disk`, `cache`, `crawl` | `interactions.npz` and `items.json` with their genres, the tag cache, the crawler's progress |
| `recordings`, `credits`, `tagged`, `inherited`, `curated`, `listens` | the tables of those names; a recording re-inserted after a reset is another row |
| `reset` | the import with `--reset` between its `DELETE`s: the recordings deleted so far, the playlists that the next one saw |
| `fit`, `generation`, `playlists` | the API's snapshot, the generation under way with the recordings its tracks have locked, stored lists |
| `era`, `merged`, `runs` | history: resets, datasets imported since, runs of scripts |

`Stops` is a script that dies before its commit: what is on disk stays.
`GenerateFlushes`, `GenerateInserts` and `GenerateCommits` interleave with
`ResetBegins`, `ResetDeletes`, `ResetClears` and `ResetCommits`. `DELETE FROM
recordings` takes its rows one at a time, in any order, and so do the foreign keys of a
generation's tracks: each waits for a row the other has, and when each has one that
the other needs, `DeadlockBroken` undoes either the generation (`aborted`) or the
reset. A generation is refused (`failed`) by a foreign key when a recording of its
snapshot is gone for good.

`Library` is what is left of all that for whoever stores a playlist: recordings
are added, a playlist is stored with tracks that are there, or everything is
replaced at one moment. The refinement maps `shelf` to `recordings` and `lists`
to `playlists`. In the code a reset is several `DELETE`s, between which
generations run; that none of it shows before the reset commits is what the
refinement says.

## 4. The runs

| Run | Instance | Expected | Shows |
|---|---|---|---|
| `rooms_one` | 1 process, no Redis, 5 users and a persona, the demo room and one more, 2 invites of 2 uses, limit 4 | holds | the member limit, exact uses, announced modes, the sealed demo room, `RoomAccess` |
| `rooms_two` | 2 processes over Redis, 4 users, 1 room, limit 2, 2 events lost | holds | overflow of at most one, no invite overcharged, joins announced or lost for a cause |
| `rooms_two_capacity` | the same | violated | the member limit itself |
| `sockets` | both broadcasters, 2 handlers, queue of 1, 2 events | holds | order, no gaps, delivery, reconnection, relays and leaks accounted for |
| `sockets_expired` | the same | violated | reconnection once the token has expired |
| `generate` | 1–3 members, 4 tastes, 3 histories, 3 modes, a catalogue of 5, lists of 3, asked twice | holds | every property of one playlist and of its reasons |
| `generate_relaxed` | the same | violated | "relax only as far as needed" |
| `generate_again` | the same | violated | "something new" |
| `sessions` | 2 users, 2 tabs, 3 calls (two of one tab), 3 pairs, 1 rare event (an answer lost or in error, a reload, picks saved) | holds | rotation, refusals for a cause, tabs that agree with the stored pair, every refresh ends |
| `roompage` | both transports, 2 fetches, 2 lists, 2 votes, 3 acts in all, 1 fault | holds | the page is current at rest but for the named gaps; votes; never backwards |
| `taste` | 3 saves of one pick, 2 uploads of 5 files in any declared format, times to the second and to the minute, 3 artists, 3 recordings of which 2 share a name | holds | plays counted once or for a cause, promotions, what is stated, why a save fails |
| `catalogue` | 2 dumps, 2 charts, 4 runs of scripts, 1 reset, 1 playlist | holds | the catalogue whole, stored playlists kept, `Library` |

**Why the bounds are enough.** In `rooms_one` the owner, two joiners of one invite
and one of the other fill the room of four, and a fifth user is refused; an invite
of two uses is exhausted before that. In `rooms_two` the limit of two is where two
counts can both be stale, and four users allow a third and a fourth attempt; one
lost event in `rooms_one` and two in `rooms_two` are a join or a mode, and a
second join, never told. Users are interchangeable (no action or property names
one), hence the symmetry sets. Two handlers are one that is stale and one that is
live; a third would only be a second stale one. A queue of one overflows at the
second event, and two events are enough to be out of order, doubled or missing. In
`generate`, three members are enough for ties in who was served least, five items
give pools of every size from zero to all, and lists of three leave pools that are
shorter, equal and longer. Two requests are enough to compare.

In `sessions`, two calls of one tab are what makes a refresh shared, the third
call is the other tab's, and of three pairs the first can be swapped twice at
once, or once and then again; 720,010 states. Users are interchangeable there too,
so the constraint `FirstUser` keeps only the half of the states in which the first
pair is `u1`'s; it is not a SYMMETRY, which is unsound with liveness. No step
gives a pair another owner or frees one, so nothing is cut off behind the
constraint but those mirror images. In `roompage`, two lists are enough for one to
be shown for the other, two fetches for one to overtake the other, and two votes
on one list to overlap; three acts leave one to somebody else; one fault is a lost connection,
a publish that raises or one failed request at every place it can happen; 824,091 states. In
`taste`, two saves race and a third sees what they left; one pick is enough to be
promoted, deleted or refused, since rows do not depend on each other; two uploads
are a file and the same plays from another service; the files hold every kind of
row that a parser drops, and one play to the second and to the minute; 366,615
states. In `catalogue`, two dumps that share a track merge or replace each other,
four runs are long enough for build, import, seed and a reset, or for two crawls
around an import, and snapshots of several recordings give a generation and a
reset enough rows to deadlock; 954,247 states.

**Counters capped**, each a constant marked as a bound where it is declared:
`MaxInFlight` (copies of one event awaiting Redis), `MaxLost` (events lost),
`MaxUses`, `MaxEvents`, `MaxLeaks` (counted up to that many and then kept there),
`MaxRuns` (requests of `Generate`, runs of scripts in `Catalogue`), `MaxPairs`,
`MaxRare` (answers lost or in error, reloads and picks saved, in `Sessions`),
`MaxFaults`, `MaxLists`, `MaxVotes`, `MaxActs`, `Gets`, `Saves`, `MaxPicks`,
`MaxImports`, `MaxResets`, `MaxPlaylists`. `MaxInsert`, `MaxRows`, `ProfileLimit`
and the like are limits of the code itself, made small.

**Symmetry.** The ordinary users in the rooms' runs, the saves in `taste`, the
fetches in `roompage`: no action or property names one of them.

**Deadlock** is checked in `rooms_one`. The other instances really stop: the only
room is deleted, the page has left, the room has asked for the last time, or the
last bound is used up while nothing is under way.

**Fairness.** `Rooms` states none: its properties are safety. `Generate` has weak
fairness on the handler's own steps (a request runs to its end), not on
`Regenerate`. `Sockets` has weak fairness on what the event loop, the keepalive
ping and the page's timers do, which are all enabled until they happen; nothing
makes events be published, links fail or tokens expire. `Accept` is strongly
fair: an attempt may fail any number of times, but a page that keeps trying is
let through now and then. `Refuse` is the server's answer and needs only weak
fairness. `Sessions` has weak fairness on the server's work on a refresh it has
received and on each tab taking an answer that has come; no user action, no lost
answer and no expiry is fair. `RoomPage`, `Taste` and `Catalogue` state none:
their properties are safety.

**Liveness**: `Answers` (a request ends), `Delivers` (an event on its way to an
open page is shown, unless the connection, the relay or queue space is lost),
`ReconnectsWhileFresh`, `RefreshEnds` (a tab's refresh is settled, so that the
next 401 can start another).

**Escape clauses.** Some properties except the behaviours in which a named gap of
the code has been hit. History variables record exactly those gaps, and so the
properties say that there are no others.

| Property | Excepts |
|---|---|
| `JoinsAnnounced`, `ModeAgrees` | an event whose publish raised, or whose process died with it (`lost`) |
| `CurrentAtRest` | a change the page was not told of or could not fetch (`asof < lost`), an answer overtaken by an older one (`crossed`), generations that overlapped |
| `NeverBackwards` | an overtaken answer, generations that overlapped |
| `OwnVoteCounts` | votes on one track that overlapped, a vote whose answer was lost (`tangled`) |
| `ShownUserHoldsPair` | a tab is `disturbed` when another tab changes the pair, when a refresh is refused or fails, and when it clears or stores a pair while a refresh of the earlier one, or a question whose it is, is still in flight; it is undisturbed again by asking anew |
| `PlayCountedOnce` | two rows of one play where two recordings both answer to it, or where one of two exports told only its minute |
| `StatedIsLastSave` | of the picks, those that an import has taken over; that nothing *else* is stated, only for a save no other save ran beside |
| `SaveFailsForCause` | saves that another save ran beside, or that were undone by a deadlock with an import (`tangled`) |
| `PlaylistsHold` | a generation whose snapshot is older than a reset, or of several tracks and undone by a deadlock with one |
| `CatalogueWhole` | the cap counts once per dataset merged |

Each property is shown to bite: for every one, a mutant of one definition, the
kind of slip a change to that code could make, violates it under the same
configuration. The mutants stand directly before what they replace.

## 5. The theorems

All are proved by `tlapm` with no assumption but the named ASSUMEs of the module
(finite or non-empty sets, limits and popularities that are numbers; a
broadcaster without Redis means one process; an artist must be heard at least
once to be promoted; a dump of listens ends, and a row of a chart has an artist,
since the crawler skips one without). Every invariant that a passing run checks
is stated by a theorem.

**RoomsProofs.** `TypeCorrect`, for any number of processes. `RowsInv` is the
inductive invariant underneath the rest: a deleted room has no rows, an unused
invite let nobody in, everybody an invite let in is a member, uses never exceed
the people let in, and what a handler has read was true of the invite once. From
it follow `InvitesNeverOvercharged` and `RoomsTakeTheirRows`. `PlacesInv` adds up
members and admitted joiners: in each process at most one join has counted and not
committed, so `OverflowIsBounded` by one per other process, and with one process
`OneProcessNeverOverfills`. `SealedInv` gives `DemoRoomStaysSealed`: the demo room
cannot be joined because no invite to it can be made. With one process, what the
loop has read is still true when it commits, hence `OneProcessUsesAreExact` and
the refinement `OneProcessIsAtomic` (`Spec => AccessSpec`). `CameInOnce`, room by
room, gives `NobodyComesInTwice`: the commit finds its user no member, and
everybody an invite let in is one, so no invite let this user in before.
`AnnouncedInv` (what is heard, waits to be sent or is lost is of a committed join,
and every committed join is one of the three) gives `CommittedJoinsAreAnnounced`
for any number of processes and losses and any order of Redis. `ModesInv` gives
`InProcessModesAgree`: without Redis a mode that was stored and not heard is one
whose event is in `lost`. "One process" and, for the last one, "without Redis" are
hypotheses of those theorems, not assumptions of the module.

**SocketsProofs**, for any number of handlers, any queue size and any number of
events. `TypeCorrect` is not inductive alone: that `base` stays in range needs
`RelayInv` (what Redis has sent and the pump has not taken is the latest run of
events). `RelayFollows` is inductive as it stands. `LeaksAreFailures` needs
`LeakInv`: leaked queues *and* handlers whose sender has died are together no
more than the sends that raised. `ImplementsFeed` (`Spec => FeedSpec`) needs
`FeedInv`: on every connection wire before queue is in rising order and not ahead
of the relay, nothing is left over where a new handler will start, and what an
open socket still brings is later than what the page has seen. `NothingIsSkipped`
needs `GaplessInv`: wire then queue of a connection that nothing was lost on are
the events after `base` up to what the relay has passed on, each once, and
nothing is on its way to a handler whose subscription Redis has not confirmed.
Two theorems are about liveness without its fairness. `EventsComeThrough` is that
part of `Delivers`: events under way are the ones after `base` (`UnderwayIs`), so
the number of relayings, pumpings and receptions still due before one of them is
shown (`StepsTo`) is known from the lengths of wire and queue; every step keeps or
lowers it (`NearerStep`), and something can always be done (`NeverStuck`), for
which a dead relay must have failed the open socket and a dead sender must have
found its link closed (`DeathsInv`). `LostHandlersEnd` is that part of
`ReconnectsWhileFresh`: a page never has two live connections and none while it
waits (`OneLiveLink`), and a handler whose connection is gone gets no further from
its end.

**GenerateProofs**, for any catalogue, room, weights' inputs and limits.
`SlotsInv`: what is chosen and what is available partition the survivors of the
current threshold, and every threshold passed over had fewer than `k`. From it
`PlaylistAlwaysFills`, `VetoIsHard` and `RelaxationIsForced`;
`NothingHeardAgain` comes from the pool alone. `EmptyOnlyIfAllHeard` is about the
ranking in `generate`: a finite set of tracks that is not empty has one with the
fewest before it, by the least-number principle, and that one is in the pool; it
assumes that a popularity is a number. `ServedIsLeast` is about the sums that
`select` keeps: the member it calls served least is the one for whom the scores of
the tracks chosen *before* add up to least, ties to the first. `served` is a
running sum and the property a sum over the list, so the proof needs what a sum
over a finite set is, and that it grows by the element added; the first is shown by
the least size at which it would fail, the library's induction being out of reach.
`HandlerAlwaysEnds` is `Answers` without its fairness: until it has answered the
handler always has a step it can take (`CanGoOn`, which includes that somebody is
served least, that some track is best and that the veto can be relaxed), and
each of its steps lowers `Left`, a number.

**ExplainProofs**, for any catalogue, genres, room and number of clauses.
`ReasonsAlwaysHold` needs `WonInv` on top of `SlotsInv`: the track of each slot beats
every survivor of the threshold that is not in a slot before it, by terms computed
from the list alone; a step fills the last slot by the same terms (`TotalIsValue`)
and the slots before it do not look at later ones. From `ServedIsLeast` it has whose
turn it was. Of `Clauses` it needs which clauses there are for a term that is not
zero, and of `Reason` that counting the clauses ahead of each one puts them in an
order without gaps, so that what is left out is no larger than what is kept.

**SessionsProofs**, for any users, tabs, calls and pairs. `SpentTokensStaySpent`
rests on `Inv`: a pair that is stored or presented was issued, a pair that
somebody was issued for another leaves that one spent, and a call marked late
presents one that is out or spent. Without the part about issued pairs a commit
could find the row unspent again. `RefreshesRefusedForCause` needs `CauseInv` on
top: a tab's promise is a call of its own that it has not given up
(`WaitingInv`), a call not given up is the one the tab waits for or its token is
past, neither stored nor presented again (`FlightInv`), and a spent token was
exchanged for another (`SpentInv`). That a tab has one refresh at a time is in
none of the actions alone; it is what these say together. `TypeCorrect` gives
every variable its type. `ShownUserOwnsPair` needs `ShownInv` on top of all that: what
is presented or asked with was issued to somebody (`PresentedInv`), a rotated pair
keeps its owner (`OwnersInv`), and in a tab that nothing has disturbed the user it
shows, the pairs it asks with and the pair it waits to have rotated are all of the
stored pair's owner (`HeldInv`). Nothing is assumed of a tab that signs in: whatever it
still has in flight from before is what makes it disturbed.
`RefreshesComeToAnEnd` is `RefreshEnds` without its fairness: a call that waits has
a refresh of its tab to wait for (`StrandedInv`), which by `CauseInv` the tab has not
given up, and what is left of that refresh (`Due`) goes down with each step of the
server and the tab on it and up with none.

**RoomPageProofs**, for any number of lists, votes, fetches and faults, through
either broadcaster. `OwnVotesCount`:
`VoteInv` says of a vote in flight that nothing overlapped: it is the only one on
its list and is what the page shows, what it would go back to is what the server
has while it is not counted, and what the server has once it is. `SettledInv` is
the same of a list with no vote in flight.

`ShowsTheLatest` and `NeverGoesBack` (the properties `CurrentAtRest` and
`NeverBackwards`) rest on `PageInv`, which is about everything that is on its way
to the page at once. A thing *read at commit t* is `Told` when its list is the
latest or the page will hear otherwise (an event of a later generation, a fetch
that has not been read, or one read since that has the latest list), and
`Counted` when its total is right or the event of a later vote on that list is on
its way. `AnswersInv` and `TotalsInv` say this of every answer and every total
under way that is no older than what the page has heard of or lost;
`ViewInv` says it of what is shown while nothing crossed it. What is shown is not
enough by itself: an answer takes its place, and a total is put into it. A page
at rest has nothing left to hear, so `Told` and `Counted` give the latest list
and its total. `OrderInv`, that until generations overlap later answers have
later lists and none that can still pass for new is of an earlier list than the
one shown, gives `NeverGoesBack`; it needs the part of `AnswersInv` that what was
read at the latest commit is of the latest list. `CommittedInv`
says that nothing is shown or under way that was not committed; a commit adds its
event or raises `lost` above everything read before it, which is why `asof >=
lost` is the condition.

**TasteProofs**, for any catalogue, files and number of requests. `ListensInv`
says that stored listens answer to the row they were stored for, that their time
is the one this row told, its own or its minute (`TimesTold`, from `Told` about
the parsers), and that no two have the same recording and time;
`PlaysAreCountedOnce` follows. `SavesInv` says that what a save deletes was
stated, and all of it if nobody ran beside it (`DeletingInv`, with a step for each
`DELETE`, `DeleteStep` and `DeleteTagsStep`), and carries `StatedIsWhatWasSaved`
and `SavesFailForCause` through the uploads that come in between. That the picks
of the last save are stated is shown for every save, whatever ran beside it; that
nothing else is, for one that no other save ran beside. `PromotedAreEarned`:
listens only accumulate, so who was played often enough stays so, but a new play
can make another artist frequent; every upload promotes again from all the
listens, and leaves out a frequent artist only behind `ProfileLimit` played as
much.

**CatalogueProofs**, for any dumps, charts and number of runs.
`PlaylistsAlwaysHold` needs `FitInv` (a snapshot of this era is of recordings that
exist), `GenerationInv` (the same of a generation under way, which has a track),
`ResetInv` (what a generation has locked are tracks of its own that the reset has
not deleted, so a reset that has deleted every recording has no generation left to
finish, and deletes every playlist there is) and `ListensInv` (listens are of
recordings that exist). Who is undone by a deadlock had locked one row and waits
for another, hence the two tracks (`DeadlockStep`).

`CatalogueStaysWhole` needs `WholeInv`. That no artist has more recordings than the
datasets allow comes from `Dataset` (`FewKept`: what a build keeps of an artist has
fewer than the cap ahead of it) and is inductive only with what is on disk being
one of the dumps (`FilesInv`) and with a crawl adding credits of known artists alone
(`CrawlInv`), to recordings of any script. `DatasetsAreSound` is about `Build` for
every finite dump: at most `MaxUsers` users, each with enough items even after the
items' cut, and of each user and item one play, at the earliest time. No state is
involved, so no run has it as a property.

`ImplementsLibrary` (`Spec => LibrarySpec`) takes the parts of `Inv` and adds that
recordings are of an era no later than the present one (`DatedInv`), so that those
after a reset are all new, and that playlists are numbered up to how many there are
(`NumberedInv`), so that a new one has a number of its own. `ResetCommits` is the
only step that maps to `Replace`: by `ResetInv` what it deletes is every playlist.

**Only model-checked**: the liveness properties `Answers`, `Delivers`,
`ReconnectsWhileFresh` and `RefreshEnds`, since fairness and ENABLED are out of
TLAPS's reach here. What in each of them does not depend on fairness is proved: that
the steps owed are there to be taken and bring the end nearer, and that no other
step moves it away (`HandlerAlwaysEnds`, `EventsComeThrough`, `LostHandlersEnd`,
`RefreshesComeToAnEnd`). That a page's own retry finds the server stays with TLC, and
so does that the mutants are caught.

## 6. Findings

Where a comment or document of the repository and its code disagree. Each has a
run whose counterexample shows it.

- **The member limit with several processes** (`rooms_two_capacity`,
  `rooms.py:231`). The count and the insert are two statements with no lock on the
  room. Two processes that both count the last free place both fill it.
- **Reconnection after the token expires** (`sockets_expired`, `api.ts:301`). The
  socket's URL keeps the access token it was opened with; after that expires every
  reconnection is refused, and retried, for ever.
- **Relaxation of a short pool** (`generate_relaxed`, `recommender.py:413`). With
  fewer than `k` candidates the veto goes to its loosest step and is reported
  relaxed although no track needed it.
- **Regeneration** (`generate_again`, `group.py:273`). The seed meant to give a
  new list is never used.

Disagreements that the models reproduce, and that have no run of their own:

- **What a page misses.** `docs/architecture.md:139-140` promises "a room-state
  fetch over REST" on reconnection, and that the socket is "never the only route to
  a fact". On `connected` the page fetches nothing (`RoomView.tsx:84`), nor does
  it learn that it was away: `setLive(false)` is only called when it leaves. What
  is generated between its first fetch and its subscription is missed too. This is
  the condition `asof >= lost` of `CurrentAtRest`.
- **Picks that an import takes over.** `db/001_init.sql:126` wants explicit choices
  to outrank inferred ones; the upsert at `imports.py:117` writes `import` over a
  pick. The onboarding page offers that artist as picked, and saving it again then
  breaks the primary key (500), as often as it is tried. This is why
  `StatedIsLastSave` subtracts what was promoted, and what `SaveFailsForCause` says.
- **`RecommenderService.invalidate`** is said to follow a change of the catalogue
  and has no caller. `PlaylistsHold` names what comes of it: a generation after a
  reset that still draws on the old snapshot fails, until the process restarts.
- **A reason without an effect.** `explain.py:157` always has a clause for the group
  score, also where it is zero (everybody ranks the track last), against
  `explain.py:5`; `ReasonsHold` excepts it. And `recommender.py:457` measures "only
  just clears" against the strict threshold although a relaxed one may have been
  applied; `ReasonsHold` asks about it without relaxation. The clause about somebody
  new to the room speaks of the artist (`explain.py:173-180`); what the property
  checks of it is that none of the room has heard the track.
- **One play, two listens.** `db/001_init.sql:167` wants an export uploaded twice to
  store nothing twice, and a test uploads one twice. A name that several recordings
  share resolves to whichever the query returned first (`imports.py:42`), and a
  listen without a MusicBrainz id that was resolved by name may be resolved by id
  once that recording is in the catalogue: the same file, uploaded again, can be
  stored for another recording. And exports that tell only the minute
  (`parsers.py:107`, `283`) store a play at another time than those that tell the
  second. `PlayCountedOnce` says that these are the only two ways.
- **A wrong answer signs out.** `api.ts:159-162` takes every status but a 2xx from
  `/auth/refresh`, a rate limit's 429 or a 502 too, for a refusal of the token, and
  clears a pair that is good. `SwapFailed` does this, and `ShownUserHoldsPair`
  excepts it.
- **A refresh that outlives its session.** The form is shown over requests that are
  still in flight. A refresh that another session began stores its pair when it is
  granted, over the one that a new user has signed in with meanwhile (`api.ts:163`).
  A tab is `disturbed` from then on.
- **Committed and never told.** A publish that raises (`realtime.py:120-122`) turns
  a join or a change of mode that is committed into a 500, and the room is not told;
  nothing repeats either (`lost`).
- **Datasets.** `build_dataset.py` keeps tracks whose listeners fall below the
  minimum once users have been dropped for too few listens. `seed_listeners.py`
  names a listener by a slot that starts again in each dataset, so listeners of two
  datasets become one user. A crawl whose second lookup of an artist fails puts the
  name of the chart over the curated one.

## 7. What is not modelled

- **Rounding.** `Generate` is exact where the code uses doubles; what depends on
  the last bit of a score is out of scope.
- **The fitted models** (`recommenders.py`, `dataset.py`): floating-point linear
  algebra. `Generate` accepts any scores.
- **Rate limiting.** It only refuses a request early or late. Every other module
  allows for a request that fails; its own races are listed under "hazards".
- **The connection pool**: the modules take a session to be there when a handler
  asks for one.
- **Migrations**: one script over a list of files in one transaction, before the
  API starts.
- **Offline evaluation** (`evaluate.py`, `group_evaluate.py`, `run_eval.py`,
  `write_measurements.py`) and `build_movielens.py`: statistics over fixed data.
- **Demo data**: the demo room is the initial state of `Rooms`; the personas'
  profiles (`seed.py`) and the catalogue of the tests (`seed_ci_catalogue.py`) are
  left out.
- **Start-up, configuration, logging, page layout, the other pages of the web
  client**, but for what they do with the stored pair.
- In `Rooms`: what a client does with a 500; room names, display names, tokens and
  their hashes (an invite is its row); the read-only handlers.
- In `Sockets`: event contents; events whose publish raised, which are not numbered
  (`Rooms` and `RoomPage` have them); several rooms or pages at once, which share
  nothing in the code but the event loop; malformed frames; a user removed from
  the room, which no handler does while the room exists (4403 follows only a
  deletion, after which there is nothing to hear).
- In `RoomPage`: the page's copy of the room's name, members and mode, which is
  fetched in the same way; which tracks a list has; what the socket does below
  "subscribed", which is `Sockets`.
- In `Sessions`: passwords and hashes; two browsers of one user, which share no
  state but the rows.
- In `Taste` and `Exports`: encodings, date formats and the string functions of
  `matching.py`, which are an input (`Normal`) or whether a time can be parsed;
  weights of profile rows. A save that is undone because it and another save delete
  the same rows in a different order: the model lets it wait, or fail at the `INSERT`,
  and either way it is tangled.
- In `Catalogue`: rate limits and retries towards MusicBrainz and ListenBrainz (a
  lookup answers or is lost), several scripts at once.

## 8. Plan

Done: `Rooms` with `RoomAccess`, `Sockets` with `RoomFeed`, `RoomPage`,
`Sessions`, `Exports` and `Taste`, `Generate` and `Explain`, `Dataset` and
`Catalogue`, and the proofs above. Left, most important first:

- An abstract chain of single-use tokens that `Sessions` implements, and
  `RoomPage` over `RoomFeed` in the place of its own inbox.
- `RateLimiter` (unlocked deques and the sweep; `INCR` then `EXPIRE`): at most the
  limit in any window, no bucket blocked for ever.
- `Pool`: ten connections and one event loop; the pool does not starve the loop.
