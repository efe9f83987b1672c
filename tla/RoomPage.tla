------------------------------ MODULE RoomPage -----------------------------
(***************************************************************************)
(* One page of a room (RoomView.tsx) and what the API keeps for it: the    *)
(* room's playlists and their votes (api/rooms.py).  The page loads them,  *)
(* is told over its socket that they have changed, fetches them again, and *)
(* sends requests of its own; other members act elsewhere.                 *)
(*                                                                         *)
(* A playlist stands for its tracks: one that is voted on, and its total.  *)
(* The room's name, members and mode, fetched in the same way, are left    *)
(* out: a playlist is all that has several writers on the page.            *)
(* The GETs run in the thread pool, the other handlers on the event loop:  *)
(* a commit and the event of InProcessBroadcaster are one step; through    *)
(* Redis, or with several processes, the event follows later.              *)
(***************************************************************************)
EXTENDS Integers, Sequences, FiniteSetsExt

CONSTANTS
  Transports,   \* the broadcasters to start with: "in-process", "redis"
  Clicks,       \* the vote buttons pressed: up (1), down (-1)
  Gets,         \* bound: fetches of the page in flight
  MaxLists,     \* bound: playlists generated
  MaxVotes,     \* bound: votes of the page's user
  MaxActs,      \* bound: playlists and votes, whoever's they are
  MaxFaults     \* bound: connections lost and requests failed

ASSUME TransportsAssumption == Transports \subseteq {"in-process", "redis"}
ASSUME ClicksAssumption == Clicks \subseteq {-1, 1}
ASSUME BoundsAssumption ==
  MaxLists \in Nat /\ MaxVotes \in Nat /\ MaxActs \in Nat /\ MaxFaults \in Nat

VARIABLES
  transport,   \* what get_broadcaster chose
  lists,       \* playlists, in the order of generated_at
  mine,        \* votes of the page's user on each
  others,      \* sum of the other members' votes on each
  clock,       \* commits so far
  posts,       \* events committed and not yet published
  sock,        \* the page's socket is subscribed
  inbox,       \* events on their way to it
  gets,        \* the page's GET requests
  making,      \* its POST /playlist: from Build, from a change of mode
  voting,      \* its POST /vote
  loading,     \* the page is loading
  view,        \* `playlist`
  drawn,       \* playlistRef.current: `playlist` as it was last rendered
  myVotes,
  seen,        \* history: the latest commit the page has heard of, and
  asof,        \*   the commit at which what it shows was read,
  crossed,     \* history: something older has replaced something newer
  lost,        \* history: the latest commit whose event or fetch was lost
  overlapped,  \* history: a generation committed after one that began after it
  tangled,     \* history: votes that overlapped another or lost their answer
  faults       \* counts up to MaxFaults

server == <<lists, mine, others, clock>>
socket == <<sock, inbox>>
requests == <<gets, making, voting>>
page == <<loading, view, drawn, myVotes>>
freshness == <<seen, asof, crossed>>
vars == <<transport, server, posts, socket, requests, page, freshness, lost, overlapped,
          tangled, faults>>

Lists == 1..MaxLists
Buttons == {"build", "switch"}
Votes == 1..MaxVotes

\* What the page can show: which playlist, and its votes.  id 0: null.
Nothing == [id |-> 0, total |-> 0]
Total(l) == IF l = 0 THEN 0 ELSE mine[l] + others[l]

Done == {l \in Lists : lists[l] = "done"}
Newest(ls) == IF ls = {} THEN 0 ELSE Max(ls)

\* Mutant: latest_playlist without DESC.
LatestOldest ==
  LET l == IF Done = {} THEN 0 ELSE Min(Done) IN [id |-> l, total |-> Total(l)]

\* latest_playlist, ORDER BY generated_at DESC LIMIT 1, or 404.
Latest == [id |-> Newest(Done), total |-> Total(Newest(Done))]

Values == [id : 0..MaxLists, total : Int]
TypeOK ==
  /\ transport \in Transports
  /\ lists \in [Lists -> {"none", "began", "done"}]
  /\ mine \in [Lists -> -1..1] /\ others \in [Lists -> Int]
  /\ clock \in Nat
  /\ sock \in BOOLEAN /\ loading \in BOOLEAN
  /\ view \in Values /\ drawn \in Values
  /\ myVotes \in [Lists -> -1..1]
  /\ seen \in 0..clock /\ asof \in 0..clock /\ lost \in 0..clock
  /\ crossed \in BOOLEAN
  /\ overlapped \in BOOLEAN /\ tangled \subseteq Lists
  /\ faults \in 0..MaxFaults

FreeGet == [stage |-> "none", first |-> FALSE, value |-> Nothing, at |-> 0]
GetSent(first) == [FreeGet EXCEPT !.stage = "sent", !.first = first]
FreePost == [stage |-> "none", list |-> 0, at |-> 0]
Ballot(stage, list, value, previous) ==
  [stage |-> stage, list |-> list, value |-> value, previous |-> previous, total |-> 0, at |-> 0]
NoVote == Ballot("none", 0, 0, 0)

FreeGets == {g \in Gets : gets[g].stage = "none"}

\* The page of a room has been opened: perhaps there is a playlist already,
\* and perhaps its user has voted on it.
Init ==
  /\ transport \in Transports
  /\ \E old \in {{}, {1}} \cap SUBSET Lists :
       /\ lists = [l \in Lists |-> IF l \in old THEN "done" ELSE "none"]
       /\ \E vote \in {0, 1} : mine = [l \in Lists |-> IF l \in old THEN vote ELSE 0]
  /\ others = [l \in Lists |-> 0]
  /\ clock = 1
  /\ posts = {}
  /\ sock = FALSE /\ inbox = <<>>
  /\ gets = [g \in Gets |-> IF g = CHOOSE h \in Gets : TRUE THEN GetSent(TRUE) ELSE FreeGet]
  /\ making = [b \in Buttons |-> FreePost]
  /\ voting = [n \in Votes |-> NoVote]
  /\ loading = TRUE
  /\ view = Nothing
  /\ drawn = Nothing
  /\ myVotes = [l \in Lists |-> 0]
  /\ seen = 0 /\ asof = 0 /\ lost = clock
  /\ crossed = FALSE
  /\ overlapped = FALSE /\ tangled = {} /\ faults = 0

Acts ==
  Cardinality({l \in Lists : lists[l] # "none"}) + Cardinality({n \in Votes : voting[n] # NoVote})
    + FoldSet(LAMBDA l, s : s + others[l], 0, Lists)
Fault == faults < MaxFaults /\ faults' = faults + 1

-----------------------------------------------------------------------------
(* The API                                                                 *)

\* Queue an event for the page's socket; without one the page misses it.
Miss(e) == lost' = Max({lost, e.at}) /\ UNCHANGED inbox
Publish(e) == IF sock THEN inbox' = Append(inbox, e) /\ UNCHANGED lost ELSE Miss(e)

\* A commit, and _emit.
Commit(what, l, total) ==
  LET e == [what |-> what, list |-> l, total |-> total, at |-> clock + 1] IN
  /\ clock' = clock + 1
  /\ IF transport = "in-process" THEN Publish(e) /\ UNCHANGED posts
     ELSE posts' = posts \cup {e} /\ UNCHANGED <<inbox, lost>>

\* A publish that raises is not repeated: what was committed is never told.
RedisPublish ==
  \E e \in posts :
    /\ \/ Publish(e) /\ UNCHANGED faults
       \/ Fault /\ Miss(e)
    /\ posts' = posts \ {e}
    /\ UNCHANGED <<transport, server, sock, requests, page, freshness, overlapped, tangled>>

\* generated_at is the time the transaction began, when current_user was
\* looked up in the thread pool, before the handler ran.
Begin(l) ==
  /\ Acts < MaxActs
  /\ lists[l] = "none" /\ \A k \in Lists : lists[k] = "none" => l <= k
  /\ lists' = [lists EXCEPT ![l] = "began"]

\* Mutant: a generation commits and tells nobody.
GenerateQuietly(l) ==
  /\ lists[l] = "began"
  /\ lists' = [lists EXCEPT ![l] = "done"]
  /\ overlapped' = (overlapped \/ \E k \in Done : k > l)
  /\ clock' = clock + 1
  /\ UNCHANGED <<mine, others, posts, inbox, lost>>

Generate(l) ==
  /\ lists[l] = "began"
  /\ lists' = [lists EXCEPT ![l] = "done"]
  /\ overlapped' = (overlapped \/ \E k \in Done : k > l)
  /\ Commit("generated", l, 0)
  /\ UNCHANGED <<mine, others>>

\* Other members generate and vote.
ByButton(l) == \E b \in Buttons : making[b].list = l /\ making[b].stage # "none"

OthersBegin ==
  /\ \E l \in Lists : Begin(l)
  /\ UNCHANGED <<transport, mine, others, clock, posts, socket, requests, page,
                 freshness, lost, overlapped, tangled, faults>>

OthersGenerate ==
  /\ \E l \in Lists : ~ByButton(l) /\ Generate(l)
  /\ UNCHANGED <<transport, sock, requests, page, freshness, tangled, faults>>

OthersVote ==
  \E l \in Done :
    /\ Acts < MaxActs
    /\ others' = [others EXCEPT ![l] = @ + 1]
    /\ Commit("vote", l, Total(l) + 1)
    /\ UNCHANGED <<transport, lists, mine, sock, requests, page, freshness, overlapped,
                   tangled, faults>>

\* A GET handler reads, in a thread.
Read(g) ==
  /\ gets[g].stage = "sent"
  /\ gets' = [gets EXCEPT ![g].stage = "read", ![g].value = Latest, ![g].at = clock]
  /\ UNCHANGED <<transport, server, posts, socket, making, voting, page, freshness, lost,
                 overlapped, tangled, faults>>

\* generate_playlist and cast_vote for the page's own requests.
PostGenerates(b) ==
  /\ making[b].stage = "began"
  /\ Generate(making[b].list)
  /\ making' = [making EXCEPT ![b].stage = "done", ![b].at = clock + 1]
  /\ UNCHANGED <<transport, sock, gets, voting, page, freshness, tangled, faults>>

\* Mutant: a retracted vote keeps its row.
VoteCountedKeeps(n) ==
  LET v == voting[n] IN
  /\ v.stage = "sent"
  /\ mine' = [mine EXCEPT ![v.list] = IF v.value = 0 THEN @ ELSE v.value]
  /\ LET total == v.value + others[v.list] IN
       /\ Commit("vote", v.list, total)
       /\ voting' = [voting EXCEPT ![n] =
            [v EXCEPT !.stage = "counted", !.total = total, !.at = clock + 1]]
  /\ UNCHANGED <<transport, lists, others, sock, gets, making, page, freshness,
                 overlapped, tangled, faults>>

VoteCounted(n) ==
  LET v == voting[n] IN
  /\ v.stage = "sent"
  /\ mine' = [mine EXCEPT ![v.list] = v.value]
  /\ LET total == v.value + others[v.list] IN
       /\ Commit("vote", v.list, total)
       /\ voting' = [voting EXCEPT ![n] =
            [v EXCEPT !.stage = "counted", !.total = total, !.at = clock + 1]]
  /\ UNCHANGED <<transport, lists, others, sock, gets, making, page, freshness,
                 overlapped, tangled, faults>>

-----------------------------------------------------------------------------
(* The page                                                                *)

\* setPlaylist: whatever was asked first, the last answer wins.
Show(value, at) ==
  /\ view' = value
  /\ asof' = at
  /\ crossed' = (at < seen)
  /\ seen' = Max({seen, at})

\* setPlaylist with the tracks of `base`, one of them with a new total; none
\* when there is no playlist.
Patch(base, l, total, at) ==
  /\ view' = IF base = Nothing THEN view
             ELSE IF base.id = l THEN [base EXCEPT !.total = total] ELSE base
  /\ crossed' = (crossed \/ at < seen \/ base # view)
  /\ seen' = Max({seen, at})
  /\ UNCHANGED asof

\* React renders some time after the state is set.
Render ==
  /\ drawn # view
  /\ drawn' = view
  /\ UNCHANGED <<transport, server, posts, socket, requests, loading, view, myVotes, freshness,
                 lost, overlapped, tangled, faults>>

\* The socket is subscribed, at first or again.  Nothing is fetched.
Connect ==
  /\ ~sock
  /\ sock' = TRUE
  /\ UNCHANGED <<transport, server, posts, inbox, requests, page, freshness, lost, overlapped,
                 tangled, faults>>

Disconnect ==
  /\ sock
  /\ Fault
  /\ sock' = FALSE
  /\ inbox' = <<>>
  /\ lost' = Max({lost} \cup {inbox[i].at : i \in DOMAIN inbox})
  /\ UNCHANGED <<transport, server, posts, requests, page, freshness, overlapped, tangled>>

\* Each event fetches what changed, but a vote carries the new total, for the
\* playlist that was last rendered.
HearChange(e) ==
  /\ e.what # "vote"
  /\ \E g \in FreeGets : gets' = [gets EXCEPT ![g] = GetSent(FALSE)]
  /\ UNCHANGED <<view, freshness>>

HearVote(e) ==
  /\ e.what = "vote"
  /\ Patch(drawn, e.list, e.total, e.at)
  /\ UNCHANGED gets

Hear ==
  /\ inbox # <<>>
  /\ HearChange(Head(inbox)) \/ HearVote(Head(inbox))
  /\ inbox' = Tail(inbox)
  /\ UNCHANGED <<transport, server, posts, sock, making, voting, loading, drawn, myVotes, lost,
                 overlapped, tangled, faults>>

\* An answer, or its 404.
Arrives(g) ==
  /\ gets[g].stage = "read"
  /\ Show(gets[g].value, gets[g].at)
  /\ gets' = [gets EXCEPT ![g] = FreeGet]
  /\ loading' = (loading /\ ~gets[g].first)
  /\ UNCHANGED <<transport, server, posts, socket, making, voting, drawn, myVotes, lost,
                 overlapped, tangled, faults>>

\* A fetch that fails is not repeated.
GetFails(g) ==
  /\ gets[g].stage # "none"
  /\ Fault
  /\ gets' = [gets EXCEPT ![g] = FreeGet]
  /\ lost' = clock
  /\ loading' = (loading /\ ~gets[g].first)
  /\ UNCHANGED <<transport, server, posts, socket, making, voting, view, drawn, myVotes,
                 freshness, overlapped, tangled>>

\* api.generate: the transaction of its request begins.
Ask(b) ==
  \E l \in Lists :
    /\ Begin(l)
    /\ making' = [making EXCEPT ![b] = [FreePost EXCEPT !.stage = "began", !.list = l]]
    /\ UNCHANGED <<mine, others, clock>>

\* Build is disabled while it is generating; the modes are while either is.
Build ==
  /\ ~loading
  /\ making["build"].stage = "none"
  /\ Ask("build")
  /\ UNCHANGED <<transport, posts, socket, gets, voting, page, freshness, lost, overlapped,
                 tangled, faults>>

ChangeMode ==
  /\ ~loading
  /\ \A b \in Buttons : making[b].stage = "none"
  /\ making' = [making EXCEPT !["switch"].stage = "patch"]
  /\ UNCHANGED <<transport, server, posts, socket, gets, voting, page, freshness, lost,
                 overlapped, tangled, faults>>

\* The mode is changed: the playlist is generated straight away.
Switched ==
  /\ making["switch"].stage = "patch"
  /\ Ask("switch")
  /\ UNCHANGED <<transport, posts, socket, gets, voting, page, freshness, lost, overlapped,
                 tangled, faults>>

\* The generated playlist is in the answer.
Built(b) ==
  /\ making[b].stage = "done"
  /\ Show([id |-> making[b].list, total |-> 0], making[b].at)
  /\ making' = [making EXCEPT ![b] = FreePost]
  /\ UNCHANGED <<transport, server, posts, socket, gets, voting, loading, drawn, myVotes, lost,
                 overlapped, tangled, faults>>

\* The request fails, before or after it was handled (422, 429, the network).
\* A generation that has begun is rolled back, or still completes.
PostFails(b) ==
  /\ making[b].stage # "none"
  /\ Fault
  /\ making' = [making EXCEPT ![b] = FreePost]
  /\ UNCHANGED <<transport, server, posts, socket, gets, voting, page, freshness, lost,
                 overlapped, tangled>>

InFlight(n) == voting[n].stage \in {"sent", "counted"}
Pending(l) == \E n \in Votes : InFlight(n) /\ voting[n].list = l

\* A press of the vote one holds retracts it.  The vote is shown at once.
Vote(l) ==
  /\ ~loading
  /\ Acts < MaxActs
  /\ drawn.id = l
  /\ \E n \in Votes, click \in Clicks :
       LET value == IF myVotes[l] = click THEN 0 ELSE click IN
       /\ voting[n].stage = "none" /\ \A k \in Votes : voting[k].stage = "none" => n <= k
       /\ voting' = [voting EXCEPT ![n] = Ballot("sent", l, value, myVotes[l])]
       /\ myVotes' = [myVotes EXCEPT ![l] = value]
  /\ tangled' = tangled \cup IF Pending(l) THEN {l} ELSE {}
  /\ UNCHANGED <<transport, server, posts, socket, gets, making, loading, view, drawn, freshness,
                 lost, overlapped, faults>>

VoteSaved(n) ==
  LET v == voting[n] IN
  /\ v.stage = "counted"
  /\ Patch(view, v.list, v.total, v.at)
  /\ voting' = [voting EXCEPT ![n] = Ballot("over", v.list, 0, 0)]
  /\ UNCHANGED <<transport, server, posts, socket, gets, making, loading, drawn, myVotes, lost,
                 overlapped, tangled, faults>>

\* The vote shown goes back to what it was when the button was pressed.
VoteFails(n) ==
  LET v == voting[n] IN
  /\ InFlight(n)
  /\ Fault
  /\ myVotes' = [myVotes EXCEPT ![v.list] = v.previous]
  /\ voting' = [voting EXCEPT ![n] = Ballot("over", 0, 0, 0)]
  /\ tangled' = tangled \cup IF v.stage = "counted" THEN {v.list} ELSE {}
  /\ UNCHANGED <<transport, server, posts, socket, gets, making, loading, view, drawn, freshness,
                 lost, overlapped>>

-----------------------------------------------------------------------------
ServerStep ==
  \/ RedisPublish
  \/ OthersBegin \/ OthersGenerate \/ OthersVote
  \/ \E g \in Gets : Read(g)
  \/ \E b \in Buttons : PostGenerates(b)
  \/ \E n \in Votes : VoteCounted(n)

PageStep ==
  \/ Render \/ Connect \/ Disconnect \/ Hear
  \/ \E g \in Gets : Arrives(g) \/ GetFails(g)
  \/ \E b \in Buttons : Built(b) \/ PostFails(b)
  \/ Build \/ ChangeMode \/ Switched
  \/ \E l \in Lists : Vote(l)
  \/ \E n \in Votes : VoteSaved(n) \/ VoteFails(n)

Next == ServerStep \/ PageStep
Spec == Init /\ [][Next]_vars

-----------------------------------------------------------------------------
(* Properties                                                              *)

AtRest ==
  /\ posts = {} /\ inbox = <<>> /\ sock
  /\ FreeGets = Gets
  /\ \A b \in Buttons : making[b].stage = "none"
  /\ \A n \in Votes : ~InFlight(n)

\* RoomView, "Everything that changes state goes over REST; the socket only
\* says that something changed": a page that waits for nothing shows the
\* latest playlist, with every vote, unless it was not told of a change or could
\* not fetch it, something older came after something newer, or two generations
\* overlapped.
CurrentAtRest ==
  AtRest /\ asof >= lost /\ ~crossed /\ ~overlapped => view = Latest

\* RoomView, "never to a lost vote": the vote a page shows as its user's own is
\* the one that counts, unless two votes on a track overlapped or the answer
\* to one was lost.
OwnVoteCounts ==
  \A n \in Votes :
    LET l == voting[n].list IN
    voting[n].stage = "over" /\ l # 0 /\ l \notin tangled /\ ~Pending(l)
      => myVotes[l] = mine[l]

\* setPlaylist: the page goes back to an earlier playlist only if an answer was
\* overtaken or two generations overlapped.
NeverBackwards ==
  [][view'.id < view.id => crossed' \/ overlapped]_vars
=============================================================================
