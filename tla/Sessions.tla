----------------------------- MODULE Sessions ------------------------------
(***************************************************************************)
(* Signed-in sessions: the refresh tokens of api/auth.py, and the pair of  *)
(* tokens that the tabs of one browser share in localStorage (tokenStore   *)
(* and request in api.ts, AuthProvider in auth.tsx).                       *)
(*                                                                         *)
(* signup, login, refresh and logout are plain `def` handlers: they run in *)
(* the thread pool, each in a READ COMMITTED transaction.  An access and a *)
(* refresh token are issued, stored and cleared together, as a pair, named *)
(* here by the request it is issued to.  When an access token expires does *)
(* not matter here: the server accepts the one it is presented, or not.    *)
(***************************************************************************)
EXTENDS Naturals, FiniteSets

CONSTANTS
  Users, Tabs,
  None,         \* nobody signed in
  Calls,        \* bound: requests in flight at once,
  TabOf,        \*   and the tab that makes each
  MaxPairs,     \* bound: pairs issued, and calls of /refresh
  MaxRare       \* bound: answers lost or in error, page reloads, and picks saved

ASSUME NoneAssumption == None \notin Users \cup Tabs
ASSUME CallsAssumption ==
  TabOf \in [Calls -> Tabs] /\ \A t \in Tabs : \E c \in Calls : TabOf[c] = t
ASSUME BoundsAssumption == MaxPairs \in Nat /\ MaxRare \in Nat

VARIABLES
  rows,         \* refresh_tokens: each pair's owner and what became of its refresh token
  swaps,        \* the calls of /refresh, on both sides of the network
  store,        \* localStorage: the stored pair
  calls,        \* the other requests of the tabs
  refreshing,   \* each tab's `refreshing` promise: the call of /refresh it waits for
  user,         \* each tab's signed-in user
  busy,         \* the sign-in attempts whose form is still shown
  crossed,      \* history: the tabs that changed the pair while they waited for a refresh of it
  disturbed,    \* history: the tabs whose pair changed after they last asked whose it is
  rare          \* counts up to MaxRare

browser == <<store, calls, refreshing, user, busy>>
history == <<crossed, disturbed>>
vars == <<rows, swaps, browser, history, rare>>

Pairs == 1..MaxPairs
NoPair == 0

Row == [user : Users \cup {None}, state : {"free", "live", "spent", "out", "expired"}]
\* load and renew: refreshUser, of AuthProvider and after the picks are saved.
\* page: any other request.
Call == [kind : {"none", "load", "sign", "me", "page", "renew", "logout"},
         pair : Pairs \cup {NoPair}, stage : {"none", "sent", "served", "waiting", "again"}]
\* late: sent when its token had been used already.
\* gone: its tab stopped waiting for the answer.
Swap == [tab : Tabs \cup {None}, pair : Pairs \cup {NoPair}, late : BOOLEAN, gone : BOOLEAN,
         stage : {"none", "sent", "read", "issued", "refused"}]

TypeOK ==
  /\ rows \in [Pairs -> Row]
  /\ swaps \in [Pairs -> Swap]
  /\ store \in Pairs \cup {NoPair}
  /\ calls \in [Calls -> Call]
  /\ refreshing \in [Tabs -> Pairs \cup {NoPair}]
  /\ user \in [Tabs -> Users \cup {None}]
  /\ busy \subseteq Calls
  /\ crossed \subseteq Tabs /\ disturbed \subseteq Tabs
  /\ rare \in 0..MaxRare

Idle == [kind |-> "none", pair |-> NoPair, stage |-> "none"]
Sent(kind, pair) == [kind |-> kind, pair |-> pair, stage |-> "sent"]

\* Tabs open on a browser that has never signed in.
Init ==
  /\ rows = [p \in Pairs |-> [user |-> None, state |-> "free"]]
  /\ swaps = [i \in Pairs |-> [tab |-> None, pair |-> NoPair, late |-> FALSE, gone |-> FALSE,
                               stage |-> "none"]]
  /\ store = NoPair
  /\ calls = [c \in Calls |-> Idle]
  /\ refreshing = [t \in Tabs |-> NoPair]
  /\ user = [t \in Tabs |-> None]
  /\ busy = {}
  /\ crossed = {} /\ disturbed = {}
  /\ rare = 0

-----------------------------------------------------------------------------
(* What several operations do                                              *)

\* The next pair, or call of /refresh: it will be issued a pair of its number.
Unused(p) == swaps[p].stage = "none" /\ rows[p].state = "free"
NextUnused(p) == Unused(p) /\ \A q \in Pairs : Unused(q) => p <= q

\* _issue_tokens: a new refresh token is stored, a new access token signed.
Issue(p, u, old) == rows' = [old EXCEPT ![p] = [user |-> u, state |-> "live"]]

InTab(t) == {c \in Calls : TabOf[c] = t}
First(t) == CHOOSE c \in InTab(t) : TRUE
\* A tab's next request.
NextIdle(c) == calls[c] = Idle /\ c = CHOOSE d \in InTab(TabOf[c]) : calls[d] = Idle
Waiters(t) == {c \in InTab(t) : calls[c].stage = "waiting"}
Rare == rare < MaxRare /\ rare' = rare + 1

\* The calls whose answer says who is signed in.
Asks(c) == calls[c].kind \in {"load", "me", "renew"}

End(ended) ==
  /\ calls' = [c \in Calls |-> IF c \in ended THEN Idle ELSE calls[c]]
  /\ busy' = busy \ ended

\* tokenStore.clear() by tab t as calls end; setUser(null) with it, or not.
\* A tab that still asks who is signed in will show the one it forgets here.
Clear(t, leaves, ended) ==
  /\ store' = NoPair
  /\ user' = IF leaves THEN [user EXCEPT ![t] = None] ELSE user
  /\ disturbed' = disturbed \cup
       IF leaves /\ \A c \in InTab(t) \ ended : ~Asks(c) THEN Tabs \ {t} ELSE Tabs

\* The pair is changed under a refresh of the tab that is in flight.
Cross(t) == crossed' = IF refreshing[t] # NoPair THEN crossed \cup {t} ELSE crossed

\* refreshUser when it fails, and signOut whatever happens, clear the pair.
Leaving(ended) == \E c \in ended : calls[c].kind \in {"load", "renew", "logout"}
Fails(t, ended) ==
  /\ End(ended)
  /\ IF Leaving(ended)
     THEN Clear(t, TRUE, ended) /\ Cross(t)
     ELSE UNCHANGED <<store, user, history>>

-----------------------------------------------------------------------------
(* The tabs                                                                *)

\* The page is (re)loaded: everything the tab was waiting for is dropped and
\* AuthProvider asks who the stored pair belongs to, if there is one.
Reload(t) ==
  /\ Rare
  /\ calls' = [c \in Calls |-> CASE c = First(t) /\ store # NoPair -> Sent("load", store)
                                [] c \notin InTab(t) -> calls[c]
                                [] OTHER -> Idle]
  /\ swaps' = IF refreshing[t] = NoPair THEN swaps ELSE [swaps EXCEPT ![refreshing[t]].gone = TRUE]
  /\ refreshing' = [refreshing EXCEPT ![t] = NoPair]
  /\ user' = [user EXCEPT ![t] = None]
  /\ busy' = busy \ InTab(t)
  /\ crossed' = crossed \ {t} /\ disturbed' = disturbed \ {t}
  /\ UNCHANGED <<rows, store>>

\* The sign-in form is shown while nobody is signed in and the page is not
\* loading, whatever else the tab has in flight, and is disabled while it is
\* busy with an attempt.
Submit(c) ==
  /\ NextIdle(c)
  /\ user[TabOf[c]] = None
  /\ \A d \in InTab(TabOf[c]) : calls[d].kind # "load" /\ d \notin busy
  /\ calls' = [calls EXCEPT ![c] = Sent("sign", NoPair)]
  /\ busy' = busy \cup {c}
  /\ UNCHANGED <<rows, swaps, store, refreshing, user, history, rare>>

\* Mutant: signIn asks for the user with the new pair, and does not store it.
SignedInUnstored(c) ==
  /\ calls[c].kind = "sign"
  /\ \E p \in Pairs, u \in Users :
       /\ NextUnused(p)
       /\ Issue(p, u, rows)
       /\ calls' = [calls EXCEPT ![c] = Sent("me", p)]
  /\ disturbed' = Tabs \ {TabOf[c]}
  /\ Cross(TabOf[c])
  /\ UNCHANGED <<swaps, store, refreshing, user, busy, rare>>

\* login for an account, signup for a new email: a pair, which signIn stores
\* before it asks for the user.  Nobody else can hold it before that; the tab
\* may still show, or ask for, a user it was left with.
SignedIn(c) ==
  LET t == TabOf[c] IN
  /\ calls[c].kind = "sign"
  /\ \E p \in Pairs, u \in Users :
       /\ NextUnused(p)
       /\ Issue(p, u, rows)
       /\ store' = p
       /\ calls' = [calls EXCEPT ![c] = Sent("me", p)]
  /\ disturbed' = IF user[t] = None /\ \A d \in InTab(t) : ~Asks(d) THEN Tabs \ {t} ELSE Tabs
  /\ Cross(t)
  /\ UNCHANGED <<swaps, refreshing, user, busy, rare>>

\* The wrong one of the two, a wrong password or no answer: the form again.
SignInRefused(c) ==
  /\ calls[c].kind = "sign"
  /\ End({c})
  /\ UNCHANGED <<rows, swaps, store, refreshing, user, history, rare>>

\* A page of a signed-in user asks for something.
Ask(c) ==
  /\ NextIdle(c)
  /\ user[TabOf[c]] # None
  /\ calls' = [calls EXCEPT ![c] = Sent("page", store)]
  /\ UNCHANGED <<rows, swaps, store, refreshing, user, busy, history, rare>>

\* api.logout: nothing is sent when no pair is stored.
SignOut(c) ==
  /\ NextIdle(c)
  /\ user[TabOf[c]] # None
  /\ IF store = NoPair
     THEN Clear(TabOf[c], TRUE, {}) /\ UNCHANGED <<calls, crossed>>
     ELSE /\ calls' = [calls EXCEPT ![c] = Sent("logout", store)]
          /\ UNCHANGED <<store, user, history>>
  /\ UNCHANGED <<rows, swaps, refreshing, busy, rare>>

SignedOut(c) ==
  /\ calls[c].kind = "logout" /\ calls[c].stage = "served"
  /\ Fails(TabOf[c], {c})
  /\ UNCHANGED <<rows, swaps, refreshing, rare>>

\* A request with an access token that the server has not answered.
Authorised(c) == Asks(c) \/ calls[c].kind = "page"
Pending(c) == Authorised(c) /\ calls[c].stage \in {"sent", "again"}

\* current_user accepts the access token the call was sent with, and the tab
\* shows its user: the sign-in form goes.
Answered(c) ==
  /\ Pending(c) /\ Asks(c)
  /\ calls[c].pair # NoPair
  /\ calls' = [calls EXCEPT ![c] = Idle]
  /\ user' = [user EXCEPT ![TabOf[c]] = rows[calls[c].pair].user]
  /\ busy' = busy \ InTab(TabOf[c])
  /\ UNCHANGED <<rows, swaps, store, refreshing, history, rare>>

\* A page's request is over: whatever came of it changes nothing here, unless
\* it has saved the picks.  Then the onboarding page calls refreshUser, whoever
\* is signed in by now.
Served(c) ==
  /\ Pending(c) /\ calls[c].kind = "page"
  /\ \/ calls' = [calls EXCEPT ![c] = Idle] /\ UNCHANGED <<user, rare>>
     \/ /\ Rare /\ calls[c].pair # NoPair
        /\ IF store = NoPair
           THEN calls' = [calls EXCEPT ![c] = Idle] /\ user' = [user EXCEPT ![TabOf[c]] = None]
           ELSE calls' = [calls EXCEPT ![c] = Sent("renew", store)] /\ UNCHANGED user
  /\ UNCHANGED <<rows, swaps, store, refreshing, busy, history>>

\* A pair was issued for it already, or the user logged out with it.
Used(p) ==
  \/ rows[p].state = "out"
  \/ \E i \in Pairs : swaps[i].pair = p /\ swaps[i].stage = "issued"

\* refreshTokens finds none in flight, and a pair in the store.
StartSwap(c) ==
  \E i \in Pairs :
    /\ NextUnused(i)
    /\ swaps' = [swaps EXCEPT ![i] =
         [tab |-> TabOf[c], pair |-> store, late |-> Used(store), gone |-> FALSE, stage |-> "sent"]]
    /\ refreshing' = [refreshing EXCEPT ![TabOf[c]] = i]
    /\ calls' = [calls EXCEPT ![c].stage = "waiting"]
    /\ UNCHANGED <<store, user, busy, history>>

JoinSwap(c) ==
  /\ calls' = [calls EXCEPT ![c].stage = "waiting"]
  /\ UNCHANGED <<swaps, store, refreshing, user, busy, history>>

\* Mutant: every 401 starts a refresh of its own.
DeniedEach(c) ==
  LET first == calls[c].stage = "sent" IN
  /\ Pending(c)
  /\ \/ first /\ store # NoPair /\ StartSwap(c)
     \/ /\ ~first \/ store = NoPair
        /\ Fails(TabOf[c], {c})
        /\ UNCHANGED <<swaps, refreshing>>
  /\ UNCHANGED <<rows, rare>>

\* 401.  A first attempt joins the tab's refresh or starts one; a repeated
\* one, and any with no pair to refresh, fails.
Denied(c) ==
  LET first == calls[c].stage = "sent"
      swapping == refreshing[TabOf[c]] # NoPair IN
  /\ Pending(c)
  /\ \/ first /\ swapping /\ JoinSwap(c)
     \/ first /\ ~swapping /\ store # NoPair /\ StartSwap(c)
     \/ /\ ~first \/ (~swapping /\ store = NoPair)
        /\ Fails(TabOf[c], {c})
        /\ UNCHANGED <<swaps, refreshing>>
  /\ UNCHANGED <<rows, rare>>

\* The call is answered with an error, or not at all, before or after the
\* server has handled it.
Dropped(c) ==
  /\ (Pending(c) /\ Asks(c)) \/ calls[c].kind = "logout"
  /\ Rare
  /\ Fails(TabOf[c], {c})
  /\ UNCHANGED <<rows, swaps, refreshing>>

\* The refresh a tab waits for is over.
SwapOver(t) ==
  /\ refreshing' = [refreshing EXCEPT ![t] = NoPair]
  /\ crossed' = crossed \ {t}

\* It is granted: store the pair and send the waiting calls again.
SwapGranted(t) ==
  LET i == refreshing[t] IN
  /\ i # NoPair /\ swaps[i].stage = "issued"
  /\ store' = i
  /\ calls' = [c \in Calls |->
                IF c \notin Waiters(t) THEN calls[c]
                ELSE [calls[c] EXCEPT !.pair = i, !.stage = "again"]]
  /\ SwapOver(t)
  /\ disturbed' = disturbed \cup IF t \in crossed THEN Tabs ELSE Tabs \ {t}
  /\ UNCHANGED <<rows, swaps, user, busy, rare>>

\* Mutant: the refresh that was refused is not forgotten.
SwapRefusedKept(t) ==
  LET i == refreshing[t] IN
  /\ i # NoPair /\ swaps[i].stage = "refused"
  /\ End(Waiters(t))
  /\ Clear(t, Leaving(Waiters(t)), Waiters(t))
  /\ UNCHANGED <<rows, swaps, refreshing, crossed, rare>>

\* It is refused: clear the stored pair and fail the waiting calls.
SwapRefused(t) ==
  LET i == refreshing[t] IN
  /\ i # NoPair /\ swaps[i].stage = "refused"
  /\ End(Waiters(t))
  /\ Clear(t, Leaving(Waiters(t)), Waiters(t))
  /\ SwapOver(t)
  /\ UNCHANGED <<rows, swaps, rare>>

\* It is answered with another error (429, 5xx): the pair goes as if it had
\* been refused.  Or fetch throws: the pair stays, and the waiting calls fail.
SwapFailed(t) ==
  LET i == refreshing[t] IN
  /\ i # NoPair
  /\ Rare
  /\ End(Waiters(t))
  /\ \/ Clear(t, Leaving(Waiters(t)), Waiters(t))
     \/ ~Leaving(Waiters(t)) /\ UNCHANGED <<store, user, disturbed>>
  /\ SwapOver(t)
  /\ swaps' = [swaps EXCEPT ![i].gone = TRUE]
  /\ UNCHANGED rows

-----------------------------------------------------------------------------
(* The server                                                              *)

\* refresh reads the presented token, which may be past its expires_at.
RefreshRead(i) ==
  LET p == swaps[i].pair IN
  /\ swaps[i].stage = "sent"
  /\ \/ /\ rows[p].state = "live"
        /\ swaps' = [swaps EXCEPT ![i].stage = "read"]
        /\ UNCHANGED rows
     \/ /\ swaps' = [swaps EXCEPT ![i].stage = "refused"]
        /\ rows' = IF rows[p].state = "live" THEN [rows EXCEPT ![p].state = "expired"] ELSE rows
  /\ UNCHANGED <<browser, history, rare>>

\* Mutant: the presented token is not spent.
RefreshCommitUnspent(i) ==
  /\ swaps[i].stage = "read"
  /\ Issue(i, rows[swaps[i].pair].user, rows)
  /\ swaps' = [swaps EXCEPT ![i].stage = "issued"]
  /\ UNCHANGED <<browser, history, rare>>

\* refresh spends it, whatever happened to it meanwhile, and issues a pair.
RefreshCommit(i) ==
  LET p == swaps[i].pair IN
  /\ swaps[i].stage = "read"
  /\ Issue(i, rows[p].user, [rows EXCEPT ![p].state = "spent"])
  /\ swaps' = [swaps EXCEPT ![i].stage = "issued"]
  /\ UNCHANGED <<browser, history, rare>>

\* logout always answers 204.
LogoutServe(c) ==
  LET p == calls[c].pair IN
  /\ calls[c].kind = "logout" /\ calls[c].stage = "sent"
  /\ rows' = IF rows[p].state = "live" THEN [rows EXCEPT ![p].state = "out"] ELSE rows
  /\ calls' = [calls EXCEPT ![c].stage = "served"]
  /\ UNCHANGED <<swaps, store, refreshing, user, busy, history, rare>>

-----------------------------------------------------------------------------
TabStep(t) == Reload(t) \/ SwapGranted(t) \/ SwapRefused(t) \/ SwapFailed(t)

CallStep(c) ==
  \/ Submit(c) \/ SignedIn(c) \/ SignInRefused(c)
  \/ SignOut(c) \/ LogoutServe(c) \/ SignedOut(c)
  \/ Ask(c) \/ Served(c) \/ Answered(c) \/ Denied(c) \/ Dropped(c)

Next ==
  \/ \E t \in Tabs : TabStep(t)
  \/ \E c \in Calls : CallStep(c)
  \/ \E i \in Pairs : RefreshRead(i) \/ RefreshCommit(i)

\* The server handles a refresh it is sent; its answer arrives or is lost.
Fairness ==
  /\ WF_vars(\E i \in Pairs : RefreshRead(i) \/ RefreshCommit(i))
  /\ \A t \in Tabs : WF_vars(SwapGranted(t) \/ SwapRefused(t))

Spec == Init /\ [][Next]_vars /\ Fairness

-----------------------------------------------------------------------------
(* Properties                                                              *)

\* refresh, "Rotate: the presented token is spent": a call of /refresh that
\* is sent after its token was rotated or logged out never gets a pair,
\* whatever else the token's other requests are doing.
SpentStaysSpent == \A i \in Pairs : swaps[i].late => swaps[i].stage # "issued"

\* refreshTokens, "several 401s arriving at once produce one refresh": a tab
\* is only refused for a reason outside it.  The token expired, was logged
\* out, or was rotated for another tab or for an answer that never came.
Overtaken(i) ==
  \E j \in Pairs \ {i} :
    /\ swaps[j].pair = swaps[i].pair /\ swaps[j].stage = "issued"
    /\ swaps[j].tab # swaps[i].tab \/ swaps[j].gone
RefusedForCause ==
  \A i \in Pairs : swaps[i].stage = "refused" /\ ~swaps[i].gone =>
    rows[swaps[i].pair].state \in {"out", "expired"} \/ Overtaken(i)

\* AuthProvider and tokenStore agree: the user a tab shows is the owner of
\* the stored pair, unless since the tab last asked another one changed the
\* pair, or a refresh was refused or failed, or the tab was left with calls of
\* an earlier session: a refresh in flight when it cleared or stored a pair,
\* or a question who is signed in that it still waits to have answered.
ShownUserHoldsPair ==
  \A t \in Tabs \ disturbed :
    user[t] # None => store # NoPair /\ rows[store].user = user[t]

\* refreshTokens' finally: a refresh is over at some time, granted, refused
\* or lost, and the next 401 may start another.
RefreshEnds == \A t \in Tabs : refreshing[t] # NoPair ~> refreshing[t] = NoPair
=============================================================================
