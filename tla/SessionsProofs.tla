--------------------------- MODULE SessionsProofs --------------------------
(***************************************************************************)
(* Proofs about Sessions, for any users, tabs, calls and number of pairs.  *)
(***************************************************************************)
EXTENDS Sessions, TLAPS

\* Where a pair may stand with the calls of /refresh.  A pair that is stored
\* or presented has been issued, and no pair goes back; what a call was
\* issued, it alone was issued; a presented token is spent once a pair was
\* issued for it; a late call was late for good.
Typed ==
  /\ rows \in [Pairs -> Row]
  /\ swaps \in [Pairs -> Swap]
  /\ store \in Pairs \cup {NoPair}
  /\ refreshing \in [Tabs -> Pairs \cup {NoPair}]

SwapInv(i) ==
  /\ swaps[i].stage \in {"sent", "read", "refused"} => rows[i].state = "free"
  /\ swaps[i].stage = "issued" =>
       rows[i].state # "free" /\ rows[swaps[i].pair].state = "spent"
  /\ swaps[i].stage # "none" =>
       swaps[i].pair \in Pairs /\ rows[swaps[i].pair].state # "free"
  /\ swaps[i].late =>
       /\ swaps[i].stage \in {"sent", "refused"}
       /\ rows[swaps[i].pair].state \in {"out", "spent"}

Inv ==
  /\ Typed
  /\ store # NoPair => rows[store].state # "free"
  /\ \A i \in Pairs : SwapInv(i)

LEMMA PairsAreNumbers == NoPair \notin Pairs /\ Pairs \subseteq Nat
BY BoundsAssumption DEF NoPair, Pairs

LEMMA InitInv == Init => Inv
<1> SUFFICES ASSUME Init PROVE Inv
  OBVIOUS
<1>1. Typed
  BY DEF Init, Typed, Row, Swap
<1>2. QED
  BY <1>1 DEF Init, Inv, SwapInv

\* The tokens are left alone; the pair may be cleared, calls may be given up.
LEMMA BrowserStep ==
  ASSUME Inv, Typed', UNCHANGED rows, store' \in {store, NoPair},
         \A i \in Pairs : /\ swaps'[i].stage = swaps[i].stage
                          /\ swaps'[i].pair = swaps[i].pair
                          /\ swaps'[i].late = swaps[i].late
  PROVE  Inv'
<1>1. \A i \in Pairs : SwapInv(i)'
  BY DEF Inv, SwapInv
<1>2. QED
  BY <1>1 DEF Inv

LEMMA ClearStep ==
  ASSUME Inv, UNCHANGED <<rows, swaps>>, store' \in {store, NoPair},
         \/ UNCHANGED refreshing
         \/ \E t \in Tabs : refreshing' = [refreshing EXCEPT ![t] = NoPair]
  PROVE  Inv'
<1>1. Typed'
  BY DEF Inv, Typed
<1>2. QED
  BY <1>1, BrowserStep

LEMMA StartSwapStep ==
  ASSUME Inv, NEW c \in Calls, StartSwap(c), UNCHANGED rows, store # NoPair
  PROVE  Inv'
<1>1. PICK i \in Pairs :
        /\ NextUnused(i)
        /\ swaps' = [swaps EXCEPT ![i] =
             [tab |-> TabOf[c], pair |-> store, late |-> Used(store), gone |-> FALSE,
              stage |-> "sent"]]
        /\ refreshing' = [refreshing EXCEPT ![TabOf[c]] = i]
        /\ UNCHANGED store
  BY DEF StartSwap
<1>2. TabOf[c] \in Tabs
  BY CallsAssumption
<1>3. Used(store) \in BOOLEAN
  BY DEF Used
<1>4. Typed'
  BY <1>1, <1>2, <1>3 DEF Inv, Typed, Swap
<1>5. store \in Pairs /\ rows[store].state # "free"
  BY DEF Inv, Typed
<1>6. Used(store) => rows[store].state \in {"out", "spent"}
  BY DEF Used, Inv, SwapInv
<1>7. rows[i].state = "free"
  BY <1>1 DEF NextUnused, Unused
<1>8. ASSUME NEW j \in Pairs PROVE SwapInv(j)'
  <2>1. CASE j = i
    <3>1. /\ swaps'[j].stage = "sent" /\ swaps'[j].pair = store
          /\ swaps'[j].late = Used(store)
      BY <1>1, <2>1 DEF Inv, Typed
    <3>2. QED
      BY <3>1, <2>1, <1>5, <1>6, <1>7 DEF SwapInv
  <2>2. CASE j # i
    <3>1. swaps'[j] = swaps[j]
      BY <1>1, <2>2 DEF Inv, Typed
    <3>2. QED
      BY <3>1 DEF Inv, SwapInv
  <2>3. QED
    BY <2>1, <2>2
<1>9. QED
  BY <1>1, <1>4, <1>8 DEF Inv

\* No state of a pair turns back, so what SwapInv says of issued pairs stays.
LEMMA SignedInStep ==
  ASSUME Inv, NEW c \in Calls, SignedIn(c)
  PROVE  Inv'
<1>1. PICK p \in Pairs, u \in Users :
        NextUnused(p) /\ Issue(p, u, rows) /\ store' = p
  BY DEF SignedIn
<1>2. UNCHANGED <<swaps, refreshing>>
  BY DEF SignedIn
<1>3. rows' = [rows EXCEPT ![p] = [user |-> u, state |-> "live"]]
  BY <1>1 DEF Issue
<1>4. swaps[p].stage = "none" /\ rows[p].state = "free"
  BY <1>1 DEF NextUnused, Unused
<1>5. Typed'
  BY <1>1, <1>2, <1>3 DEF Inv, Typed, Row
<1>6. rows'[p].state = "live" /\ \A q \in Pairs \ {p} : rows'[q] = rows[q]
  BY <1>3 DEF Inv, Typed
<1>7. ASSUME NEW i \in Pairs PROVE SwapInv(i)'
  <2>1. CASE i = p
    <3>1. ~swaps[i].late
      BY <2>1, <1>4 DEF Inv, SwapInv
    <3>2. QED
      BY <3>1, <2>1, <1>2, <1>4 DEF SwapInv
  <2>2. CASE i # p
    BY <2>2, <1>2, <1>4, <1>6 DEF Inv, SwapInv
  <2>3. QED
    BY <2>1, <2>2
<1>8. QED
  BY <1>1, <1>5, <1>6, <1>7 DEF Inv

LEMMA RefreshReadStep ==
  ASSUME Inv, NEW i \in Pairs, RefreshRead(i)
  PROVE  Inv'
<1> DEFINE p == swaps[i].pair
<1>1. swaps[i].stage = "sent" /\ p \in Pairs /\ UNCHANGED <<store, refreshing>>
  BY DEF RefreshRead, Inv, SwapInv, browser
<1>2. CASE /\ rows[p].state = "live"
           /\ swaps' = [swaps EXCEPT ![i].stage = "read"]
           /\ UNCHANGED rows
  <2>1. Typed'
    BY <1>1, <1>2 DEF Inv, Typed, Swap
  <2>2. ASSUME NEW j \in Pairs PROVE SwapInv(j)'
    <3>1. /\ swaps'[j].pair = swaps[j].pair /\ swaps'[j].late = swaps[j].late
          /\ swaps'[j].stage = IF j = i THEN "read" ELSE swaps[j].stage
      BY <1>2 DEF Inv, Typed, Swap
    <3>2. QED
      BY <3>1, <1>1, <1>2 DEF Inv, SwapInv
  <2>3. QED
    BY <2>1, <2>2, <1>1, <1>2 DEF Inv
<1>3. CASE /\ swaps' = [swaps EXCEPT ![i].stage = "refused"]
           /\ rows' = IF rows[p].state = "live" THEN [rows EXCEPT ![p].state = "expired"] ELSE rows
  <2>1. Typed'
    BY <1>1, <1>3 DEF Inv, Typed, Swap, Row
  <2>2. \A q \in Pairs : /\ rows'[q].state = "free" <=> rows[q].state = "free"
                         /\ rows[q].state \in {"out", "spent"} => rows'[q] = rows[q]
    BY <1>1, <1>3 DEF Inv, Typed, Row
  <2>3. ASSUME NEW j \in Pairs PROVE SwapInv(j)'
    <3>1. /\ swaps'[j].pair = swaps[j].pair /\ swaps'[j].late = swaps[j].late
          /\ swaps'[j].stage = IF j = i THEN "refused" ELSE swaps[j].stage
      BY <1>3 DEF Inv, Typed, Swap
    <3>2. QED
      BY <3>1, <2>2, <1>1 DEF Inv, SwapInv
  <2>4. QED
    BY <2>1, <2>2, <2>3, <1>1 DEF Inv, Typed
<1>4. QED
  BY <1>2, <1>3 DEF RefreshRead

LEMMA RefreshCommitStep ==
  ASSUME Inv, NEW i \in Pairs, RefreshCommit(i)
  PROVE  Inv'
<1> DEFINE p == swaps[i].pair
<1>1. /\ swaps[i].stage = "read" /\ p \in Pairs
      /\ rows[i].state = "free" /\ rows[p].state # "free"
      /\ UNCHANGED <<store, refreshing>>
  BY DEF RefreshCommit, Inv, SwapInv, browser
<1>2. i # p
  BY <1>1
<1>3. rows' = [[rows EXCEPT ![p].state = "spent"] EXCEPT ![i] = [user |-> rows[p].user, state |-> "live"]]
  BY DEF RefreshCommit, Issue
<1>4. swaps' = [swaps EXCEPT ![i].stage = "issued"]
  BY DEF RefreshCommit
<1>5. Typed'
  <2>1. rows[p] \in Row /\ [rows[p] EXCEPT !.state = "spent"] \in Row
    BY <1>1 DEF Inv, Typed, Row
  <2>2. [user |-> rows[p].user, state |-> "live"] \in Row
    BY <2>1 DEF Row
  <2>3. rows' \in [Pairs -> Row]
    BY <2>1, <2>2, <1>3 DEF Inv, Typed
  <2>4. swaps' \in [Pairs -> Swap]
    BY <1>4 DEF Inv, Typed, Swap
  <2>5. QED
    BY <2>3, <2>4, <1>1 DEF Inv, Typed
<1>6. /\ rows'[i].state = "live" /\ rows'[p].state = "spent"
      /\ \A q \in Pairs \ {i, p} : rows'[q] = rows[q]
  BY <1>1, <1>2, <1>3 DEF Inv, Typed, Row
<1>7. ASSUME NEW j \in Pairs PROVE SwapInv(j)'
  <2>1. /\ swaps'[j].pair = swaps[j].pair /\ swaps'[j].late = swaps[j].late
        /\ swaps'[j].stage = IF j = i THEN "issued" ELSE swaps[j].stage
    BY <1>4 DEF Inv, Typed, Swap
  <2>2. CASE j = i
    <3>1. ~swaps[j].late
      BY <2>2, <1>1 DEF Inv, SwapInv
    <3>2. QED
      BY <3>1, <2>1, <2>2, <1>1, <1>6 DEF SwapInv
  <2>3. CASE j # i
    <3>1. SwapInv(j) /\ swaps'[j].stage = swaps[j].stage
      BY <2>1, <2>3 DEF Inv
    <3>2. swaps[j].stage \in {"sent", "read", "refused"} => j # p
      BY <3>1, <1>1 DEF SwapInv
    <3>3. QED
      BY <3>1, <3>2, <2>1, <2>3, <1>1, <1>6 DEF SwapInv
  <2>4. QED
    BY <2>2, <2>3
<1>8. store # NoPair => rows'[store].state # "free"
  BY <1>6 DEF Inv, Typed
<1>9. QED
  BY <1>1, <1>5, <1>7, <1>8 DEF Inv

LEMMA LogoutStep ==
  ASSUME Inv, NEW c \in Calls, LogoutServe(c)
  PROVE  Inv'
<1> DEFINE p == calls[c].pair
<1>1. /\ UNCHANGED <<swaps, store, refreshing>>
      /\ rows' = IF rows[p].state = "live" THEN [rows EXCEPT ![p].state = "out"] ELSE rows
  BY DEF LogoutServe
<1>2. Typed'
  BY <1>1 DEF Inv, Typed, Row
<1>3. \A q \in Pairs : /\ rows'[q].state = "free" <=> rows[q].state = "free"
                       /\ rows[q].state \in {"out", "spent"} => rows'[q] = rows[q]
  BY <1>1 DEF Inv, Typed, Row
<1>4. \A j \in Pairs : SwapInv(j)'
  BY <1>1, <1>3 DEF Inv, SwapInv
<1>5. QED
  BY <1>1, <1>2, <1>3, <1>4 DEF Inv, Typed

\* Calls given up: their tab does not wait for them any more.
LEMMA GoneStep ==
  ASSUME Inv, NEW t \in Tabs, Reload(t) \/ SwapFailed(t)
  PROVE  Inv'
<1> DEFINE Kept(i) == /\ swaps'[i].stage = swaps[i].stage
                      /\ swaps'[i].pair = swaps[i].pair
                      /\ swaps'[i].late = swaps[i].late
<1>1. UNCHANGED rows /\ refreshing' = [refreshing EXCEPT ![t] = NoPair]
  BY DEF Reload, SwapFailed, SwapOver
<1>2. store' \in {store, NoPair}
  BY DEF Reload, SwapFailed, Clear
<1>3. (\A i \in Pairs : Kept(i)) /\ swaps' \in [Pairs -> Swap]
  <2>1. swaps \in [Pairs -> Swap] /\ refreshing[t] \in Pairs \cup {NoPair}
    BY DEF Inv, Typed
  <2> DEFINE i == refreshing[t]
  <2>2. UNCHANGED swaps \/ (i # NoPair /\ swaps' = [swaps EXCEPT ![i].gone = TRUE])
    BY DEF Reload, SwapFailed
  <2>3. CASE i # NoPair /\ swaps' = [swaps EXCEPT ![i].gone = TRUE]
    <3>1. i \in Pairs
      BY <2>1, <2>3
    <3> HIDE DEF i
    <3>2. swaps' \in [Pairs -> Swap]
      BY <2>3, <3>1, <2>1 DEF Swap
    <3>3. \A j \in Pairs : Kept(j)
      BY <2>3, <3>1, <2>1 DEF Swap
    <3>4. QED
      BY <3>2, <3>3
  <2>4. QED
    BY <2>1, <2>2, <2>3
<1>4. Typed'
  BY <1>1, <1>2, <1>3 DEF Inv, Typed
<1>5. QED
  BY <1>1, <1>2, <1>3, <1>4, BrowserStep

LEMMA SwapGrantedStep ==
  ASSUME Inv, NEW t \in Tabs, SwapGranted(t)
  PROVE  Inv'
<1> DEFINE i == refreshing[t]
<1>1. /\ i # NoPair /\ swaps[i].stage = "issued" /\ store' = i
      /\ refreshing' = [refreshing EXCEPT ![t] = NoPair]
      /\ UNCHANGED <<rows, swaps>>
  BY DEF SwapGranted, SwapOver
<1>2. i \in Pairs
  BY <1>1 DEF Inv, Typed
<1>3. rows[i].state # "free"
  BY <1>1, <1>2 DEF Inv, SwapInv
<1>4. Typed'
  BY <1>1, <1>2 DEF Inv, Typed
<1>5. \A j \in Pairs : SwapInv(j)'
  BY <1>1 DEF Inv, SwapInv
<1>6. QED
  BY <1>1, <1>3, <1>4, <1>5 DEF Inv

LEMMA FailsClears ==
  ASSUME NEW t, NEW ended, Fails(t, ended)
  PROVE  store' \in {store, NoPair}
BY DEF Fails, Clear

LEMMA DeniedStep ==
  ASSUME Inv, NEW c \in Calls, Denied(c)
  PROVE  Inv'
<1>1. UNCHANGED rows
  BY DEF Denied
<1>2. CASE JoinSwap(c)
  BY <1>1, <1>2, ClearStep DEF JoinSwap
<1>3. CASE store # NoPair /\ StartSwap(c)
  BY <1>1, <1>3, StartSwapStep
<1>4. CASE Fails(TabOf[c], {c}) /\ UNCHANGED <<swaps, refreshing>>
  BY <1>1, <1>4, FailsClears, ClearStep
<1>5. QED
  BY <1>2, <1>3, <1>4 DEF Denied

LEMMA TabStepInv ==
  ASSUME Inv, NEW t \in Tabs, TabStep(t)
  PROVE  Inv'
<1>1. CASE SwapRefused(t)
  BY <1>1, ClearStep DEF SwapRefused, SwapOver, Clear
<1>2. QED
  BY <1>1, GoneStep, SwapGrantedStep DEF TabStep

LEMMA CallStepInv ==
  ASSUME Inv, NEW c \in Calls, CallStep(c)
  PROVE  Inv'
<1>1. CASE Submit(c) \/ SignInRefused(c) \/ Ask(c) \/ Served(c) \/ Answered(c)
  BY <1>1, ClearStep DEF Submit, SignInRefused, Ask, Served, Answered
<1>2. CASE SignOut(c)
  BY <1>2, ClearStep DEF SignOut, Clear
<1>3. CASE SignedOut(c) \/ Dropped(c)
  BY <1>3, FailsClears, ClearStep DEF SignedOut, Dropped
<1>4. QED
  BY <1>1, <1>2, <1>3, SignedInStep, LogoutStep, DeniedStep DEF CallStep

LEMMA NextInv == Inv /\ [Next]_vars => Inv'
<1> SUFFICES ASSUME Inv, [Next]_vars PROVE Inv'
  OBVIOUS
<1>1. CASE UNCHANGED vars
  BY <1>1, ClearStep DEF vars, browser
<1>2. CASE Next
  BY <1>2, TabStepInv, CallStepInv, RefreshReadStep, RefreshCommitStep DEF Next
<1>3. QED
  BY <1>1, <1>2

\* refresh, "the presented token is spent": for any number of tabs, requests
\* and pairs, a call sent after its token was rotated or logged out never
\* gets a pair.
THEOREM SpentTokensStaySpent == Spec => []SpentStaysSpent
<1>1. Inv => SpentStaysSpent
  BY DEF Inv, SwapInv, SpentStaysSpent
<1>2. QED
  BY <1>1, InitInv, NextInv, PTL DEF Spec

-----------------------------------------------------------------------------
(* One refresh in flight                                                   *)

\* A call that its tab is done with: what it presented is not stored again,
\* nor what the tab's next call presents.
Past(i) ==
  LET next == refreshing[swaps[i].tab] IN
  store # swaps[i].pair /\ (next # NoPair => swaps[next].pair # swaps[i].pair)

WaitingInv ==
  \A t \in Tabs : refreshing[t] # NoPair =>
    LET i == refreshing[t] IN
    swaps[i].tab = t /\ ~swaps[i].gone /\ swaps[i].stage # "none" /\ store # i

FlightInv(i) ==
  swaps[i].stage # "none" =>
    /\ swaps[i].tab \in Tabs
    /\ \A t \in Tabs : refreshing[t] # swaps[i].pair
    /\ swaps[i].stage \in {"sent", "read"} /\ ~swaps[i].gone => refreshing[swaps[i].tab] = i
    /\ ~swaps[i].gone /\ refreshing[swaps[i].tab] # i => Past(i)

SpentInv ==
  \A p \in Pairs : rows[p].state = "spent" =>
    \E j \in Pairs : swaps[j].pair = p /\ swaps[j].stage = "issued"

CauseInv == WaitingInv /\ (\A i \in Pairs : FlightInv(i)) /\ SpentInv /\ RefusedForCause

LEMMA InitCause == Init => CauseInv
<1> SUFFICES ASSUME Init PROVE CauseInv
  OBVIOUS
<1>1. WaitingInv /\ SpentInv
  BY DEF Init, WaitingInv, SpentInv
<1>2. (\A i \in Pairs : FlightInv(i)) /\ RefusedForCause
  BY DEF Init, FlightInv, RefusedForCause
<1>3. QED
  BY <1>1, <1>2 DEF CauseInv

\* As long as a pair that was out, expired or spent remains one of them for
\* the same reason, and calls are not handled, no call is refused anew.
LEMMA CauseKept ==
  ASSUME Inv, CauseInv, swaps' \in [Pairs -> Swap],
         \A p \in Pairs : /\ rows[p].state \in {"out", "expired", "spent"} => rows'[p] = rows[p]
                          /\ rows'[p].state = "spent" => rows[p].state = "spent",
         \A i \in Pairs :
           \/ swaps[i].stage = "none" /\ swaps'[i].stage = "sent"
           \/ /\ swaps'[i].stage = swaps[i].stage /\ swaps'[i].pair = swaps[i].pair
              /\ swaps'[i].tab = swaps[i].tab /\ (swaps[i].gone => swaps'[i].gone)
  PROVE  SpentInv' /\ RefusedForCause'
<1> DEFINE Same(i) == /\ swaps'[i].stage = swaps[i].stage /\ swaps'[i].pair = swaps[i].pair
                      /\ swaps'[i].tab = swaps[i].tab /\ (swaps[i].gone => swaps'[i].gone)
<1>1. \A i \in Pairs : swaps[i].stage \in {"issued", "refused"} \/ swaps'[i].stage = "refused" => Same(i)
  OBVIOUS
<1>2. SpentInv'
  <2> SUFFICES ASSUME NEW p \in Pairs, rows'[p].state = "spent"
               PROVE  \E j \in Pairs : swaps'[j].pair = p /\ swaps'[j].stage = "issued"
    BY DEF SpentInv
  <2>1. PICK j \in Pairs : swaps[j].pair = p /\ swaps[j].stage = "issued"
    BY DEF CauseInv, SpentInv
  <2>2. QED
    BY <2>1, <1>1
<1>3. RefusedForCause'
  <2> SUFFICES ASSUME NEW i \in Pairs, swaps'[i].stage = "refused", ~swaps'[i].gone
               PROVE  rows'[swaps'[i].pair].state \in {"out", "expired"} \/ Overtaken(i)'
    BY DEF RefusedForCause
  <2>1. Same(i) /\ swaps[i].stage = "refused" /\ ~swaps[i].gone
    BY <1>1
  <2>2. swaps[i].pair \in Pairs
    BY <2>1 DEF Inv, SwapInv
  <2>3. CASE rows[swaps[i].pair].state \in {"out", "expired"}
    BY <2>1, <2>2, <2>3
  <2>4. CASE Overtaken(i)
    <3>1. PICK j \in Pairs \ {i} :
            /\ swaps[j].pair = swaps[i].pair /\ swaps[j].stage = "issued"
            /\ swaps[j].tab # swaps[i].tab \/ swaps[j].gone
      BY <2>4 DEF Overtaken
    <3>2. Same(j)
      BY <3>1, <1>1
    <3>3. QED
      BY <3>1, <3>2, <2>1 DEF Overtaken
  <2>5. QED
    BY <2>1, <2>3, <2>4 DEF CauseInv, RefusedForCause
<1>4. QED
  BY <1>2, <1>3

\* Steps that leave the calls of /refresh and who waits for them alone.
LEMMA CauseClearStep ==
  ASSUME Inv, CauseInv, UNCHANGED <<rows, swaps, refreshing>>, store' \in {store, NoPair}
  PROVE  CauseInv'
<1>1. WaitingInv'
  BY DEF CauseInv, WaitingInv
<1>2. \A i \in Pairs : FlightInv(i)'
  BY PairsAreNumbers DEF CauseInv, FlightInv, Past, Inv, SwapInv
<1>3. SpentInv' /\ RefusedForCause'
  BY CauseKept DEF Inv, Typed
<1>4. QED
  BY <1>1, <1>2, <1>3 DEF CauseInv

LEMMA CauseSignedIn ==
  ASSUME Inv, CauseInv, NEW c \in Calls, SignedIn(c)
  PROVE  CauseInv'
<1>1. PICK p \in Pairs, u \in Users :
        NextUnused(p) /\ Issue(p, u, rows) /\ store' = p
  BY DEF SignedIn
<1>2. UNCHANGED <<swaps, refreshing>>
  BY DEF SignedIn
<1>3. rows' = [rows EXCEPT ![p] = [user |-> u, state |-> "live"]]
  BY <1>1 DEF Issue
<1>4. swaps[p].stage = "none" /\ rows[p].state = "free"
  BY <1>1 DEF NextUnused, Unused
<1>5. WaitingInv'
  BY <1>1, <1>2, <1>4 DEF CauseInv, WaitingInv
<1>6. ASSUME NEW i \in Pairs PROVE FlightInv(i)'
  <2>1. swaps[i].stage # "none" => p # swaps[i].pair
    BY <1>4 DEF Inv, SwapInv
  <2>2. QED
    BY <2>1, <1>1, <1>2 DEF CauseInv, FlightInv, Past
<1>7. SpentInv' /\ RefusedForCause'
  <2>1. \A q \in Pairs : rows'[q] = rows[q] \/ (rows[q].state = "free" /\ rows'[q].state = "live")
    BY <1>3, <1>4 DEF Inv, Typed
  <2>2. QED
    BY <2>1, <1>2, CauseKept DEF Inv, Typed
<1>8. QED
  BY <1>5, <1>6, <1>7 DEF CauseInv

LEMMA CauseStartSwap ==
  ASSUME Inv, CauseInv, NEW c \in Calls, StartSwap(c), UNCHANGED rows, store # NoPair,
         refreshing[TabOf[c]] = NoPair
  PROVE  CauseInv'
<1> DEFINE t == TabOf[c]
<1>1. PICK i \in Pairs :
        /\ NextUnused(i)
        /\ swaps' = [swaps EXCEPT ![i] =
             [tab |-> t, pair |-> store, late |-> Used(store), gone |-> FALSE, stage |-> "sent"]]
        /\ refreshing' = [refreshing EXCEPT ![t] = i]
        /\ UNCHANGED store
  BY DEF StartSwap
<1>2. t \in Tabs
  BY CallsAssumption
<1>3. swaps[i].stage = "none" /\ rows[i].state = "free"
  BY <1>1 DEF NextUnused, Unused
<1>4. store \in Pairs /\ rows[store].state # "free" /\ i # store
  BY <1>3 DEF Inv, Typed
<1>5. /\ swaps'[i].tab = t /\ swaps'[i].pair = store /\ ~swaps'[i].gone
      /\ swaps'[i].stage = "sent" /\ \A j \in Pairs \ {i} : swaps'[j] = swaps[j]
  BY <1>1 DEF Inv, Typed
<1>6. refreshing'[t] = i /\ \A r \in Tabs \ {t} : refreshing'[r] = refreshing[r]
  BY <1>1, <1>2 DEF Inv, Typed
<1>7. \A r \in Tabs : refreshing[r] \in Pairs \cup {NoPair} /\ refreshing[r] # i
  BY <1>3 , PairsAreNumbers DEF Inv, Typed, CauseInv, WaitingInv
<1>8. WaitingInv'
  BY <1>1, <1>2, <1>4, <1>5, <1>6, <1>7 DEF CauseInv, WaitingInv
<1>9. ASSUME NEW j \in Pairs PROVE FlightInv(j)'
  <2>1. CASE j = i
    <3>1. \A r \in Tabs : refreshing'[r] # store
      BY <1>4, <1>6, <1>2 DEF CauseInv, WaitingInv
    <3>2. QED
      BY <3>1, <2>1, <1>2, <1>5, <1>6 DEF FlightInv
  <2>2. CASE j # i /\ swaps[j].stage # "none"
    <3>1. /\ swaps'[j] = swaps[j] /\ swaps[j].tab \in Tabs
          /\ \A r \in Tabs : refreshing[r] # swaps[j].pair
      BY <2>2, <1>5 DEF CauseInv, FlightInv
    <3>2. i # swaps[j].pair
      BY <2>2, <1>3 DEF Inv, SwapInv
    <3>3. CASE swaps[j].tab = t
      <4>1. swaps[j].stage \in {"sent", "read"} => swaps[j].gone
        BY <3>3, <2>2, PairsAreNumbers DEF CauseInv, FlightInv
      <4>2. ~swaps[j].gone => store # swaps[j].pair
        BY <3>3, <2>2, PairsAreNumbers DEF CauseInv, FlightInv, Past
      <4>3. ~swaps'[j].gone => Past(j)'
        BY <4>2, <3>1, <3>3, <1>1, <1>5, <1>6 DEF Past
      <4>4. QED
        BY <4>1, <4>3, <3>1, <3>2, <1>2, <1>6 DEF FlightInv
    <3>4. CASE swaps[j].tab # t
      <4>1. refreshing'[swaps[j].tab] = refreshing[swaps[j].tab]
        BY <3>1, <3>4, <1>6
      <4>2. Past(j) => Past(j)'
        BY <4>1, <3>1, <1>1, <1>5, <1>7 DEF Past
      <4>3. QED
        BY <4>1, <4>2, <3>1, <3>2, <2>2, <1>2, <1>6 DEF CauseInv, FlightInv
    <3>5. QED
      BY <3>3, <3>4
  <2>3. CASE j # i /\ swaps[j].stage = "none"
    BY <2>3, <1>5 DEF FlightInv
  <2>4. QED
    BY <2>1, <2>2, <2>3
<1>10. SpentInv' /\ RefusedForCause'
  <2>1. swaps' \in [Pairs -> Swap]
    BY StartSwapStep DEF Inv, Typed
  <2>2. QED
    BY <2>1, <1>3, <1>5, CauseKept
<1>11. QED
  BY <1>8, <1>9, <1>10 DEF CauseInv

\* A tab hears the answer, or stops waiting for it: either way it is done
\* with what it presented.
LEMMA CauseSwapOver ==
  ASSUME Inv, CauseInv, NEW t \in Tabs, refreshing[t] # NoPair,
         UNCHANGED <<rows, swaps>>,
         refreshing' = [refreshing EXCEPT ![t] = NoPair],
         \/ swaps[refreshing[t]].stage = "issued" /\ store' = refreshing[t]
         \/ swaps[refreshing[t]].stage = "refused" /\ store' = NoPair
  PROVE  CauseInv'
<1> DEFINE i == refreshing[t]
<1>1. /\ i \in Pairs /\ swaps[i].tab = t /\ swaps[i].stage # "none"
      /\ swaps[i].pair \in Pairs /\ swaps[i].pair # i
  <2>1. i \in Pairs
    BY DEF Inv, Typed
  <2>2. swaps[i].tab = t /\ swaps[i].stage # "none"
    BY DEF CauseInv, WaitingInv
  <2>3. swaps[i].pair \in Pairs
    BY <2>1, <2>2 DEF Inv, SwapInv
  <2>4. refreshing[t] # swaps[i].pair
    BY <2>1, <2>2 DEF CauseInv, FlightInv
  <2>5. QED
    BY <2>1, <2>2, <2>3, <2>4
<1>2. refreshing'[t] = NoPair /\ \A r \in Tabs \ {t} : refreshing'[r] = refreshing[r] /\ refreshing[r] # i
  BY <1>1 DEF Inv, Typed, CauseInv, WaitingInv
<1> HIDE DEF i
<1>3. store' \in {i, NoPair}
  BY DEF i
<1>4. WaitingInv'
  <2>1. ASSUME NEW r \in Tabs, refreshing'[r] # NoPair
        PROVE  LET k == refreshing'[r] IN
               swaps'[k].tab = r /\ ~swaps'[k].gone /\ swaps'[k].stage # "none" /\ store' # k
    BY <2>1, <1>2, <1>3 DEF CauseInv, WaitingInv
  <2>2. QED
    BY <2>1 DEF WaitingInv
<1>5. ASSUME NEW j \in Pairs, swaps[j].stage # "none" PROVE FlightInv(j)'
  <2>1. /\ swaps[j].tab \in Tabs /\ swaps[j].pair \in Pairs
        /\ \A r \in Tabs : refreshing[r] # swaps[j].pair
    BY <1>5 DEF Inv, SwapInv, CauseInv, FlightInv
  <2>2. store' # swaps[j].pair
    BY <2>1, <1>3, PairsAreNumbers DEF i
  <2>3. CASE swaps[j].tab = t
    <3>1. Past(j)'
      BY <2>2, <2>3, <1>2 DEF Past
    <3>2. swaps[j].stage \in {"sent", "read"} => swaps[j].gone
      <4>1. ~swaps[j].gone /\ swaps[j].stage \in {"sent", "read"} => j = i
        BY <1>5, <2>3 DEF CauseInv, FlightInv, i
      <4>2. swaps[i].stage \in {"issued", "refused"}
        BY DEF i
      <4>3. QED
        BY <4>1, <4>2
    <3>3. QED
      BY <3>1, <3>2, <2>1, <1>2, PairsAreNumbers DEF FlightInv
  <2>4. CASE swaps[j].tab # t
    <3>1. refreshing'[swaps[j].tab] = refreshing[swaps[j].tab]
      BY <2>1, <2>4, <1>2
    <3>2. Past(j) => Past(j)'
      BY <2>2, <3>1 DEF Past
    <3>3. QED
      BY <1>5, <2>1, <3>1, <3>2, <1>2, PairsAreNumbers DEF CauseInv, FlightInv
  <2>5. QED
    BY <2>3, <2>4
<1>6. \A j \in Pairs : swaps[j].stage = "none" => FlightInv(j)'
  BY DEF FlightInv
<1>7. SpentInv' /\ RefusedForCause'
  BY CauseKept DEF Inv, Typed
<1>8. QED
  BY <1>4, <1>5, <1>6, <1>7 DEF CauseInv

LEMMA CauseGone ==
  ASSUME Inv, CauseInv, NEW t \in Tabs, Reload(t) \/ SwapFailed(t)
  PROVE  CauseInv'
<1> DEFINE i == refreshing[t]
<1>1. /\ UNCHANGED rows /\ refreshing' = [refreshing EXCEPT ![t] = NoPair]
      /\ store' \in {store, NoPair}
      /\ swaps' = IF i = NoPair THEN swaps ELSE [swaps EXCEPT ![i].gone = TRUE]
  <2>1. CASE Reload(t)
    <3>1. swaps' = IF i = NoPair THEN swaps ELSE [swaps EXCEPT ![i].gone = TRUE]
      BY <2>1 DEF Reload
    <3>2. QED
      BY <2>1, <3>1 DEF Reload
  <2>2. CASE SwapFailed(t)
    <3>1. i # NoPair /\ swaps' = [swaps EXCEPT ![i].gone = TRUE]
      BY <2>2 DEF SwapFailed
    <3>2. swaps' = IF i = NoPair THEN swaps ELSE [swaps EXCEPT ![i].gone = TRUE]
      BY <3>1
    <3>3. QED
      BY <2>2, <3>2 DEF SwapFailed, SwapOver, Clear
  <2>3. QED
    BY <2>1, <2>2
<1>2. i \in Pairs \cup {NoPair}
  BY DEF Inv, Typed
<1>3. refreshing'[t] = NoPair /\ \A r \in Tabs \ {t} : refreshing'[r] = refreshing[r]
  BY <1>1 DEF Inv, Typed
<1>4. swaps' \in [Pairs -> Swap]
  BY GoneStep DEF Inv, Typed
<1>5. \A j \in Pairs : /\ swaps'[j].stage = swaps[j].stage /\ swaps'[j].pair = swaps[j].pair
                       /\ swaps'[j].tab = swaps[j].tab
                       /\ swaps'[j].gone = (swaps[j].gone \/ j = i)
  <2>1. \A j \in Pairs : swaps[j] \in Swap
    BY DEF Inv, Typed
  <2>2. CASE i = NoPair
    BY <2>1, <2>2, <1>1, PairsAreNumbers DEF Swap
  <2>3. CASE i # NoPair
    <3>1. i \in Pairs /\ swaps' = [swaps EXCEPT ![i].gone = TRUE]
      BY <2>3, <1>1, <1>2
    <3> HIDE DEF i
    <3>2. QED
      BY <3>1, <2>1 DEF Swap, Inv, Typed
  <2>4. QED
    BY <2>2, <2>3
<1>6. \A r \in Tabs \ {t} : refreshing[r] # NoPair => refreshing[r] # i
  BY <1>2 DEF CauseInv, WaitingInv
<1>7. \A r \in Tabs : refreshing[r] \in Pairs \cup {NoPair}
  BY DEF Inv, Typed
<1>8. WaitingInv'
  <2>1. ASSUME NEW r \in Tabs, refreshing'[r] # NoPair
        PROVE  LET k == refreshing'[r] IN
               swaps'[k].tab = r /\ ~swaps'[k].gone /\ swaps'[k].stage # "none" /\ store' # k
    <3>1. r # t /\ refreshing'[r] = refreshing[r] /\ refreshing[r] \in Pairs
      BY <2>1, <1>3, <1>7
    <3>2. QED
      BY <3>1, <2>1, <1>1, <1>5, <1>6 DEF CauseInv, WaitingInv
  <2>2. QED
    BY <2>1 DEF WaitingInv
<1>9. ASSUME NEW j \in Pairs, swaps[j].stage # "none" PROVE FlightInv(j)'
  <2>1. /\ swaps[j].tab \in Tabs /\ swaps[j].pair \in Pairs
        /\ \A r \in Tabs : refreshing[r] # swaps[j].pair
    BY <1>9 DEF Inv, SwapInv, CauseInv, FlightInv
  <2>2. CASE swaps[j].tab = t
    <3>1. CASE j = i
      <4>1. swaps'[j].gone
        BY <3>1, <1>5
      <4>2. QED
        BY <4>1, <2>1, <1>3, <1>5, PairsAreNumbers DEF FlightInv
    <3>2. CASE j # i
      <4>1. swaps[j].gone \/ (swaps[j].stage \notin {"sent", "read"} /\ Past(j))
        BY <2>2, <3>2, <1>9 DEF CauseInv, FlightInv
      <4>2. Past(j) => Past(j)'
        BY <2>1, <2>2, <1>1, <1>3, <1>5, PairsAreNumbers DEF Past
      <4>3. QED
        BY <4>1, <4>2, <2>1, <1>3, <1>5, PairsAreNumbers DEF FlightInv
    <3>3. QED
      BY <3>1, <3>2
  <2>3. CASE swaps[j].tab # t
    <3>1. refreshing'[swaps[j].tab] = refreshing[swaps[j].tab]
      BY <2>1, <2>3, <1>3
    <3>2. Past(j) => Past(j)'
      BY <3>1, <2>1, <1>1, <1>5, <1>7, PairsAreNumbers DEF Past
    <3>3. QED
      BY <1>9, <3>1, <3>2, <2>1, <1>3, <1>5, PairsAreNumbers DEF CauseInv, FlightInv
  <2>4. QED
    BY <2>2, <2>3
<1>10. \A j \in Pairs : swaps[j].stage = "none" => FlightInv(j)'
  BY <1>5 DEF FlightInv
<1>11. SpentInv' /\ RefusedForCause'
  BY <1>1, <1>4, <1>5, CauseKept
<1>12. QED
  BY <1>8, <1>9, <1>10, <1>11 DEF CauseInv

\* A handler of /refresh decides; nothing in the browser moves.
LEMMA HandledFlights ==
  ASSUME Inv, CauseInv, NEW i \in Pairs, swaps[i].stage \in {"sent", "read"},
         NEW stage \in {"read", "issued", "refused"},
         swaps' = [swaps EXCEPT ![i].stage = stage],
         UNCHANGED <<store, refreshing>>
  PROVE  /\ WaitingInv' /\ \A j \in Pairs : FlightInv(j)'
         /\ swaps'[i].stage = stage /\ \A j \in Pairs \ {i} : swaps'[j] = swaps[j]
         /\ \A j \in Pairs : /\ swaps'[j].pair = swaps[j].pair /\ swaps'[j].tab = swaps[j].tab
                             /\ swaps'[j].gone = swaps[j].gone
         /\ \A j \in Pairs \ {i} :
              /\ swaps[j].pair = swaps[i].pair /\ swaps[j].stage \in {"issued", "refused"}
              /\ ~swaps[j].gone /\ ~swaps[i].gone
              => swaps[j].tab # swaps[i].tab
<1>1. /\ swaps'[i].stage = stage /\ \A j \in Pairs \ {i} : swaps'[j] = swaps[j]
      /\ \A j \in Pairs : /\ swaps'[j].pair = swaps[j].pair /\ swaps'[j].tab = swaps[j].tab
                          /\ swaps'[j].gone = swaps[j].gone
  BY DEF Inv, Typed, Swap
<1>2. \A r \in Tabs : refreshing[r] \in Pairs \cup {NoPair}
  BY DEF Inv, Typed
<1>3. WaitingInv'
  BY <1>1, <1>2 DEF CauseInv, WaitingInv
<1>4. ASSUME NEW j \in Pairs, swaps[j].stage # "none" PROVE FlightInv(j)'
  <2>1. swaps[j].tab \in Tabs
    BY <1>4 DEF CauseInv, FlightInv
  <2>2. Past(j) => Past(j)'
    BY <2>1, <1>1, <1>2 DEF Past
  <2>3. CASE j = i
    BY <2>2, <2>3, <1>1 DEF CauseInv, FlightInv
  <2>4. CASE j # i
    BY <2>2, <2>4, <1>1, <1>4 DEF CauseInv, FlightInv
  <2>5. QED
    BY <2>3, <2>4
<1>5. \A j \in Pairs : swaps[j].stage = "none" => FlightInv(j)'
  BY <1>1 DEF FlightInv
<1>6. ASSUME NEW j \in Pairs \ {i}, swaps[j].pair = swaps[i].pair,
             swaps[j].stage \in {"issued", "refused"}, ~swaps[j].gone, ~swaps[i].gone,
             swaps[j].tab = swaps[i].tab
      PROVE  FALSE
  <2>1. refreshing[swaps[i].tab] = i
    BY <1>6 DEF CauseInv, FlightInv
  <2>2. Past(j)
    BY <2>1, <1>6 DEF CauseInv, FlightInv
  <2>3. QED
    BY <2>1, <2>2, <1>6, PairsAreNumbers DEF Past
<1>7. QED
  BY <1>1, <1>3, <1>4, <1>5, <1>6

LEMMA CauseRefreshRead ==
  ASSUME Inv, CauseInv, NEW i \in Pairs, RefreshRead(i)
  PROVE  CauseInv'
<1> DEFINE p == swaps[i].pair
<1>1. /\ swaps[i].stage = "sent" /\ p \in Pairs /\ rows[p].state # "free"
      /\ UNCHANGED <<store, refreshing>>
  BY DEF RefreshRead, Inv, SwapInv, browser
<1>2. \/ swaps' = [swaps EXCEPT ![i].stage = "read"] /\ UNCHANGED rows
      \/ /\ swaps' = [swaps EXCEPT ![i].stage = "refused"]
         /\ rows' = IF rows[p].state = "live" THEN [rows EXCEPT ![p].state = "expired"] ELSE rows
  BY DEF RefreshRead
<1>3. PICK stage \in {"read", "refused"} : swaps' = [swaps EXCEPT ![i].stage = stage]
  BY <1>2
<1>4. /\ WaitingInv' /\ \A j \in Pairs : FlightInv(j)'
      /\ swaps'[i].stage = stage /\ \A j \in Pairs \ {i} : swaps'[j] = swaps[j]
      /\ \A j \in Pairs : /\ swaps'[j].pair = swaps[j].pair /\ swaps'[j].tab = swaps[j].tab
                          /\ swaps'[j].gone = swaps[j].gone
      /\ \A j \in Pairs \ {i} :
           /\ swaps[j].pair = p /\ swaps[j].stage \in {"issued", "refused"}
           /\ ~swaps[j].gone /\ ~swaps[i].gone
           => swaps[j].tab # swaps[i].tab
  BY <1>1, <1>3, HandledFlights
<1>5. \A q \in Pairs : /\ rows[q].state # "live" => rows'[q] = rows[q]
                       /\ rows'[q].state \in {rows[q].state, "expired"}
  BY <1>1, <1>2 DEF Inv, Typed, Row
<1>6. SpentInv'
  <2> SUFFICES ASSUME NEW q \in Pairs, rows'[q].state = "spent"
               PROVE  \E j \in Pairs : swaps'[j].pair = q /\ swaps'[j].stage = "issued"
    BY DEF SpentInv
  <2>1. PICK j \in Pairs : swaps[j].pair = q /\ swaps[j].stage = "issued"
    BY <1>5 DEF CauseInv, SpentInv
  <2>2. QED
    BY <2>1, <1>1, <1>4
<1>7. RefusedForCause'
  <2> SUFFICES ASSUME NEW k \in Pairs, swaps'[k].stage = "refused", ~swaps'[k].gone
               PROVE  rows'[swaps'[k].pair].state \in {"out", "expired"} \/ Overtaken(k)'
    BY DEF RefusedForCause
  <2>1. CASE k = i
    <3>1. rows'[p].state # "live" /\ rows'[p].state # "free"
      <4>1. stage = "refused"
        BY <2>1, <1>4
      <4>2. swaps'[i].stage # "read"
        BY <4>1, <1>4
      <4>3. rows' = IF rows[p].state = "live" THEN [rows EXCEPT ![p].state = "expired"] ELSE rows
        BY <4>2, <1>2 DEF Inv, Typed, Swap
      <4>4. QED
        BY <4>3, <1>1 DEF Inv, Typed, Row
    <3>2. rows'[p].state \in {"spent", "out", "expired"}
      <4>1. rows'[p].state \in {rows[p].state, "expired"} /\ rows[p] \in Row
        BY <1>1, <1>5 DEF Inv, Typed
      <4>2. QED
        BY <4>1, <3>1 DEF Row
    <3>3. CASE rows'[p].state = "spent"
      <4>1. PICK j \in Pairs : swaps[j].pair = p /\ swaps[j].stage = "issued"
        BY <3>3, <1>1, <1>5 DEF CauseInv, SpentInv
      <4>2. j # i
        BY <4>1, <1>1
      <4>3. swaps[j].tab # swaps[i].tab \/ swaps[j].gone
        BY <4>1, <4>2, <2>1, <1>4
      <4>4. QED
        BY <4>1, <4>2, <4>3, <2>1, <1>4 DEF Overtaken
    <3>4. QED
      BY <3>2, <3>3, <2>1, <1>4
  <2>2. CASE k # i
    <3>1. swaps[k] = swaps'[k] /\ swaps[k].pair \in Pairs
      BY <2>2, <1>4 DEF Inv, SwapInv
    <3>2. CASE Overtaken(k)
      <4>1. PICK j \in Pairs \ {k} :
              /\ swaps[j].pair = swaps[k].pair /\ swaps[j].stage = "issued"
              /\ swaps[j].tab # swaps[k].tab \/ swaps[j].gone
        BY <3>2 DEF Overtaken
      <4>2. swaps'[j] = swaps[j]
        BY <4>1, <1>1, <1>4
      <4>3. QED
        BY <4>1, <4>2, <3>1 DEF Overtaken
    <3>3. CASE rows[swaps[k].pair].state \in {"out", "expired"}
      BY <3>1, <3>3, <1>5
    <3>4. QED
      BY <3>1, <3>2, <3>3 DEF CauseInv, RefusedForCause
  <2>3. QED
    BY <2>1, <2>2
<1>8. QED
  BY <1>4, <1>6, <1>7 DEF CauseInv

LEMMA CauseRefreshCommit ==
  ASSUME Inv, CauseInv, NEW i \in Pairs, RefreshCommit(i)
  PROVE  CauseInv'
<1> DEFINE p == swaps[i].pair
<1>1. /\ swaps[i].stage = "read" /\ p \in Pairs
      /\ rows[i].state = "free" /\ rows[p].state # "free" /\ i # p
      /\ UNCHANGED <<store, refreshing>>
  BY DEF RefreshCommit, Inv, SwapInv, browser
<1>2. /\ swaps' = [swaps EXCEPT ![i].stage = "issued"]
      /\ rows' = [[rows EXCEPT ![p].state = "spent"] EXCEPT ![i] = [user |-> rows[p].user, state |-> "live"]]
  BY DEF RefreshCommit, Issue
<1>3. /\ rows'[i].state = "live" /\ rows'[p].state = "spent"
      /\ \A q \in Pairs \ {i, p} : rows'[q] = rows[q]
  BY <1>1, <1>2 DEF Inv, Typed, Row
<1>4. /\ WaitingInv' /\ \A j \in Pairs : FlightInv(j)'
      /\ swaps'[i].stage = "issued" /\ \A j \in Pairs \ {i} : swaps'[j] = swaps[j]
      /\ \A j \in Pairs : /\ swaps'[j].pair = swaps[j].pair /\ swaps'[j].tab = swaps[j].tab
                          /\ swaps'[j].gone = swaps[j].gone
      /\ \A j \in Pairs \ {i} :
           /\ swaps[j].pair = p /\ swaps[j].stage \in {"issued", "refused"}
           /\ ~swaps[j].gone /\ ~swaps[i].gone
           => swaps[j].tab # swaps[i].tab
  BY <1>1, <1>2, HandledFlights
<1>5. SpentInv'
  <2> SUFFICES ASSUME NEW q \in Pairs, rows'[q].state = "spent"
               PROVE  \E j \in Pairs : swaps'[j].pair = q /\ swaps'[j].stage = "issued"
    BY DEF SpentInv
  <2>1. CASE q = p
    BY <2>1, <1>4
  <2>2. CASE q # p
    <3>1. rows[q].state = "spent"
      BY <2>2, <1>3
    <3>2. PICK j \in Pairs : swaps[j].pair = q /\ swaps[j].stage = "issued"
      BY <3>1 DEF CauseInv, SpentInv
    <3>3. QED
      BY <3>2, <1>1, <1>4
  <2>3. QED
    BY <2>1, <2>2
<1>6. RefusedForCause'
  <2> SUFFICES ASSUME NEW k \in Pairs, swaps'[k].stage = "refused", ~swaps'[k].gone
               PROVE  rows'[swaps'[k].pair].state \in {"out", "expired"} \/ Overtaken(k)'
    BY DEF RefusedForCause
  <2>1. /\ k # i /\ swaps'[k] = swaps[k] /\ swaps[k].pair \in Pairs
        /\ rows[swaps[k].pair].state # "free"
    BY <1>4 DEF Inv, SwapInv
  <2>2. CASE swaps[k].pair = p
    <3>1. swaps[k].tab # swaps[i].tab \/ swaps[i].gone
      BY <2>1, <2>2, <1>4
    <3>2. QED
      BY <3>1, <2>1, <2>2, <1>4 DEF Overtaken
  <2>3. CASE swaps[k].pair # p
    <3>1. rows'[swaps[k].pair] = rows[swaps[k].pair]
      BY <2>1, <2>3, <1>1, <1>3
    <3>2. CASE Overtaken(k)
      <4>1. PICK j \in Pairs \ {k} :
              /\ swaps[j].pair = swaps[k].pair /\ swaps[j].stage = "issued"
              /\ swaps[j].tab # swaps[k].tab \/ swaps[j].gone
        BY <3>2 DEF Overtaken
      <4>2. swaps'[j] = swaps[j]
        BY <4>1, <1>1, <1>4
      <4>3. QED
        BY <4>1, <4>2, <2>1 DEF Overtaken
    <3>3. QED
      BY <3>1, <3>2, <2>1 DEF CauseInv, RefusedForCause
  <2>4. QED
    BY <2>2, <2>3
<1>7. QED
  BY <1>4, <1>5, <1>6 DEF CauseInv

LEMMA CauseLogout ==
  ASSUME Inv, CauseInv, NEW c \in Calls, LogoutServe(c)
  PROVE  CauseInv'
<1> DEFINE p == calls[c].pair
<1>1. /\ UNCHANGED <<swaps, store, refreshing>>
      /\ rows' = IF rows[p].state = "live" THEN [rows EXCEPT ![p].state = "out"] ELSE rows
  BY DEF LogoutServe
<1>2. \A q \in Pairs : /\ rows[q].state # "live" => rows'[q] = rows[q]
                       /\ rows'[q].state \in {rows[q].state, "out"}
  BY <1>1 DEF Inv, Typed, Row
<1>3. WaitingInv' /\ \A j \in Pairs : FlightInv(j)'
  BY <1>1 DEF CauseInv, WaitingInv, FlightInv, Past
<1>4. SpentInv' /\ RefusedForCause'
  <2>1. \A q \in Pairs : /\ rows[q].state \in {"out", "expired", "spent"} => rows'[q] = rows[q]
                         /\ rows'[q].state = "spent" => rows[q].state = "spent"
    BY <1>2
  <2>2. QED
    BY <2>1, <1>1, CauseKept DEF Inv, Typed
<1>5. QED
  BY <1>3, <1>4 DEF CauseInv

LEMMA CauseDenied ==
  ASSUME Inv, CauseInv, NEW c \in Calls, Denied(c)
  PROVE  CauseInv'
<1>1. UNCHANGED rows
  BY DEF Denied
<1>2. CASE JoinSwap(c)
  BY <1>1, <1>2, CauseClearStep DEF JoinSwap
<1>3. CASE refreshing[TabOf[c]] = NoPair /\ store # NoPair /\ StartSwap(c)
  BY <1>1, <1>3, CauseStartSwap
<1>4. CASE Fails(TabOf[c], {c}) /\ UNCHANGED <<swaps, refreshing>>
  BY <1>1, <1>4, FailsClears, CauseClearStep
<1>5. QED
  BY <1>2, <1>3, <1>4 DEF Denied

LEMMA CauseNext == Inv /\ CauseInv /\ [Next]_vars => CauseInv'
<1> SUFFICES ASSUME Inv, CauseInv, [Next]_vars PROVE CauseInv'
  OBVIOUS
<1>1. ASSUME NEW t \in Tabs, TabStep(t) PROVE CauseInv'
  <2>1. CASE SwapGranted(t)
    BY <2>1, CauseSwapOver DEF SwapGranted, SwapOver
  <2>2. CASE SwapRefused(t)
    BY <2>2, CauseSwapOver DEF SwapRefused, SwapOver, Clear
  <2>3. QED
    BY <1>1, <2>1, <2>2, CauseGone DEF TabStep
<1>2. ASSUME NEW c \in Calls, CallStep(c) PROVE CauseInv'
  <2>1. CASE Submit(c) \/ SignInRefused(c) \/ SignOut(c) \/ Ask(c) \/ Served(c) \/ Answered(c)
    BY <2>1, CauseClearStep DEF Submit, SignInRefused, SignOut, Ask, Served, Answered, Clear
  <2>2. CASE SignedOut(c) \/ Dropped(c)
    BY <2>2, FailsClears, CauseClearStep DEF SignedOut, Dropped
  <2>3. QED
    BY <1>2, <2>1, <2>2, CauseSignedIn, CauseLogout, CauseDenied DEF CallStep
<1>3. CASE UNCHANGED vars
  BY <1>3, CauseClearStep DEF vars, browser
<1>4. QED
  BY <1>1, <1>2, <1>3, CauseRefreshRead, CauseRefreshCommit DEF Next

\* refreshTokens, "several 401s arriving at once produce one refresh": for
\* any number of tabs and of requests in each, no tab is refused a refresh
\* because of another that it was waiting for itself.
THEOREM RefreshesRefusedForCause == Spec => []RefusedForCause
<1>1. CauseInv => RefusedForCause
  BY DEF CauseInv
<1>2. QED
  BY <1>1, InitInv, NextInv, InitCause, CauseNext, PTL DEF Spec

-----------------------------------------------------------------------------
(* Types                                                                   *)

LEMMA CallFacts ==
  ASSUME TypeOK, NEW c \in Calls
  PROVE  /\ calls[c] \in Call /\ TabOf[c] \in Tabs /\ c \in InTab(TabOf[c])
         /\ calls[c].kind \in {"none", "load", "sign", "me", "page", "renew", "logout"}
         /\ calls[c].pair \in Pairs \cup {NoPair}
         /\ calls[c].stage \in {"none", "sent", "served", "waiting", "again"}
BY CallsAssumption DEF TypeOK, Call, InTab

LEMMA SomeCallTypes ==
  /\ Idle \in Call
  /\ \A p \in Pairs \cup {NoPair}, kind \in {"load", "sign", "me", "page", "renew", "logout"} :
       Sent(kind, p) \in Call
BY DEF Idle, Sent, Call

LEMMA FirstFacts ==
  ASSUME NEW t \in Tabs
  PROVE  First(t) \in InTab(t) /\ First(t) \in Calls /\ TabOf[First(t)] = t
<1>1. InTab(t) # {}
  BY CallsAssumption DEF InTab
<1>2. First(t) \in InTab(t)
  BY <1>1 DEF First
<1>3. QED
  BY <1>2 DEF InTab

LEMMA EndFacts ==
  ASSUME TypeOK, NEW ended, End(ended)
  PROVE  /\ calls' \in [Calls -> Call]
         /\ \A c \in Calls : calls'[c] = IF c \in ended THEN Idle ELSE calls[c]
         /\ busy' \subseteq Calls
BY SomeCallTypes DEF End, TypeOK

LEMMA ClearTypes ==
  ASSUME TypeOK, NEW t \in Tabs, NEW leaves, NEW ended, Clear(t, leaves, ended)
  PROVE  user' \in [Tabs -> Users \cup {None}] /\ disturbed' \subseteq Tabs
BY DEF Clear, TypeOK

LEMMA FailsTypes ==
  ASSUME TypeOK, NEW t \in Tabs, NEW ended, Fails(t, ended)
  PROVE  /\ calls' \in [Calls -> Call]
         /\ user' \in [Tabs -> Users \cup {None}]
         /\ busy' \subseteq Calls /\ crossed' \subseteq Tabs /\ disturbed' \subseteq Tabs
<1>1. calls' \in [Calls -> Call] /\ busy' \subseteq Calls
  BY EndFacts DEF Fails
<1>2. CASE Leaving(ended)
  <2>1. Clear(t, TRUE, ended) /\ crossed' \subseteq crossed \cup {t}
    BY <1>2 DEF Fails, Cross
  <2>2. QED
    BY <2>1, <1>1, ClearTypes DEF TypeOK
<1>3. CASE ~Leaving(ended)
  BY <1>1, <1>3 DEF Fails, history, TypeOK
<1>4. QED
  BY <1>2, <1>3

LEMMA TypesStep == TypeOK /\ Inv /\ Inv' /\ [Next]_vars => TypeOK'
<1> SUFFICES ASSUME TypeOK, Inv, Inv', [Next]_vars PROVE TypeOK'
  OBVIOUS
<1> DEFINE BrowserTypes ==
             /\ calls \in [Calls -> Call]
             /\ user \in [Tabs -> Users \cup {None}]
             /\ busy \subseteq Calls
             /\ crossed \subseteq Tabs /\ disturbed \subseteq Tabs
<1>1. /\ rows' \in [Pairs -> Row] /\ swaps' \in [Pairs -> Swap]
      /\ store' \in Pairs \cup {NoPair} /\ refreshing' \in [Tabs -> Pairs \cup {NoPair}]
  BY DEF Inv, Typed
<1>2. BrowserTypes /\ rare \in 0..MaxRare
  BY DEF TypeOK
<1>f. ASSUME Rare \/ UNCHANGED rare PROVE rare' \in 0..MaxRare
  BY <1>2, <1>f, BoundsAssumption DEF Rare
<1>3. ASSUME NEW t \in Tabs, TabStep(t)
      PROVE BrowserTypes' /\ rare' \in 0..MaxRare
  <2>1. CASE Reload(t)
    <3>1. calls' \in [Calls -> Call]
      BY <2>1, SomeCallTypes, <1>2 DEF Reload, Inv, Typed
    <3>2. user' \in [Tabs -> Users \cup {None}]
      BY <2>1, <1>2 DEF Reload
    <3>3. QED
      BY <2>1, <3>1, <3>2, <1>2, <1>f DEF Reload
  <2>2. CASE SwapGranted(t)
    <3>1. refreshing[t] \in Pairs
      BY <2>2 DEF SwapGranted, Inv, Typed
    <3>2. ASSUME NEW c \in Calls PROVE [calls[c] EXCEPT !.pair = refreshing[t], !.stage = "again"] \in Call
      BY <3>1, CallFacts DEF Call
    <3>3. calls' \in [Calls -> Call]
      BY <2>2, <3>2, <1>2 DEF SwapGranted
    <3>4. crossed' \subseteq Tabs /\ disturbed' \subseteq Tabs
      BY <2>2, <1>2 DEF SwapGranted, SwapOver
    <3>5. QED
      BY <2>2, <3>3, <3>4, <1>2, <1>f DEF SwapGranted
  <2>3. CASE SwapRefused(t) \/ SwapFailed(t)
    <3>1. calls' \in [Calls -> Call] /\ busy' \subseteq Calls
      BY <2>3, EndFacts DEF SwapRefused, SwapFailed
    <3>2. user' \in [Tabs -> Users \cup {None}] /\ disturbed' \subseteq Tabs
      BY <2>3, <1>2, ClearTypes DEF SwapRefused, SwapFailed
    <3>3. QED
      BY <2>3, <3>1, <3>2, <1>2, <1>f DEF SwapRefused, SwapFailed, SwapOver
  <2>4. QED
    BY <1>3, <2>1, <2>2, <2>3 DEF TabStep
<1>4. ASSUME NEW c \in Calls, CallStep(c)
      PROVE BrowserTypes' /\ rare' \in 0..MaxRare
  <2>0. TabOf[c] \in Tabs /\ NoPair \in Pairs \cup {NoPair} /\ store \in Pairs \cup {NoPair}
    BY CallsAssumption DEF TypeOK
  <2>1. CASE Submit(c)
    <3>1. calls' \in [Calls -> Call]
      BY <2>0, <2>1, SomeCallTypes, <1>2 DEF Submit
    <3>2. QED
      BY <2>1, <3>1, <1>2, <1>f DEF Submit, history
  <2>2. CASE SignedIn(c)
    <3>1. PICK p \in Pairs : calls' = [calls EXCEPT ![c] = Sent("me", p)]
      BY <2>2 DEF SignedIn
    <3>2. calls' \in [Calls -> Call]
      BY <3>1, SomeCallTypes, <1>2
    <3>3. crossed' \subseteq Tabs /\ disturbed' \subseteq Tabs
      BY <2>0, <2>2, <1>2 DEF SignedIn, Cross
    <3>4. QED
      BY <2>2, <3>2, <3>3, <1>2, <1>f DEF SignedIn
  <2>3. CASE SignInRefused(c)
    BY <2>3, EndFacts, <1>2, <1>f DEF SignInRefused, history
  <2>4. CASE SignOut(c)
    <3>1. calls' \in [Calls -> Call]
      BY <2>0, <2>4, SomeCallTypes, <1>2 DEF SignOut
    <3>2. user' \in [Tabs -> Users \cup {None}] /\ disturbed' \subseteq Tabs
      BY <2>0, <2>4, <1>2, ClearTypes DEF SignOut, history
    <3>3. QED
      BY <2>4, <3>1, <3>2, <1>2, <1>f DEF SignOut, history
  <2>5. CASE LogoutServe(c)
    <3>1. calls' \in [Calls -> Call]
      BY <2>5, <1>2 DEF LogoutServe, Call
    <3>2. QED
      BY <2>5, <3>1, <1>2, <1>f DEF LogoutServe, history
  <2>6. CASE SignedOut(c) \/ Dropped(c)
    <3>1. Fails(TabOf[c], {c}) /\ (Rare \/ UNCHANGED rare)
      BY <2>6 DEF SignedOut, Dropped
    <3>2. QED
      BY <2>0, <3>1, FailsTypes, <1>2, <1>f
  <2>7. CASE Ask(c)
    <3>1. calls' \in [Calls -> Call]
      BY <2>0, <2>7, SomeCallTypes, <1>2 DEF Ask
    <3>2. QED
      BY <2>7, <3>1, <1>2, <1>f DEF Ask, history
  <2>8. CASE Served(c)
    <3>1. calls' \in [Calls -> Call]
      BY <2>0, <2>8, SomeCallTypes, <1>2 DEF Served
    <3>2. user' \in [Tabs -> Users \cup {None}]
      BY <2>8, <1>2 DEF Served
    <3>3. QED
      BY <2>8, <3>1, <3>2, <1>2, <1>f DEF Served, history
  <2>9. CASE Answered(c)
    <3>1. calls[c].pair \in Pairs
      BY <2>9, CallFacts DEF Answered
    <3>2. rows[calls[c].pair].user \in Users \cup {None}
      BY <3>1 DEF Inv, Typed, Row
    <3>3. user' \in [Tabs -> Users \cup {None}]
      BY <2>9, <3>2, <1>2 DEF Answered
    <3>4. calls' \in [Calls -> Call]
      BY <2>9, SomeCallTypes, <1>2 DEF Answered
    <3>5. QED
      BY <2>9, <3>3, <3>4, <1>2, <1>f DEF Answered, history
  <2>10. CASE Denied(c)
    <3>1. UNCHANGED rare
      BY <2>10 DEF Denied
    <3>2. CASE StartSwap(c) \/ JoinSwap(c)
      <4>1. calls' = [calls EXCEPT ![c].stage = "waiting"] /\ UNCHANGED <<user, busy, history>>
        BY <3>2 DEF StartSwap, JoinSwap
      <4>2. calls' \in [Calls -> Call]
        BY <4>1, <1>2 DEF Call
      <4>3. QED
        BY <3>1, <4>1, <4>2, <1>2, <1>f DEF history
    <3>3. CASE Fails(TabOf[c], {c})
      BY <2>0, <3>1, <3>3, FailsTypes, <1>f
    <3>4. QED
      BY <2>10, <3>2, <3>3 DEF Denied
  <2>11. QED
    BY <1>4, <2>1, <2>2, <2>3, <2>4, <2>5, <2>6, <2>7, <2>8, <2>9, <2>10 DEF CallStep
<1>5. ASSUME NEW i \in Pairs, RefreshRead(i) \/ RefreshCommit(i)
      PROVE BrowserTypes' /\ rare' \in 0..MaxRare
  BY <1>2, <1>5, <1>f DEF RefreshRead, RefreshCommit, browser, history
<1>6. CASE UNCHANGED vars
  BY <1>2, <1>6, <1>1 DEF vars, browser, history, TypeOK
<1>7. CASE Next
  <2>1. BrowserTypes' /\ rare' \in 0..MaxRare
    BY <1>3, <1>4, <1>5, <1>7 DEF Next
  <2>2. QED
    BY <1>1, <2>1 DEF TypeOK
<1>8. QED
  BY <1>6, <1>7

\* Every variable stays within its type.
THEOREM TypeCorrect == Spec => []TypeOK
<1>1. Init => TypeOK
  BY BoundsAssumption DEF Init, TypeOK, Row, Swap, Call, Idle
<1>2. QED
  BY <1>1, InitInv, NextInv, TypesStep, PTL DEF Spec

-----------------------------------------------------------------------------
(* Who a tab shows                                                         *)

Asking(c) == Pending(c) /\ Asks(c)

\* What calls present has been issued.
PresentedInv ==
  \A c \in Calls :
    /\ Asks(c) => calls[c].pair \in Pairs
    /\ calls[c].pair \in Pairs => rows[calls[c].pair].state # "free"

\* Rotation keeps the owner.
OwnersInv ==
  \A i \in Pairs : swaps[i].stage = "issued" => rows[i].user = rows[swaps[i].pair].user

\* In a tab nothing has disturbed, what it shows, what it asks with and what it
\* waits for are all of the owner of the stored pair.
HeldInv(t) ==
  /\ user[t] # None => store # NoPair /\ rows[store].user = user[t]
  /\ \A c \in InTab(t) : Asking(c) =>
       store # NoPair /\ rows[calls[c].pair].user = rows[store].user
  /\ refreshing[t] # NoPair /\ t \notin crossed =>
       store # NoPair /\ rows[swaps[refreshing[t]].pair].user = rows[store].user

ShownInv == PresentedInv /\ OwnersInv /\ \A t \in Tabs \ disturbed : HeldInv(t)

LEMMA InitShown == Init => ShownInv
<1> SUFFICES ASSUME Init PROVE ShownInv
  OBVIOUS
<1>1. PresentedInv
  BY PairsAreNumbers DEF Init, PresentedInv, Asks, Idle
<1>2. OwnersInv /\ \A t \in Tabs : HeldInv(t)
  BY DEF Init, OwnersInv, HeldInv, Asking, Asks, Idle, InTab
<1>3. QED
  BY <1>1, <1>2 DEF ShownInv

\* No pair changes hands or is taken back.
LEMMA PairsKept ==
  ASSUME Inv, [Next]_vars
  PROVE  \A p \in Pairs : rows[p].state # "free" =>
           rows'[p].user = rows[p].user /\ rows'[p].state # "free"
<1>1. ASSUME NEW c \in Calls, SignedIn(c), NEW q \in Pairs, rows[q].state # "free"
      PROVE rows'[q] = rows[q]
  <2>1. PICK p \in Pairs, u \in Users : NextUnused(p) /\ Issue(p, u, rows)
    BY <1>1 DEF SignedIn
  <2>2. p # q
    BY <1>1, <2>1 DEF NextUnused, Unused
  <2>3. QED
    BY <2>1, <2>2 DEF Issue, Inv, Typed
<1>2. ASSUME NEW i \in Pairs, RefreshCommit(i), NEW q \in Pairs, rows[q].state # "free"
      PROVE rows'[q].user = rows[q].user /\ rows'[q].state # "free"
  <2> DEFINE p == swaps[i].pair
  <2>1. rows[i].state = "free" /\ p \in Pairs /\ i # q
    BY <1>2 DEF RefreshCommit, Inv, SwapInv
  <2>2. rows' = [[rows EXCEPT ![p].state = "spent"] EXCEPT ![i] = [user |-> rows[p].user, state |-> "live"]]
    BY <1>2 DEF RefreshCommit, Issue
  <2>3. QED
    BY <2>1, <2>2, <1>2 DEF Inv, Typed, Row
<1>3. ASSUME NEW i \in Pairs, RefreshRead(i), NEW q \in Pairs, rows[q].state # "free"
      PROVE rows'[q].user = rows[q].user /\ rows'[q].state # "free"
  <2> DEFINE p == swaps[i].pair
  <2>1. p \in Pairs
    BY <1>3 DEF RefreshRead, Inv, SwapInv
  <2>2. rows' = rows \/ rows' = [rows EXCEPT ![p].state = "expired"]
    BY <1>3 DEF RefreshRead
  <2>3. QED
    BY <1>3, <2>1, <2>2 DEF RefreshRead, Inv, Typed, Row
<1>4. ASSUME NEW c \in Calls, LogoutServe(c), NEW q \in Pairs, rows[q].state # "free"
      PROVE rows'[q].user = rows[q].user /\ rows'[q].state # "free"
  BY <1>4 DEF LogoutServe, Inv, Typed, Row
<1>5. ASSUME NEW t \in Tabs, TabStep(t)
      PROVE UNCHANGED rows
  BY <1>5 DEF TabStep, Reload, SwapGranted, SwapRefused, SwapFailed
<1>6. ASSUME NEW c \in Calls, CallStep(c), ~SignedIn(c), ~LogoutServe(c)
      PROVE UNCHANGED rows
  BY <1>6 DEF CallStep, Submit, SignInRefused, SignOut, SignedOut, Ask, Served, Answered, Denied, Dropped
<1>7. CASE UNCHANGED vars
  BY <1>7 DEF vars
<1>8. QED
  BY <1>1, <1>2, <1>3, <1>4, <1>5, <1>6, <1>7 DEF Next

\* Calls begin, end or wait, and a tab shows what it asked about: nothing a tab
\* has begun to ask is asked with another pair than the stored one.
LEMMA ShownCalls ==
  ASSUME TypeOK, ShownInv, UNCHANGED <<rows, swaps, store, refreshing, crossed, disturbed>>,
         \A c \in Calls :
           /\ Asks(c)' => calls'[c].pair \in Pairs
           /\ calls'[c].pair \in Pairs => rows[calls'[c].pair].state # "free"
           /\ Asking(c)' => \/ Asking(c) /\ calls'[c].pair = calls[c].pair
                            \/ store # NoPair /\ calls'[c].pair = store,
         \A t \in Tabs \ disturbed :
           \/ user'[t] \in {user[t], None}
           \/ store # NoPair /\ rows[store].user = user'[t]
  PROVE  ShownInv'
<1>1. PresentedInv'
  BY DEF PresentedInv
<1>2. OwnersInv'
  BY DEF ShownInv, OwnersInv
<1>3. ASSUME NEW t \in Tabs \ disturbed PROVE HeldInv(t)'
  <2>1. HeldInv(t)
    BY <1>3 DEF ShownInv
  <2>2. user'[t] # None => store # NoPair /\ rows[store].user = user'[t]
    BY <2>1, <1>3 DEF HeldInv
  <2>3. \A c \in InTab(t) : Asking(c)' => store # NoPair /\ rows[calls'[c].pair].user = rows[store].user
    BY <2>1 DEF HeldInv, InTab
  <2>4. QED
    BY <2>1, <2>2, <2>3 DEF HeldInv, InTab
<1>4. QED
  BY <1>1, <1>2, <1>3 DEF ShownInv

\* What ShownCalls asks of a call that ends, waits or presents the stored pair.
LEMMA CallShapes ==
  ASSUME TypeOK, Inv, ShownInv, NEW c \in Calls,
         \/ calls'[c] \in {calls[c], Idle}
         \/ calls'[c] = [calls[c] EXCEPT !.stage = "waiting"]
         \/ \E kind : calls'[c] = Sent(kind, store) /\ (store = NoPair => kind \in {"page", "logout"})
         \/ calls'[c] = Sent("sign", NoPair)
  PROVE  /\ Asks(c)' => calls'[c].pair \in Pairs
         /\ calls'[c].pair \in Pairs => rows[calls'[c].pair].state # "free"
         /\ Asking(c)' => \/ Asking(c) /\ calls'[c].pair = calls[c].pair
                          \/ store # NoPair /\ calls'[c].pair = store
<1>0. /\ calls[c] \in Call /\ store \in Pairs \cup {NoPair}
      /\ Asks(c) => calls[c].pair \in Pairs
      /\ calls[c].pair \in Pairs => rows[calls[c].pair].state # "free"
      /\ store # NoPair => rows[store].state # "free"
  BY DEF TypeOK, ShownInv, PresentedInv, Inv
<1>1. CASE calls'[c] = calls[c]
  BY <1>0, <1>1 DEF Asks, Asking, Pending, Authorised
<1>2. CASE calls'[c] = Idle \/ calls'[c] = Sent("sign", NoPair)
  BY <1>2, PairsAreNumbers DEF Asks, Asking, Idle, Sent
<1>3. CASE calls'[c] = [calls[c] EXCEPT !.stage = "waiting"]
  <2>1. /\ calls'[c].kind = calls[c].kind /\ calls'[c].pair = calls[c].pair
        /\ calls'[c].stage = "waiting"
    BY <1>0, <1>3 DEF Call
  <2>2. QED
    BY <1>0, <2>1 DEF Asks, Asking, Pending
<1>4. ASSUME NEW kind, calls'[c] = Sent(kind, store), store = NoPair => kind \in {"page", "logout"}
      PROVE  /\ Asks(c)' => calls'[c].pair \in Pairs
             /\ calls'[c].pair \in Pairs => rows[calls'[c].pair].state # "free"
             /\ Asking(c)' => store # NoPair /\ calls'[c].pair = store
  BY <1>0, <1>4, PairsAreNumbers DEF Asks, Asking, Sent
<1>5. QED
  BY <1>1, <1>2, <1>3, <1>4

\* A tab clears the pair as calls end: it shows nobody if it leaves, and waits
\* for no refresh but one that is crossed now.
LEMMA ShownClears ==
  ASSUME TypeOK, ShownInv, NEW t \in Tabs, NEW leaves, NEW ended, Clear(t, leaves, ended),
         UNCHANGED rows, disturbed' \subseteq Tabs,
         \A i \in Pairs : swaps'[i].pair = swaps[i].pair /\ swaps'[i].stage = swaps[i].stage,
         \A c \in Calls : calls'[c] = IF c \in ended THEN Idle ELSE calls[c],
         refreshing'[t] # NoPair =>
           /\ refreshing'[t] = refreshing[t]
           /\ t \in crossed' \/ (store = NoPair /\ t \notin crossed)
  PROVE  ShownInv'
<1>1. PresentedInv'
  BY PairsAreNumbers DEF ShownInv, PresentedInv, Asks, Idle
<1>2. OwnersInv'
  BY DEF ShownInv, OwnersInv
<1>3. ASSUME NEW s \in Tabs \ disturbed' PROVE HeldInv(s)'
  <2>1. /\ s = t /\ t \notin disturbed
        /\ leaves /\ \A c \in InTab(t) \ ended : ~Asks(c)
    BY <1>3 DEF Clear
  <2>2. user'[t] = None
    BY <2>1 DEF Clear, TypeOK
  <2>3. \A c \in InTab(t) : ~Asking(c)'
    BY <2>1 DEF Asking, Asks, Idle, InTab
  <2>4. HeldInv(t)
    BY <2>1 DEF ShownInv
  <2>5. refreshing'[t] # NoPair => t \in crossed'
    BY <2>4 DEF HeldInv
  <2>6. QED
    BY <2>1, <2>2, <2>3, <2>5 DEF HeldInv, InTab
<1>4. QED
  BY <1>1, <1>2, <1>3 DEF ShownInv

LEMMA ShownFails ==
  ASSUME TypeOK, Inv, ShownInv, NEW c \in Calls, Fails(TabOf[c], {c}), UNCHANGED <<rows, swaps, refreshing>>
  PROVE  ShownInv'
<1>0. TabOf[c] \in Tabs
  BY CallFacts
<1>1. \A d \in Calls : calls'[d] = IF d \in {c} THEN Idle ELSE calls[d]
  BY EndFacts DEF Fails
<1>2. disturbed' \subseteq Tabs
  BY <1>0, FailsTypes
<1>3. CASE Leaving({c})
  <2>1. Clear(TabOf[c], TRUE, {c}) /\ (refreshing[TabOf[c]] # NoPair => TabOf[c] \in crossed')
    BY <1>3 DEF Fails, Cross
  <2>2. QED
    BY <1>0, <1>1, <1>2, <2>1, ShownClears
<1>4. CASE ~Leaving({c})
  <2>1. UNCHANGED <<rows, swaps, store, refreshing, user, crossed, disturbed>>
    BY <1>4 DEF Fails, history
  <2>2. \A d \in Calls : calls'[d] \in {calls[d], Idle}
    BY <1>1
  <2>3. QED
    BY <2>1, <2>2, CallShapes, ShownCalls
<1>5. QED
  BY <1>3, <1>4

\* A tab's wait for a refresh ends: its waiting calls end, or are sent again.
LEMMA ShownSwapEnded ==
  ASSUME TypeOK, ShownInv, NEW t \in Tabs, SwapRefused(t) \/ SwapFailed(t)
  PROVE  ShownInv'
<1>0. /\ UNCHANGED rows /\ refreshing[t] \in Pairs \cup {NoPair} /\ refreshing[t] # NoPair
      /\ refreshing' = [refreshing EXCEPT ![t] = NoPair] /\ crossed' = crossed \ {t}
      /\ refreshing \in [Tabs -> Pairs \cup {NoPair}]
  BY DEF SwapRefused, SwapFailed, SwapOver, TypeOK
<1>1. \A i \in Pairs : swaps'[i].pair = swaps[i].pair /\ swaps'[i].stage = swaps[i].stage
  <2>1. UNCHANGED swaps \/ swaps' = [swaps EXCEPT ![refreshing[t]].gone = TRUE]
    BY DEF SwapRefused, SwapFailed
  <2>2. QED
    BY <1>0, <2>1 DEF TypeOK, Swap
<1>2. \A c \in Calls : calls'[c] = IF c \in Waiters(t) THEN Idle ELSE calls[c]
  BY EndFacts DEF SwapRefused, SwapFailed
<1>3. refreshing'[t] = NoPair
  BY <1>0
<1>4. CASE Clear(t, Leaving(Waiters(t)), Waiters(t))
  <2>1. disturbed' \subseteq Tabs
    BY <1>4, ClearTypes
  <2>2. QED
    BY <1>0, <1>1, <1>2, <1>3, <1>4, <2>1, ShownClears
<1>5. CASE UNCHANGED <<store, user, disturbed>>
  <2>1. PresentedInv' /\ OwnersInv'
    BY <1>0, <1>1, <1>2, <1>5, PairsAreNumbers DEF ShownInv, PresentedInv, OwnersInv, Asks, Idle
  <2>2. ASSUME NEW s \in Tabs \ disturbed PROVE HeldInv(s)'
    <3>1. HeldInv(s)
      BY <2>2 DEF ShownInv
    <3>2. \A c \in InTab(s) : Asking(c)' => Asking(c) /\ calls'[c] = calls[c]
      BY <1>2 DEF Asking, Asks, Pending, Authorised, Idle, InTab
    <3>3. refreshing'[s] # NoPair =>
            refreshing'[s] = refreshing[s] /\ refreshing[s] \in Pairs /\ (s \in crossed' <=> s \in crossed)
      BY <1>0
    <3>4. QED
      BY <1>0, <1>1, <1>5, <3>1, <3>2, <3>3 DEF HeldInv, InTab
  <2>3. QED
    BY <1>5, <2>1, <2>2 DEF ShownInv
<1>6. QED
  BY <1>4, <1>5 DEF SwapRefused, SwapFailed

LEMMA ShownSwapGranted ==
  ASSUME TypeOK, Inv, ShownInv, NEW t \in Tabs, SwapGranted(t)
  PROVE  ShownInv'
<1> DEFINE i == refreshing[t]
<1>0. /\ i \in Pairs /\ swaps[i].stage = "issued" /\ store' = i
      /\ UNCHANGED <<rows, swaps, user>>
      /\ refreshing' = [refreshing EXCEPT ![t] = NoPair]
      /\ disturbed' = disturbed \cup IF t \in crossed THEN Tabs ELSE Tabs \ {t}
  BY DEF SwapGranted, SwapOver, TypeOK
<1>1. rows[i].state # "free" /\ i # NoPair
  BY <1>0, PairsAreNumbers DEF Inv, SwapInv
<1>2. ASSUME NEW c \in Calls
      PROVE  calls'[c] = calls[c] \/ (calls'[c].kind = calls[c].kind /\ calls'[c].pair = i)
  <2>1. calls'[c] = IF c \notin Waiters(t) THEN calls[c]
                    ELSE [calls[c] EXCEPT !.pair = i, !.stage = "again"]
    BY <1>2 DEF SwapGranted
  <2>2. QED
    BY <2>1, CallFacts DEF Call
<1> HIDE DEF i
<1>3. PresentedInv'
  BY <1>0, <1>1, <1>2 DEF ShownInv, PresentedInv, Asks
<1>4. OwnersInv'
  BY <1>0 DEF ShownInv, OwnersInv
<1>5. ASSUME NEW s \in Tabs \ disturbed' PROVE HeldInv(s)'
  <2>1. s = t /\ t \notin crossed /\ t \notin disturbed /\ HeldInv(t)
    BY <1>0, <1>5 DEF ShownInv
  <2>2. store # NoPair /\ rows[i].user = rows[store].user
    <3>1. store # NoPair /\ rows[swaps[i].pair].user = rows[store].user
      BY <1>1, <2>1 DEF HeldInv, i
    <3>2. rows[i].user = rows[swaps[i].pair].user
      BY <1>0 DEF ShownInv, OwnersInv
    <3>3. QED
      BY <3>1, <3>2
  <2>3. ASSUME NEW c \in InTab(t), Asking(c)' PROVE rows[calls'[c].pair].user = rows[i].user
    <3>1. calls'[c] = calls[c] \/ calls'[c].pair = i
      BY <1>2, <2>3 DEF InTab
    <3>2. calls'[c] = calls[c] => Asking(c)
      BY <2>3 DEF Asking, Asks, Pending, Authorised
    <3>3. QED
      BY <2>1, <2>2, <3>1, <3>2 DEF HeldInv
  <2>4. refreshing'[t] = NoPair
    BY <1>0 DEF TypeOK
  <2>5. QED
    BY <1>0, <1>1, <2>1, <2>2, <2>3, <2>4 DEF HeldInv, InTab
<1>6. QED
  BY <1>3, <1>4, <1>5 DEF ShownInv

\* Steps of the server: pairs are issued and spent, but none that matters here.
LEMMA ShownServer ==
  ASSUME TypeOK, Inv, CauseInv, ShownInv, [Next]_vars,
         UNCHANGED <<store, refreshing, user, crossed, disturbed>>,
         \A c \in Calls : /\ calls'[c].pair = calls[c].pair
                          /\ Asks(c)' => Asks(c)
                          /\ Asking(c)' => Asking(c),
         \A j \in Pairs : /\ swaps'[j].pair = swaps[j].pair
                          /\ swaps'[j].stage = "issued" =>
                               swaps[j].stage = "issued" \/ rows'[j].user = rows'[swaps[j].pair].user
  PROVE  ShownInv'
<1>1. PresentedInv'
  BY PairsKept DEF ShownInv, PresentedInv
<1>2. OwnersInv'
  <2> SUFFICES ASSUME NEW j \in Pairs, swaps[j].stage = "issued"
               PROVE  rows'[j].user = rows'[swaps[j].pair].user
    BY DEF OwnersInv
  <2>1. rows[j].user = rows[swaps[j].pair].user /\ rows[j].state # "free"
        /\ swaps[j].pair \in Pairs /\ rows[swaps[j].pair].state # "free"
    BY DEF ShownInv, OwnersInv, Inv, SwapInv
  <2>2. QED
    BY <2>1, PairsKept
<1>3. ASSUME NEW t \in Tabs \ disturbed PROVE HeldInv(t)'
  <2>1. HeldInv(t)
    BY <1>3 DEF ShownInv
  <2>2. store # NoPair => rows'[store].user = rows[store].user
    BY PairsKept DEF Inv, Typed
  <2>3. \A c \in InTab(t) : Asking(c) => rows'[calls[c].pair].user = rows[calls[c].pair].user
    BY PairsKept DEF ShownInv, PresentedInv, Asking, InTab
  <2>4. refreshing[t] # NoPair =>
          LET p == swaps[refreshing[t]].pair IN
          swaps'[refreshing[t]].pair = p /\ rows'[p].user = rows[p].user
    <3> SUFFICES ASSUME refreshing[t] # NoPair
                 PROVE LET p == swaps[refreshing[t]].pair IN
                       swaps'[refreshing[t]].pair = p /\ rows'[p].user = rows[p].user
      OBVIOUS
    <3>1. refreshing[t] \in Pairs /\ swaps[refreshing[t]].stage # "none"
      BY <1>3 DEF CauseInv, WaitingInv, Inv, Typed
    <3>2. swaps[refreshing[t]].pair \in Pairs /\ rows[swaps[refreshing[t]].pair].state # "free"
      BY <3>1 DEF Inv, SwapInv
    <3>3. QED
      BY <3>1, <3>2, PairsKept
  <2>5. QED
    BY <2>1, <2>2, <2>3, <2>4 DEF HeldInv, InTab
<1>4. QED
  BY <1>1, <1>2, <1>3 DEF ShownInv

LEMMA ShownRefresh ==
  ASSUME TypeOK, Inv, CauseInv, ShownInv, [Next]_vars, NEW i \in Pairs, RefreshRead(i) \/ RefreshCommit(i)
  PROVE  ShownInv'
<1>1. UNCHANGED <<store, calls, refreshing, user, crossed, disturbed>>
  BY DEF RefreshRead, RefreshCommit, browser, history
<1>2. \A c \in Calls : /\ calls'[c].pair = calls[c].pair
                       /\ Asks(c)' => Asks(c)
                       /\ Asking(c)' => Asking(c)
  BY <1>1 DEF Asks, Asking, Pending, Authorised
<1>3. ASSUME NEW j \in Pairs
      PROVE  /\ swaps'[j].pair = swaps[j].pair
             /\ swaps'[j].stage = "issued" =>
                  swaps[j].stage = "issued" \/ rows'[j].user = rows'[swaps[j].pair].user
  <2>1. swaps'[j].pair = swaps[j].pair /\ (j # i => swaps'[j] = swaps[j])
    BY DEF RefreshRead, RefreshCommit, Inv, Typed, Swap
  <2>2. CASE RefreshRead(i)
    BY <2>1, <2>2 DEF RefreshRead, Inv, Typed, Swap
  <2>3. CASE RefreshCommit(i)
    <3>1. rows'[i].user = rows[swaps[i].pair].user /\ rows'[swaps[i].pair].user = rows[swaps[i].pair].user
      BY <2>3 DEF RefreshCommit, Issue, Inv, SwapInv, Typed, Row
    <3>2. QED
      BY <2>1, <3>1
  <2>4. QED
    BY <2>1, <2>2, <2>3
<1>4. QED
  BY <1>1, <1>2, <1>3, ShownServer

LEMMA ShownLogout ==
  ASSUME TypeOK, Inv, CauseInv, ShownInv, [Next]_vars, NEW c \in Calls, LogoutServe(c)
  PROVE  ShownInv'
<1>1. /\ calls[c].kind = "logout" /\ calls' = [calls EXCEPT ![c].stage = "served"]
      /\ UNCHANGED <<swaps, store, refreshing, user, crossed, disturbed>>
  BY DEF LogoutServe, history
<1>2. calls'[c] = [calls[c] EXCEPT !.stage = "served"] /\ \A d \in Calls : d # c => calls'[d] = calls[d]
  BY <1>1 DEF TypeOK
<1>3. calls'[c].kind = "logout" /\ calls'[c].pair = calls[c].pair
  BY <1>1, <1>2, CallFacts DEF Call
<1>4. \A d \in Calls : /\ calls'[d].pair = calls[d].pair
                       /\ Asks(d)' => Asks(d)
                       /\ Asking(d)' => Asking(d)
  BY <1>2, <1>3 DEF Asks, Asking, Pending, Authorised
<1>5. QED
  BY <1>1, <1>4, ShownServer

LEMMA ShownReload ==
  ASSUME TypeOK, Inv, CauseInv, ShownInv, NEW t \in Tabs, Reload(t)
  PROVE  ShownInv'
<1>0. /\ UNCHANGED <<rows, store>> /\ user' = [user EXCEPT ![t] = None]
      /\ refreshing' = [refreshing EXCEPT ![t] = NoPair]
      /\ crossed' = crossed \ {t} /\ disturbed' = disturbed \ {t}
      /\ refreshing \in [Tabs -> Pairs \cup {NoPair}]
  BY DEF Reload, TypeOK
<1>1. \A j \in Pairs : swaps'[j].pair = swaps[j].pair /\ swaps'[j].stage = swaps[j].stage
  <2>1. refreshing[t] # NoPair => refreshing[t] \in Pairs
    BY <1>0
  <2>2. UNCHANGED swaps \/ (refreshing[t] \in Pairs /\ swaps' = [swaps EXCEPT ![refreshing[t]].gone = TRUE])
    BY <2>1 DEF Reload
  <2>3. QED
    BY <2>2 DEF TypeOK, Swap
<1>2. ASSUME NEW c \in Calls
      PROVE  \/ calls'[c] = calls[c] /\ c \notin InTab(t)
             \/ calls'[c] = Idle
             \/ calls'[c] = Sent("load", store) /\ store # NoPair /\ c \in InTab(t)
  BY <1>2, FirstFacts DEF Reload
<1>3. store # NoPair => store \in Pairs /\ rows[store].state # "free"
  BY DEF TypeOK, Inv
<1>4. PresentedInv'
  BY <1>0, <1>2, <1>3, PairsAreNumbers DEF ShownInv, PresentedInv, Asks, Idle, Sent
<1>5. OwnersInv'
  BY <1>0, <1>1 DEF ShownInv, OwnersInv
<1>6. ASSUME NEW s \in Tabs \ disturbed' PROVE HeldInv(s)'
  <2>1. CASE s = t
    <3>1. user'[t] = None /\ refreshing'[t] = NoPair
      BY <1>0 DEF TypeOK
    <3>2. \A c \in InTab(t) : Asking(c)' => store # NoPair /\ calls'[c].pair = store
      BY <1>2 DEF Asking, Asks, Idle, Sent, InTab
    <3>3. QED
      BY <1>0, <2>1, <3>1, <3>2 DEF HeldInv, InTab
  <2>2. CASE s # t
    <3>1. HeldInv(s)
      BY <1>0, <1>6, <2>2 DEF ShownInv
    <3>2. \A c \in InTab(s) : Asking(c)' => Asking(c) /\ calls'[c] = calls[c]
      BY <1>2, <2>2 DEF Asking, Asks, Pending, Authorised, Idle, InTab
    <3>3. /\ user'[s] = user[s] /\ refreshing'[s] = refreshing[s] /\ (s \in crossed' <=> s \in crossed)
          /\ refreshing[s] # NoPair => refreshing[s] \in Pairs
      BY <1>0, <1>6, <2>2 DEF TypeOK
    <3>4. QED
      BY <1>0, <1>1, <3>1, <3>2, <3>3 DEF HeldInv, InTab
  <2>3. QED
    BY <2>1, <2>2
<1>7. QED
  BY <1>4, <1>5, <1>6 DEF ShownInv

\* A new pair is stored and asked with: it is the only thing the tab asks, and
\* a refresh that was in flight is crossed.
LEMMA ShownSignedIn ==
  ASSUME TypeOK, Inv, ShownInv, [Next]_vars, NEW c \in Calls, SignedIn(c)
  PROVE  ShownInv'
<1> DEFINE t == TabOf[c]
<1>1. PICK p \in Pairs, u \in Users :
        Issue(p, u, rows) /\ store' = p /\ calls' = [calls EXCEPT ![c] = Sent("me", p)]
  BY DEF SignedIn
<1>2. /\ UNCHANGED <<swaps, refreshing, user>> /\ (refreshing[t] # NoPair => t \in crossed')
      /\ disturbed' = IF user[t] = None /\ \A d \in InTab(t) : ~Asks(d) THEN Tabs \ {t} ELSE Tabs
  BY DEF SignedIn, Cross
<1>3. rows'[p].state = "live" /\ p # NoPair
  BY <1>1, PairsAreNumbers DEF Issue, TypeOK
<1>4. calls'[c] = Sent("me", p) /\ \A d \in Calls : d # c => calls'[d] = calls[d]
  BY <1>1 DEF TypeOK
<1>5. PresentedInv'
  <2> SUFFICES ASSUME NEW d \in Calls
               PROVE  /\ Asks(d)' => calls'[d].pair \in Pairs
                      /\ calls'[d].pair \in Pairs => rows'[calls'[d].pair].state # "free"
    BY DEF PresentedInv
  <2>1. CASE d = c
    BY <1>3, <1>4, <2>1 DEF Sent
  <2>2. CASE d # c
    BY <1>4, <2>2, PairsKept DEF ShownInv, PresentedInv, Asks
  <2>3. QED
    BY <2>1, <2>2
<1>6. OwnersInv'
  <2> SUFFICES ASSUME NEW j \in Pairs, swaps[j].stage = "issued"
               PROVE  rows'[j].user = rows'[swaps[j].pair].user
    BY <1>2 DEF OwnersInv
  <2>1. rows[j].user = rows[swaps[j].pair].user /\ rows[j].state # "free"
        /\ swaps[j].pair \in Pairs /\ rows[swaps[j].pair].state # "free"
    BY DEF ShownInv, OwnersInv, Inv, SwapInv
  <2>2. QED
    BY <2>1, PairsKept
<1>7. ASSUME NEW s \in Tabs \ disturbed' PROVE HeldInv(s)'
  <2>1. s = t /\ user[t] = None /\ \A d \in InTab(t) : ~Asks(d)
    BY <1>2, <1>7
  <2>2. ASSUME NEW d \in InTab(t), Asking(d)' PROVE calls'[d].pair = p
    <3>1. d \in Calls /\ Asks(d)' /\ ~Asks(d)
      BY <2>1, <2>2 DEF InTab, Asking
    <3>2. d = c
      BY <1>4, <3>1 DEF Asks
    <3>3. QED
      BY <1>4, <3>2 DEF Sent
  <2>3. QED
    BY <1>1, <1>2, <1>3, <2>1, <2>2 DEF HeldInv, InTab
<1>8. QED
  BY <1>5, <1>6, <1>7 DEF ShownInv

\* A refused call starts a refresh of the stored pair.
LEMMA ShownStartSwap ==
  ASSUME TypeOK, Inv, CauseInv, ShownInv, NEW c \in Calls,
         refreshing[TabOf[c]] = NoPair, store # NoPair, StartSwap(c),
         UNCHANGED rows
  PROVE  ShownInv'
<1> DEFINE t == TabOf[c]
<1>0. t \in Tabs /\ UNCHANGED <<store, user, crossed, disturbed>>
  BY CallFacts DEF StartSwap, history
<1>1. PICK i \in Pairs :
        /\ swaps[i].stage = "none"
        /\ swaps' = [swaps EXCEPT ![i] = [tab |-> TabOf[c], pair |-> store, late |-> Used(store),
                                          gone |-> FALSE, stage |-> "sent"]]
        /\ refreshing' = [refreshing EXCEPT ![t] = i]
  BY DEF StartSwap, NextUnused, Unused
<1>2. /\ swaps'[i].pair = store /\ swaps'[i].stage = "sent"
      /\ \A j \in Pairs : j # i => swaps'[j] = swaps[j]
  BY <1>1 DEF TypeOK
<1>3. ASSUME NEW d \in Calls PROVE calls'[d] \in {calls[d], [calls[d] EXCEPT !.stage = "waiting"]}
  BY <1>3 DEF StartSwap, TypeOK
<1>4. ASSUME NEW d \in Calls
      PROVE  /\ Asks(d)' => Asks(d)
             /\ calls'[d].pair = calls[d].pair
             /\ Asking(d)' => Asking(d)
  BY <1>3, CallFacts DEF Asks, Asking, Pending, Authorised, Call
<1>5. PresentedInv'
  BY <1>4 DEF ShownInv, PresentedInv
<1>6. OwnersInv'
  BY <1>2 DEF ShownInv, OwnersInv
<1>7. ASSUME NEW s \in Tabs \ disturbed' PROVE HeldInv(s)'
  <2>1. HeldInv(s)
    BY <1>0, <1>7 DEF ShownInv
  <2>2. refreshing'[s] # NoPair /\ s \notin crossed =>
          store # NoPair /\ rows[swaps'[refreshing'[s]].pair].user = rows[store].user
    <3>1. CASE s = t
      BY <1>1, <1>2, <3>1 DEF TypeOK
    <3>2. CASE s # t
      <4> SUFFICES ASSUME refreshing'[s] # NoPair, s \notin crossed
                   PROVE store # NoPair /\ rows[swaps'[refreshing'[s]].pair].user = rows[store].user
        OBVIOUS
      <4>1. refreshing'[s] = refreshing[s] /\ refreshing[s] \in Pairs
        BY <1>1, <1>7, <3>2 DEF TypeOK
      <4>2. refreshing[s] # i
        BY <1>1, <1>7, <4>1 DEF CauseInv, WaitingInv
      <4>3. QED
        BY <1>2, <2>1, <4>1, <4>2 DEF HeldInv
    <3>3. QED
      BY <3>1, <3>2
  <2>3. QED
    BY <1>0, <1>4, <2>1, <2>2 DEF HeldInv, InTab
<1>8. QED
  BY <1>5, <1>6, <1>7 DEF ShownInv

\* A refused call joins the refresh of its tab, starts one, or fails.
LEMMA ShownDenied ==
  ASSUME TypeOK, Inv, CauseInv, ShownInv, NEW c \in Calls, Denied(c)
  PROVE  ShownInv'
<1>1. UNCHANGED rows
  BY DEF Denied
<1>2. CASE JoinSwap(c)
  <2>1. UNCHANGED <<swaps, store, refreshing, user, crossed, disturbed>>
    BY <1>2 DEF JoinSwap, history
  <2>2. \A d \in Calls : calls'[d] \in {calls[d], Idle} \/ calls'[d] = [calls[d] EXCEPT !.stage = "waiting"]
    BY <1>2 DEF JoinSwap, TypeOK
  <2>3. QED
    BY <1>1, <2>1, <2>2, CallShapes, ShownCalls
<1>3. CASE refreshing[TabOf[c]] = NoPair /\ store # NoPair /\ StartSwap(c)
  BY <1>1, <1>3, ShownStartSwap
<1>4. CASE Fails(TabOf[c], {c}) /\ UNCHANGED <<swaps, refreshing>>
  BY <1>1, <1>4, ShownFails
<1>5. QED
  BY <1>2, <1>3, <1>4 DEF Denied

\* Calls that begin, and one whose answer changes nothing.
LEMMA ShownBegins ==
  ASSUME TypeOK, Inv, ShownInv, NEW c \in Calls,
         Submit(c) \/ SignInRefused(c) \/ Ask(c) \/ (SignOut(c) /\ store # NoPair)
  PROVE  ShownInv'
<1>1. UNCHANGED <<rows, swaps, store, refreshing, user, crossed, disturbed>>
  BY DEF Submit, SignInRefused, Ask, SignOut, history
<1>2. ASSUME NEW d \in Calls
      PROVE  \/ calls'[d] \in {calls[d], Idle}
             \/ \E kind : calls'[d] = Sent(kind, store) /\ (store = NoPair => kind \in {"page", "logout"})
             \/ calls'[d] = Sent("sign", NoPair)
  <2>1. CASE SignInRefused(c)
    BY <2>1, EndFacts DEF SignInRefused
  <2>2. CASE Submit(c)
    BY <2>2 DEF Submit, TypeOK
  <2>3. CASE Ask(c)
    <3>1. calls'[d] = calls[d] \/ calls'[d] = Sent("page", store)
      BY <2>3 DEF Ask, TypeOK
    <3>2. QED
      BY <3>1
  <2>4. CASE SignOut(c) /\ store # NoPair
    <3>1. calls'[d] = calls[d] \/ calls'[d] = Sent("logout", store)
      BY <2>4 DEF SignOut, TypeOK
    <3>2. QED
      BY <3>1
  <2>5. QED
    BY <2>1, <2>2, <2>3, <2>4
<1>3. QED
  BY <1>1, <1>2, CallShapes, ShownCalls

\* With no pair stored the tab forgets its user at once.
LEMMA ShownSignOut ==
  ASSUME TypeOK, Inv, ShownInv, NEW c \in Calls, SignOut(c)
  PROVE  ShownInv'
<1> DEFINE t == TabOf[c]
           nobody == {}
<1>1. CASE store # NoPair
  BY <1>1, ShownBegins
<1>2. CASE store = NoPair
  <2>1. /\ Clear(TabOf[c], TRUE, {}) /\ TabOf[c] \in Tabs
        /\ UNCHANGED <<rows, swaps, calls, refreshing, crossed>>
    BY <1>2, CallFacts DEF SignOut
  <2>2. disturbed' \subseteq Tabs
    BY <2>1, ClearTypes
  <2>3. TabOf[c] \in crossed' \/ (store = NoPair /\ TabOf[c] \notin crossed)
    BY <1>2, <2>1
  <2>4. \A i \in Pairs : swaps'[i].pair = swaps[i].pair /\ swaps'[i].stage = swaps[i].stage
    BY <2>1
  <2>5. \A d \in Calls : calls'[d] = IF d \in nobody THEN Idle ELSE calls[d]
    BY <2>1
  <2>6. refreshing'[t] # NoPair =>
          /\ refreshing'[t] = refreshing[t]
          /\ t \in crossed' \/ (store = NoPair /\ t \notin crossed)
    BY <2>1, <2>3
  <2>7. TypeOK /\ ShownInv /\ t \in Tabs /\ Clear(t, TRUE, nobody) /\ UNCHANGED rows
    BY <2>1
  <2> HIDE DEF t, nobody
  <2>8. QED
    BY ONLY <2>2, <2>4, <2>5, <2>6, <2>7, ShownClears
<1>3. QED
  BY <1>1, <1>2

\* The tab shows whom it asked about; a page's request asks with the stored pair.
LEMMA ShownAnswered ==
  ASSUME TypeOK, Inv, ShownInv, NEW c \in Calls, Answered(c) \/ Served(c)
  PROVE  ShownInv'
<1> DEFINE t == TabOf[c]
<1>0. t \in Tabs /\ c \in InTab(t) /\ UNCHANGED <<rows, swaps, store, refreshing, crossed, disturbed>>
  BY CallFacts DEF Answered, Served, history
<1>1. ASSUME NEW d \in Calls
      PROVE  \/ calls'[d] \in {calls[d], Idle}
             \/ \E kind : calls'[d] = Sent(kind, store) /\ (store = NoPair => kind \in {"page", "logout"})
  <2>1. \/ calls'[d] \in {calls[d], Idle}
        \/ store # NoPair /\ calls'[d] = Sent("renew", store)
    BY <1>1 DEF Answered, Served, TypeOK
  <2>2. QED
    BY <2>1
<1>2. ASSUME NEW s \in Tabs \ disturbed
      PROVE  \/ user'[s] \in {user[s], None}
             \/ store # NoPair /\ rows[store].user = user'[s]
  <2>1. CASE Served(c)
    BY <1>2, <2>1 DEF Served, TypeOK
  <2>2. CASE Answered(c) /\ s # t
    BY <1>2, <2>2 DEF Answered, TypeOK
  <2>3. CASE Answered(c) /\ s = t
    <3>1. Asking(c) /\ HeldInv(t) /\ user'[t] = rows[calls[c].pair].user
      BY <1>0, <1>2, <2>3 DEF Answered, Asking, ShownInv, TypeOK
    <3>2. QED
      BY <1>0, <2>3, <3>1 DEF HeldInv
  <2>4. QED
    BY <2>1, <2>2, <2>3
<1> HIDE DEF t
<1>3. QED
  BY <1>0, <1>1, <1>2, CallShapes, ShownCalls

LEMMA ShownNext == TypeOK /\ Inv /\ CauseInv /\ ShownInv /\ [Next]_vars => ShownInv'
<1> SUFFICES ASSUME TypeOK, Inv, CauseInv, ShownInv, [Next]_vars PROVE ShownInv'
  OBVIOUS
<1>1. ASSUME NEW t \in Tabs, TabStep(t) PROVE ShownInv'
  BY <1>1, ShownReload, ShownSwapGranted, ShownSwapEnded DEF TabStep
<1>2. ASSUME NEW c \in Calls, CallStep(c) PROVE ShownInv'
  <2>1. CASE SignedOut(c) \/ Dropped(c)
    BY <2>1, ShownFails DEF SignedOut, Dropped
  <2>2. QED
    BY <1>2, <2>1, ShownBegins, ShownSignedIn, ShownSignOut, ShownLogout, ShownAnswered, ShownDenied
       DEF CallStep
<1>3. ASSUME NEW i \in Pairs, RefreshRead(i) \/ RefreshCommit(i) PROVE ShownInv'
  BY <1>3, ShownRefresh
<1>4. CASE UNCHANGED vars
  BY <1>4 DEF vars, browser, history, ShownInv, PresentedInv, OwnersInv, HeldInv, Asking, Asks, Pending,
              Authorised, InTab
<1>5. QED
  BY <1>1, <1>2, <1>3, <1>4 DEF Next

\* AuthProvider and tokenStore agree, for any tabs, calls and pairs: the user a
\* tab shows owns the stored pair, unless since it last asked another tab
\* changed the pair, a refresh was refused or failed, or the tab was left with
\* calls of an earlier session.
THEOREM ShownUserOwnsPair == Spec => []ShownUserHoldsPair
<1>1. ShownInv => ShownUserHoldsPair
  BY DEF ShownInv, HeldInv, ShownUserHoldsPair
<1>2. QED
  BY <1>1, InitInv, NextInv, InitCause, CauseNext, InitShown, ShownNext, TypeCorrect, PTL DEF Spec

-----------------------------------------------------------------------------
(* A refresh comes to its end                                              *)

\* How many steps of the server and of its tab a refresh is from its end.
StepsLeft == [sent |-> 3, read |-> 2, issued |-> 1, refused |-> 1]
Due(t) == IF refreshing[t] = NoPair THEN 0 ELSE StepsLeft[swaps[refreshing[t]].stage]

\* The steps that RefreshEnds expects to be taken for tab t.
Settles(t) ==
  \/ RefreshRead(refreshing[t]) \/ RefreshCommit(refreshing[t])
  \/ SwapGranted(t) \/ SwapRefused(t)

\* No call waits but for a refresh of its tab.
StrandedInv == \A c \in Calls : calls[c].stage = "waiting" => refreshing[TabOf[c]] # NoPair

\* And that is a call of /refresh that the tab has not given up and that one of
\* those steps can be taken for.
NobodyStranded ==
  /\ StrandedInv
  /\ \A t \in Tabs : refreshing[t] # NoPair =>
       LET i == refreshing[t] IN
       swaps[i].tab = t /\ ~swaps[i].gone /\ swaps[i].stage \in DOMAIN StepsLeft

Nearer(t) ==
  refreshing[t] # NoPair =>
    /\ refreshing'[t] \in {refreshing[t], NoPair}
    /\ Due(t)' <= Due(t)
    /\ Settles(t) => Due(t)' < Due(t)

LEMMA WaitingStands == TypeOK /\ CauseInv /\ StrandedInv => NobodyStranded
<1> SUFFICES ASSUME TypeOK, CauseInv, StrandedInv PROVE NobodyStranded
  OBVIOUS
<1>1. ASSUME NEW t \in Tabs, refreshing[t] # NoPair
      PROVE  LET i == refreshing[t] IN
             swaps[i].tab = t /\ ~swaps[i].gone /\ swaps[i].stage \in DOMAIN StepsLeft
  <2>1. refreshing[t] \in Pairs
    BY <1>1 DEF TypeOK
  <2>2. swaps[refreshing[t]].stage \in {"none", "sent", "read", "issued", "refused"}
    BY <2>1 DEF TypeOK, Swap
  <2>3. QED
    BY <1>1, <2>2 DEF CauseInv, WaitingInv, StepsLeft
<1>2. QED
  BY <1>1 DEF NobodyStranded

LEMMA StrandedFails ==
  ASSUME TypeOK, StrandedInv, NEW t \in Tabs, NEW ended, Fails(t, ended), UNCHANGED refreshing
  PROVE  StrandedInv'
<1>1. \A c \in Calls : calls'[c] = IF c \in ended THEN Idle ELSE calls[c]
  BY EndFacts DEF Fails
<1>2. Idle.stage # "waiting"
  BY DEF Idle
<1>3. QED
  BY <1>1, <1>2 DEF StrandedInv

\* A granted refresh sends the waiting calls again, any other end fails them.
LEMMA StrandedSwapOver ==
  ASSUME TypeOK, StrandedInv, NEW t \in Tabs, SwapGranted(t) \/ SwapRefused(t) \/ SwapFailed(t)
  PROVE  StrandedInv'
<1>1. refreshing' = [refreshing EXCEPT ![t] = NoPair]
  BY DEF SwapGranted, SwapRefused, SwapFailed, SwapOver
<1>2. ASSUME NEW c \in Calls, calls'[c].stage = "waiting"
      PROVE  calls[c].stage = "waiting" /\ c \notin Waiters(t)
  <2>1. CASE SwapGranted(t)
    <3>1. calls'[c] = IF c \notin Waiters(t) THEN calls[c]
                      ELSE [calls[c] EXCEPT !.pair = refreshing[t], !.stage = "again"]
      BY <2>1 DEF SwapGranted
    <3>2. calls[c] \in Call
      BY DEF TypeOK
    <3>3. [calls[c] EXCEPT !.pair = refreshing[t], !.stage = "again"].stage = "again"
      BY <3>2 DEF Call
    <3>4. CASE c \in Waiters(t)
      BY ONLY <1>2, <3>1, <3>3, <3>4
    <3>5. QED
      BY ONLY <1>2, <3>1, <3>4
  <2>2. CASE SwapRefused(t) \/ SwapFailed(t)
    <3>1. End(Waiters(t))
      BY <2>2 DEF SwapRefused, SwapFailed
    <3>2. QED
      BY <1>2, <3>1, EndFacts DEF Idle
  <2>3. QED
    BY <2>1, <2>2
<1>3. ASSUME NEW c \in Calls, calls'[c].stage = "waiting" PROVE refreshing'[TabOf[c]] # NoPair
  <2>1. TabOf[c] \in Tabs \ {t}
    BY <1>2, <1>3, CallsAssumption DEF Waiters, InTab
  <2>2. QED
    BY <1>1, <1>2, <1>3, <2>1 DEF StrandedInv, TypeOK
<1>4. QED
  BY <1>3 DEF StrandedInv

\* Steps that make no call wait, and end no refresh.
LEMMA StrandedCall ==
  ASSUME TypeOK, StrandedInv, UNCHANGED refreshing,
         \A c \in Calls : calls'[c].stage = "waiting" => calls[c].stage = "waiting"
  PROVE  StrandedInv'
BY DEF StrandedInv

LEMMA StrandedReload ==
  ASSUME TypeOK, StrandedInv, NEW t \in Tabs, Reload(t)
  PROVE  StrandedInv'
<1>1. refreshing' = [refreshing EXCEPT ![t] = NoPair]
  BY DEF Reload
<1>2. ASSUME NEW c \in Calls, calls'[c].stage = "waiting"
      PROVE  calls[c].stage = "waiting" /\ TabOf[c] \in Tabs \ {t}
  <2>1. calls'[c] = CASE c = First(t) /\ store # NoPair -> Sent("load", store)
                      [] c \notin InTab(t) -> calls[c]
                      [] OTHER -> Idle
    BY DEF Reload
  <2>2. c \notin InTab(t) /\ calls'[c] = calls[c]
    BY <1>2, <2>1, FirstFacts DEF Sent, Idle
  <2>3. QED
    BY <1>2, <2>2, CallsAssumption DEF InTab
<1>3. QED
  BY <1>1, <1>2 DEF StrandedInv, TypeOK

LEMMA StrandedDenied ==
  ASSUME TypeOK, StrandedInv, NEW c \in Calls, Denied(c)
  PROVE  StrandedInv'
<1>0. TabOf[c] \in Tabs /\ calls \in [Calls -> Call]
  BY CallsAssumption DEF TypeOK
<1>1. CASE refreshing[TabOf[c]] # NoPair /\ JoinSwap(c)
  BY <1>0, <1>1 DEF JoinSwap, StrandedInv
<1>2. CASE StartSwap(c)
  <2>1. PICK i \in Pairs : refreshing' = [refreshing EXCEPT ![TabOf[c]] = i]
    BY <1>2 DEF StartSwap
  <2>2. calls' = [calls EXCEPT ![c].stage = "waiting"]
    BY <1>2 DEF StartSwap
  <2>3. refreshing \in [Tabs -> Pairs \cup {NoPair}]
    BY DEF TypeOK
  <2>4. ASSUME NEW d \in Calls, calls'[d].stage = "waiting" PROVE refreshing'[TabOf[d]] # NoPair
    <3>1. TabOf[d] \in Tabs
      BY CallsAssumption
    <3>2. TabOf[d] # TabOf[c] => calls'[d] = calls[d]
      BY <1>0, <2>2
    <3>3. QED
      BY <2>1, <2>3, <2>4, <3>1, <3>2, PairsAreNumbers DEF StrandedInv
  <2>5. QED
    BY <2>4 DEF StrandedInv
<1>3. CASE Fails(TabOf[c], {c}) /\ UNCHANGED <<swaps, refreshing>>
  BY <1>0, <1>3, StrandedFails
<1>4. QED
  BY <1>1, <1>2, <1>3 DEF Denied

LEMMA StrandedNext == TypeOK /\ StrandedInv /\ [Next]_vars => StrandedInv'
<1> SUFFICES ASSUME TypeOK, StrandedInv, [Next]_vars PROVE StrandedInv'
  OBVIOUS
<1>0. calls \in [Calls -> Call]
  BY DEF TypeOK
<1>1. ASSUME NEW c \in Calls, Submit(c) \/ SignedIn(c) \/ SignOut(c) \/ Ask(c) PROVE StrandedInv'
  <2>1. UNCHANGED refreshing
    BY <1>1 DEF Submit, SignedIn, SignOut, Ask
  <2>2. \/ UNCHANGED calls
        \/ \E kind, pair : calls' = [calls EXCEPT ![c] = Sent(kind, pair)]
    BY <1>1 DEF Submit, SignedIn, SignOut, Ask
  <2>3. QED
    BY <1>0, <2>1, <2>2, StrandedCall DEF Sent
<1>2. ASSUME NEW c \in Calls, Answered(c) \/ Served(c) PROVE StrandedInv'
  <2>1. /\ UNCHANGED refreshing
        /\ \/ calls' = [calls EXCEPT ![c] = Idle]
           \/ \E kind, pair : calls' = [calls EXCEPT ![c] = Sent(kind, pair)]
    BY <1>2 DEF Answered, Served
  <2>2. QED
    BY <1>0, <2>1, StrandedCall DEF Sent, Idle
<1>3. ASSUME NEW c \in Calls, SignInRefused(c) PROVE StrandedInv'
  <2>1. UNCHANGED refreshing /\ End({c})
    BY <1>3 DEF SignInRefused
  <2>2. QED
    BY <2>1, EndFacts, StrandedCall DEF Idle
<1>4. ASSUME NEW c \in Calls, SignedOut(c) \/ Dropped(c) PROVE StrandedInv'
  <2>1. UNCHANGED refreshing /\ Fails(TabOf[c], {c}) /\ TabOf[c] \in Tabs
    BY <1>4, CallsAssumption DEF SignedOut, Dropped
  <2>2. QED
    BY <2>1, StrandedFails
<1>5. ASSUME NEW c \in Calls, LogoutServe(c) PROVE StrandedInv'
  BY <1>0, <1>5, StrandedCall DEF LogoutServe
<1>6. ASSUME NEW i \in Pairs, RefreshRead(i) \/ RefreshCommit(i) PROVE StrandedInv'
  BY <1>6, StrandedCall DEF RefreshRead, RefreshCommit, browser
<1>7. CASE UNCHANGED vars
  BY <1>7, StrandedCall DEF vars, browser
<1>8. QED
  BY <1>1, <1>2, <1>3, <1>4, <1>5, <1>6, <1>7, StrandedReload, StrandedSwapOver, StrandedDenied
     DEF Next, TabStep, CallStep

\* Only the server's and the tab's own steps move a refresh, and only forward.
LEMMA StageForward ==
  ASSUME TypeOK, CauseInv, [Next]_vars, NEW i \in Pairs, swaps[i].stage # "none"
  PROVE  \/ swaps'[i].stage = swaps[i].stage
         \/ swaps[i].stage = "sent" /\ swaps'[i].stage \in {"read", "refused"}
         \/ swaps[i].stage = "read" /\ swaps'[i].stage = "issued"
<1>0. swaps \in [Pairs -> Swap]
  BY DEF TypeOK
<1>1. CASE UNCHANGED swaps
  BY <1>1
<1>2. ASSUME NEW j, UNCHANGED swaps \/ swaps' = [swaps EXCEPT ![j].gone = TRUE]
      PROVE  swaps'[i].stage = swaps[i].stage
  BY <1>0, <1>2 DEF Swap
<1>3. ASSUME NEW t \in Tabs, TabStep(t) PROVE UNCHANGED swaps \/ swaps'[i].stage = swaps[i].stage
  <2>1. CASE Reload(t) \/ SwapFailed(t)
    <3>1. UNCHANGED swaps \/ swaps' = [swaps EXCEPT ![refreshing[t]].gone = TRUE]
      BY <2>1 DEF Reload, SwapFailed
    <3>2. QED
      BY <1>2, <3>1
  <2>2. QED
    BY <1>3, <2>1 DEF TabStep, SwapGranted, SwapRefused
<1>4. ASSUME NEW c \in Calls, CallStep(c) PROVE UNCHANGED swaps \/ swaps'[i].stage = swaps[i].stage
  <2>1. CASE StartSwap(c)
    <3>1. PICK j \in Pairs :
            /\ swaps[j].stage = "none"
            /\ swaps' = [swaps EXCEPT ![j] = [tab |-> TabOf[c], pair |-> store, late |-> Used(store),
                                              gone |-> FALSE, stage |-> "sent"]]
      BY <2>1 DEF StartSwap, NextUnused, Unused
    <3>2. QED
      BY <1>0, <3>1
  <2>2. CASE Denied(c) /\ ~StartSwap(c)
    BY <2>2 DEF Denied, JoinSwap
  <2>3. CASE ~Denied(c)
    BY <1>4, <2>3 DEF CallStep, Submit, SignedIn, SignInRefused, SignOut, LogoutServe, SignedOut, Ask,
                         Served, Answered, Dropped
  <2>4. QED
    BY <2>1, <2>2, <2>3
<1>5. ASSUME NEW j \in Pairs, RefreshRead(j) \/ RefreshCommit(j)
      PROVE  \/ swaps'[i].stage = swaps[i].stage
             \/ swaps[i].stage = "sent" /\ swaps'[i].stage \in {"read", "refused"}
             \/ swaps[i].stage = "read" /\ swaps'[i].stage = "issued"
  <2>1. \/ swaps[j].stage = "sent" /\ \E stage \in {"read", "refused"} :
             swaps' = [swaps EXCEPT ![j].stage = stage]
        \/ swaps[j].stage = "read" /\ swaps' = [swaps EXCEPT ![j].stage = "issued"]
    BY <1>5 DEF RefreshRead, RefreshCommit
  <2>2. QED
    BY <1>0, <2>1 DEF Swap
<1>6. CASE UNCHANGED vars
  BY <1>6 DEF vars
<1>7. QED
  BY <1>1, <1>3, <1>4, <1>5, <1>6 DEF Next

LEMMA WaitedFor ==
  ASSUME TypeOK, [Next]_vars, NEW t \in Tabs, refreshing[t] # NoPair
  PROVE  refreshing'[t] \in {refreshing[t], NoPair}
<1>0. refreshing \in [Tabs -> Pairs \cup {NoPair}]
  BY DEF TypeOK
<1>1. ASSUME NEW u \in Tabs, refreshing' = [refreshing EXCEPT ![u] = NoPair]
      PROVE  refreshing'[t] \in {refreshing[t], NoPair}
  BY <1>0, <1>1
<1>2. ASSUME NEW u \in Tabs, TabStep(u)
      PROVE  UNCHANGED refreshing \/ refreshing' = [refreshing EXCEPT ![u] = NoPair]
  BY <1>2 DEF TabStep, Reload, SwapGranted, SwapRefused, SwapFailed, SwapOver
<1>3. ASSUME NEW c \in Calls, CallStep(c) PROVE refreshing'[t] = refreshing[t]
  <2>1. CASE Denied(c)
    <3>1. \/ UNCHANGED refreshing
          \/ refreshing[TabOf[c]] = NoPair /\ \E i : refreshing' = [refreshing EXCEPT ![TabOf[c]] = i]
      BY <2>1 DEF Denied, JoinSwap, StartSwap
    <3>2. QED
      BY <1>0, <3>1
  <2>2. CASE ~Denied(c)
    BY <1>3, <2>2 DEF CallStep, Submit, SignedIn, SignInRefused, SignOut, LogoutServe, SignedOut, Ask,
                         Served, Answered, Dropped
  <2>3. QED
    BY <2>1, <2>2
<1>4. ASSUME NEW i \in Pairs, RefreshRead(i) \/ RefreshCommit(i) PROVE UNCHANGED refreshing
  BY <1>4 DEF RefreshRead, RefreshCommit, browser
<1>5. CASE UNCHANGED vars
  BY <1>5 DEF vars, browser
<1>6. QED
  BY <1>1, <1>2, <1>3, <1>4, <1>5 DEF Next

LEMMA NearerStep ==
  ASSUME TypeOK, CauseInv, StrandedInv, [Next]_vars, NEW t \in Tabs
  PROVE  Nearer(t)
<1> SUFFICES ASSUME refreshing[t] # NoPair
             PROVE  /\ refreshing'[t] \in {refreshing[t], NoPair}
                    /\ Due(t)' <= Due(t)
                    /\ Settles(t) => Due(t)' < Due(t)
  BY DEF Nearer
<1> DEFINE i == refreshing[t]
<1>1. i \in Pairs /\ i # NoPair /\ swaps[i].stage \in {"sent", "read", "issued", "refused"}
  BY WaitingStands, PairsAreNumbers DEF NobodyStranded, StepsLeft, TypeOK
<1>2. refreshing'[t] \in {i, NoPair}
  BY WaitedFor
<1> HIDE DEF i
<1>3. Due(t) = StepsLeft[swaps[i].stage] /\ Due(t) \in 1..3
  BY <1>1 DEF i, Due, StepsLeft
<1>4. CASE refreshing'[t] = NoPair
  BY <1>2, <1>3, <1>4 DEF Due, i
<1>5. CASE refreshing'[t] = i
  <2>1. Due(t)' = StepsLeft[swaps'[i].stage]
    BY <1>1, <1>5 DEF Due, StepsLeft
  <2>2. Due(t)' <= Due(t)
    BY <1>1, <1>3, <2>1, StageForward DEF StepsLeft
  <2>3. ~SwapGranted(t) /\ ~SwapRefused(t)
    BY <1>1, <1>5 DEF SwapGranted, SwapRefused, SwapOver, TypeOK
  <2>4. ASSUME RefreshRead(i) \/ RefreshCommit(i) PROVE Due(t)' < Due(t)
    <3>1. \/ swaps[i].stage = "sent" /\ \E stage \in {"read", "refused"} :
               swaps' = [swaps EXCEPT ![i].stage = stage]
          \/ swaps[i].stage = "read" /\ swaps' = [swaps EXCEPT ![i].stage = "issued"]
      BY <2>4 DEF RefreshRead, RefreshCommit
    <3>2. \/ swaps[i].stage = "sent" /\ swaps'[i].stage \in {"read", "refused"}
          \/ swaps[i].stage = "read" /\ swaps'[i].stage = "issued"
      BY <1>1, <3>1 DEF TypeOK, Swap
    <3>3. QED
      BY <1>3, <2>1, <3>2 DEF StepsLeft
  <2>5. QED
    BY <1>2, <2>2, <2>3, <2>4 DEF Settles, i
<1>6. QED
  BY <1>2, <1>4, <1>5 DEF i

\* refreshTokens' finally, fairness apart: whatever the tabs do to each other, a
\* request that waits has a refresh of its own tab to wait for, the tab waits
\* for that one until it is over, and of the steps that can be taken for it each
\* brings it nearer to its end and no other sets it back.
THEOREM RefreshesComeToAnEnd ==
  Spec => []NobodyStranded /\ [][\A t \in Tabs : Nearer(t)]_vars
<1>1. Init => StrandedInv
  BY DEF Init, StrandedInv, Idle
<1>2. TypeOK /\ CauseInv /\ StrandedInv /\ [Next]_vars => [\A t \in Tabs : Nearer(t)]_vars
  BY NearerStep
<1>3. QED
  BY <1>1, <1>2, InitInv, NextInv, InitCause, CauseNext, TypeCorrect, StrandedNext, WaitingStands,
     PTL DEF Spec
=============================================================================
