--------------------------- MODULE RoomPageProofs --------------------------
(***************************************************************************)
(* Proofs about RoomPage, for any number of playlists, votes, fetches and  *)
(* faults, through either broadcaster.                                     *)
(***************************************************************************)
EXTENDS RoomPage, SequenceTheorems, WellFoundedInduction, TLAPS

\* Votes that no other overlapped: the page shows the one it is waiting for;
\* until the server counts it, what it would go back to is what counts.
Settled(l) == \E n \in Votes : voting[n].stage = "over" /\ voting[n].list = l

Typed ==
  /\ voting \in [Votes -> [stage : {"none", "sent", "counted", "over"}, list : Lists \cup {0},
                           value : {-1, 0, 1}, previous : {-1, 0, 1}, total : Int, at : Nat]]
  /\ mine \in [Lists -> {-1, 0, 1}] /\ myVotes \in [Lists -> {-1, 0, 1}]
  /\ others \in [Lists -> Int] /\ clock \in Nat

VoteInv(n) ==
  LET v == voting[n] IN
  /\ InFlight(n) => v.list \in Lists
  /\ InFlight(n) /\ v.list \notin tangled =>
       /\ \A k \in Votes : InFlight(k) /\ voting[k].list = v.list => k = n
       /\ myVotes[v.list] = v.value
       /\ v.stage = "sent" /\ Settled(v.list) => v.previous = mine[v.list]
       /\ v.stage = "counted" => mine[v.list] = v.value

SettledInv ==
  \A l \in Lists \ tangled : Settled(l) /\ ~Pending(l) => myVotes[l] = mine[l]

Inv == Typed /\ (\A n \in Votes : VoteInv(n)) /\ SettledInv

LEMMA InitInv == Init => Inv
<1> SUFFICES ASSUME Init PROVE Inv
  OBVIOUS
<1>1. \A n \in Votes : voting[n].stage = "none"
  BY DEF Init, NoVote, Ballot
<1>2. Typed
  BY ClicksAssumption DEF Init, Typed, NoVote, Ballot
<1>3. (\A n \in Votes : VoteInv(n)) /\ SettledInv
  BY <1>1 DEF VoteInv, SettledInv, InFlight, Settled
<1>4. QED
  BY <1>2, <1>3 DEF Inv

\* Whoever commits, the clock stays a number.
LEMMA CommitClock ==
  ASSUME clock \in Nat, NEW what, NEW l, NEW total, Commit(what, l, total)
  PROVE  clock' \in Nat
BY DEF Commit

LEMMA QuietStep ==
  ASSUME Inv, UNCHANGED <<voting, mine, myVotes, tangled>>,
         others' \in [Lists -> Int], clock' \in Nat
  PROVE  Inv'
<1>1. Typed'
  BY DEF Inv, Typed
<1>2. (\A n \in Votes : VoteInv(n)') /\ SettledInv'
  BY DEF Inv, VoteInv, SettledInv, InFlight, Settled, Pending
<1>3. QED
  BY <1>1, <1>2 DEF Inv

\* A vote is cast: over another in flight on the same track, its track is
\* tangled from now on.
LEMMA VoteStep ==
  ASSUME Inv, NEW l \in Lists, Vote(l)
  PROVE  Inv'
<1>1. PICK n \in Votes, click \in Clicks :
        LET value == IF myVotes[l] = click THEN 0 ELSE click IN
        /\ voting[n].stage = "none"
        /\ voting' = [voting EXCEPT ![n] = Ballot("sent", l, value, myVotes[l])]
        /\ myVotes' = [myVotes EXCEPT ![l] = value]
  BY DEF Vote
<1> DEFINE value == IF myVotes[l] = click THEN 0 ELSE click
           new == Ballot("sent", l, value, myVotes[l])
<1>2. /\ UNCHANGED <<mine, others, clock>>
      /\ tangled' = tangled \cup IF Pending(l) THEN {l} ELSE {}
  BY DEF Vote, server
<1>3. value \in {-1, 0, 1}
  BY ClicksAssumption
<1>4. new = [stage |-> "sent", list |-> l, value |-> value, previous |-> myVotes[l],
             total |-> 0, at |-> 0]
  BY DEF Ballot
<1>5. /\ voting' = [voting EXCEPT ![n] = new] /\ voting[n].stage = "none"
      /\ myVotes' = [myVotes EXCEPT ![l] = value]
  BY <1>1
<1> HIDE DEF new, value
<1>6. Typed'
  BY <1>2, <1>3, <1>4, <1>5 DEF Inv, Typed
<1>7. /\ voting'[n] = new /\ \A k \in Votes \ {n} : voting'[k] = voting[k]
      /\ myVotes'[l] = value /\ \A m \in Lists \ {l} : myVotes'[m] = myVotes[m]
  BY <1>5 DEF Inv, Typed
<1>8. \A m : Settled(m)' <=> Settled(m)
  BY <1>4, <1>5, <1>7 DEF Settled
<1>9. \A k \in Votes \ {n} : InFlight(k)' <=> InFlight(k)
  BY <1>7 DEF InFlight
<1>10. InFlight(n)' /\ ~InFlight(n)
  BY <1>4, <1>5, <1>7 DEF InFlight
<1>11. VoteInv(n)'
  <2>1. ASSUME l \notin tangled' PROVE ~Pending(l) /\ l \notin tangled
    BY <2>1, <1>2
  <2>2. ASSUME l \notin tangled', NEW k \in Votes, InFlight(k)', voting'[k].list = l
        PROVE  k = n
    BY <2>1, <2>2, <1>7, <1>9 DEF Pending
  <2>3. ASSUME l \notin tangled', Settled(l) PROVE myVotes[l] = mine[l]
    BY <2>1, <2>3 DEF Inv, SettledInv
  <2>4. QED
    BY <2>2, <2>3, <1>2, <1>4, <1>7, <1>8 DEF VoteInv, InFlight
<1>12. ASSUME NEW k \in Votes \ {n} PROVE VoteInv(k)'
  <2>1. CASE InFlight(k)
    <3>1. voting[k].list \in Lists
      BY <2>1 DEF Inv, VoteInv
    <3>2. CASE voting[k].list = l
      <4>1. l \in tangled'
        BY <2>1, <3>2, <1>2 DEF Pending
      <4>2. QED
        BY <4>1, <3>1, <3>2, <1>7 DEF VoteInv
    <3>3. CASE voting[k].list # l
      BY <2>1, <3>1, <3>3, <1>2, <1>4, <1>7, <1>8, <1>9 DEF Inv, VoteInv, InFlight
    <3>4. QED
      BY <3>2, <3>3
  <2>2. CASE ~InFlight(k)
    BY <2>2, <1>9 DEF VoteInv
  <2>3. QED
    BY <2>1, <2>2
<1>13. SettledInv'
  <2>1. Pending(l)'
    BY <1>4, <1>7, <1>10 DEF Pending
  <2>2. \A m \in Lists \ {l} : Pending(m) => Pending(m)'
    BY <1>7, <1>9, <1>10 DEF Pending
  <2>3. QED
    BY <2>1, <2>2, <1>2, <1>7, <1>8 DEF Inv, SettledInv
<1>14. QED
  BY <1>6, <1>11, <1>12, <1>13 DEF Inv

LEMMA VoteCountedStep ==
  ASSUME Inv, NEW n \in Votes, VoteCounted(n)
  PROVE  Inv'
<1>1. PICK l \in Lists : l = voting[n].list
  BY DEF VoteCounted, Inv, VoteInv, InFlight
<1>2. PICK value \in {-1, 0, 1} : value = voting[n].value
  BY DEF Inv, Typed
<1>3. PICK total \in Int :
        /\ Commit("vote", l, total)
        /\ voting' = [voting EXCEPT ![n] =
             [voting[n] EXCEPT !.stage = "counted", !.total = total, !.at = clock + 1]]
  <2>1. value + others[l] \in Int
    BY <1>1, <1>2 DEF Inv, Typed
  <2>2. QED
    BY <2>1, <1>1, <1>2 DEF VoteCounted
<1>4. /\ voting[n].stage = "sent" /\ mine' = [mine EXCEPT ![l] = value]
      /\ UNCHANGED <<others, myVotes, tangled>>
  BY <1>1, <1>2 DEF VoteCounted, page
<1>5. clock' \in Nat
  BY <1>3, CommitClock DEF Inv, Typed
<1>6. /\ voting'[n].stage = "counted" /\ voting'[n].value = value
      /\ \A k \in Votes : voting'[k].list = voting[k].list
      /\ \A k \in Votes \ {n} : voting'[k] = voting[k]
  <2>1. voting'[n] = [voting[n] EXCEPT !.stage = "counted", !.total = total, !.at = clock + 1]
    BY <1>3 DEF Inv, Typed
  <2>2. \A k \in Votes \ {n} : voting'[k] = voting[k]
    BY <1>3 DEF Inv, Typed
  <2>3. voting[n] \in [stage : {"none", "sent", "counted", "over"}, list : Lists \cup {0},
          value : {-1, 0, 1}, previous : {-1, 0, 1}, total : Int, at : Nat]
    BY DEF Inv, Typed
  <2>4. voting'[n].stage = "counted" /\ voting'[n].value = value /\ voting'[n].list = voting[n].list
    BY <2>1, <2>3, <1>2
  <2>5. QED
    BY <2>2, <2>4
<1>7. mine'[l] = value /\ \A m \in Lists \ {l} : mine'[m] = mine[m]
  BY <1>4 DEF Inv, Typed
<1>8. Typed'
  <2> DEFINE Ballots == [stage : {"none", "sent", "counted", "over"}, list : Lists \cup {0},
                value : {-1, 0, 1}, previous : {-1, 0, 1}, total : Int, at : Nat]
             new == [voting[n] EXCEPT !.stage = "counted", !.total = total, !.at = clock + 1]
  <2>1. voting \in [Votes -> Ballots] /\ clock \in Nat
    BY DEF Inv, Typed
  <2>2. new \in Ballots
    <3>1. PICK b \in Ballots : b = voting[n]
      BY <2>1
    <3>2. clock + 1 \in Nat /\ total \in Int
      BY <2>1
    <3>3. [b EXCEPT !.stage = "counted"] \in Ballots
      BY <3>1
    <3>4. [b EXCEPT !.stage = "counted", !.total = total] \in Ballots
      BY <3>2, <3>3
    <3>5. [b EXCEPT !.stage = "counted", !.total = total, !.at = clock + 1] \in Ballots
      BY <3>2, <3>4
    <3>6. QED
      BY <3>1, <3>5
  <2>3. voting' = [voting EXCEPT ![n] = new]
    BY <1>3
  <2> HIDE DEF Ballots, new
  <2>4. voting' \in [Votes -> Ballots]
    BY <2>1, <2>2, <2>3
  <2>5. QED
    BY <2>4, <1>4, <1>5 DEF Ballots, Inv, Typed
<1>9. (\A k \in Votes : InFlight(k)' <=> InFlight(k)) /\ InFlight(n)
  BY <1>4, <1>6 DEF InFlight
<1>10. \A m \in Lists : (Settled(m)' <=> Settled(m)) /\ (Pending(m)' <=> Pending(m))
  BY <1>4, <1>6, <1>9 DEF Settled, Pending
<1>11. \A k \in Votes : VoteInv(k)
  BY DEF Inv
<1>12. VoteInv(n)'
  BY <1>1, <1>2, <1>4, <1>6, <1>7, <1>9, <1>11 DEF VoteInv
<1>13. ASSUME NEW k \in Votes \ {n} PROVE VoteInv(k)'
  <2>1. CASE InFlight(k) /\ voting[k].list \notin tangled
    <3>1. voting[k].list \in Lists /\ voting[k].list # l
      BY <2>1, <1>1, <1>9, <1>11 DEF VoteInv
    <3>2. QED
      BY <2>1, <3>1, <1>4, <1>6, <1>7, <1>9, <1>10, <1>11 DEF VoteInv
  <2>2. CASE ~(InFlight(k) /\ voting[k].list \notin tangled)
    BY <2>2, <1>4, <1>6, <1>9, <1>11 DEF VoteInv
  <2>3. QED
    BY <2>1, <2>2
<1>14. SettledInv'
  <2>1. Pending(l)'
    BY <1>1, <1>6, <1>9 DEF Pending
  <2>2. QED
    BY <2>1, <1>4, <1>7, <1>10 DEF Inv, SettledInv
<1>15. QED
  BY <1>8, <1>12, <1>13, <1>14 DEF Inv

\* A vote is over: saved and kept, or failed and taken back.
LEMMA VoteOver ==
  ASSUME Inv, NEW n \in Votes, InFlight(n), UNCHANGED <<mine, others, clock>>,
         NEW new \in [stage : {"over"}, list : Lists \cup {0}, value : {0}, previous : {0},
                      total : {0}, at : {0}],
         voting' = [voting EXCEPT ![n] = new],
         \/ /\ voting[n].stage = "counted" /\ new.list = voting[n].list
            /\ UNCHANGED <<myVotes, tangled>>
         \/ /\ new.list = 0
            /\ myVotes' = [myVotes EXCEPT ![voting[n].list] = voting[n].previous]
            /\ tangled' = tangled \cup IF voting[n].stage = "counted" THEN {voting[n].list} ELSE {}
  PROVE  Inv'
<1>0. PICK l \in Lists : l = voting[n].list
  BY DEF Inv, VoteInv
<1>1. voting[n].previous \in {-1, 0, 1} /\ voting[n].list \in Lists
  BY <1>0 DEF Inv, Typed
<1>2. Typed'
  BY <1>0, <1>1 DEF Inv, Typed
<1>3. voting'[n] = new /\ \A k \in Votes \ {n} : voting'[k] = voting[k]
  BY DEF Inv, Typed
<1>4. ~InFlight(n)' /\ \A k \in Votes \ {n} : InFlight(k)' <=> InFlight(k)
  BY <1>3 DEF InFlight
<1>5. \A m \in Lists \ {l} : /\ myVotes'[m] = myVotes[m]
                             /\ Settled(m)' <=> Settled(m)
                             /\ Pending(m)' <=> Pending(m)
  <2>1. \A m \in Lists \ {l} : myVotes'[m] = myVotes[m]
    BY <1>0, <1>1 DEF Inv, Typed
  <2>2. 0 \notin Lists
    BY DEF Lists
  <2>3. \A m \in Lists \ {l} : new.list # m
    BY <2>2, <1>0
  <2>4. voting[n].stage # "over"
    BY DEF InFlight
  <2>5. ASSUME NEW m \in Lists \ {l} PROVE Settled(m)' <=> Settled(m)
    BY <2>3, <2>4, <1>0, <1>3 DEF Settled
  <2>6. ASSUME NEW m \in Lists \ {l} PROVE Pending(m)' <=> Pending(m)
    BY <2>3, <1>0, <1>3, <1>4 DEF Pending
  <2>7. QED
    BY <2>1, <2>5, <2>6
<1>6. tangled \subseteq tangled'
  OBVIOUS
<1>7. ASSUME NEW k \in Votes PROVE VoteInv(k)'
  <2>1. CASE k # n /\ InFlight(k) /\ voting[k].list \notin tangled'
    <3>1. voting[k].list \in Lists /\ voting[k].list # l
      BY <2>1, <1>0, <1>6 DEF Inv, VoteInv
    <3>2. QED
      BY <2>1, <3>1, <1>3, <1>4, <1>5, <1>6 DEF Inv, VoteInv
  <2>2. CASE k = n \/ ~InFlight(k) \/ voting[k].list \in tangled'
    BY <2>2, <1>3, <1>4 DEF Inv, VoteInv
  <2>3. QED
    BY <2>1, <2>2
<1>8. ASSUME l \notin tangled', Settled(l)' PROVE myVotes'[l] = mine'[l]
  <2>1. l \notin tangled
    BY <1>6, <1>8
  <2>2. CASE voting[n].stage = "counted"
    BY <2>1, <2>2, <1>0, <1>8 DEF Inv, VoteInv
  <2>3. CASE voting[n].stage = "sent"
    <3>1. /\ new.list = 0
          /\ myVotes' = [myVotes EXCEPT ![l] = voting[n].previous]
      BY <2>3, <1>0
    <3>2. Settled(l)
      BY <3>1, <1>1, <1>3, <1>8 DEF Settled, Lists
    <3>3. voting[n].previous = mine[l]
      BY <2>1, <2>3, <3>2, <1>0 DEF Inv, VoteInv
    <3>4. QED
      BY <3>1, <3>3, <1>1 DEF Inv, Typed
  <2>4. QED
    BY <2>2, <2>3 DEF InFlight
<1>9. SettledInv'
  BY <1>1, <1>5, <1>6, <1>8 DEF Inv, SettledInv
<1>10. QED
  BY <1>2, <1>7, <1>9 DEF Inv

LEMMA VoteOverStep ==
  ASSUME Inv, NEW n \in Votes, VoteSaved(n) \/ VoteFails(n)
  PROVE  Inv'
<1>1. CASE VoteSaved(n)
  <2> DEFINE new == Ballot("over", voting[n].list, 0, 0)
  <2>1. voting[n].list \in Lists
    BY <1>1 DEF VoteSaved, InFlight, Inv, VoteInv
  <2>2. new = [stage |-> "over", list |-> voting[n].list, value |-> 0, previous |-> 0,
               total |-> 0, at |-> 0]
    BY DEF Ballot
  <2>3. /\ voting' = [voting EXCEPT ![n] = new] /\ voting[n].stage = "counted"
        /\ UNCHANGED <<mine, others, clock, myVotes, tangled>>
    BY <1>1 DEF VoteSaved, server
  <2> HIDE DEF new
  <2>4. new \in [stage : {"over"}, list : Lists \cup {0}, value : {0}, previous : {0},
                 total : {0}, at : {0}] /\ new.list = voting[n].list
    BY <2>1, <2>2
  <2>5. QED
    BY <2>3, <2>4, VoteOver DEF InFlight
<1>2. CASE VoteFails(n)
  <2> DEFINE new == Ballot("over", 0, 0, 0)
  <2>1. new = [stage |-> "over", list |-> 0, value |-> 0, previous |-> 0, total |-> 0, at |-> 0]
    BY DEF Ballot
  <2>2. /\ voting' = [voting EXCEPT ![n] = new] /\ InFlight(n)
        /\ UNCHANGED <<mine, others, clock>>
        /\ myVotes' = [myVotes EXCEPT ![voting[n].list] = voting[n].previous]
        /\ tangled' = tangled \cup IF voting[n].stage = "counted" THEN {voting[n].list} ELSE {}
    BY <1>2 DEF VoteFails, server
  <2> HIDE DEF new
  <2>3. new \in [stage : {"over"}, list : Lists \cup {0}, value : {0}, previous : {0},
                 total : {0}, at : {0}] /\ new.list = 0
    BY <2>1
  <2>4. QED
    BY <2>2, <2>3, VoteOver
<1>3. QED
  BY <1>1, <1>2

\* The other members, and what the page does with playlists.
LEMMA ServerStepInv == Inv /\ ServerStep => Inv'
<1> SUFFICES ASSUME Inv, ServerStep PROVE Inv'
  OBVIOUS
<1>1. ASSUME \E n \in Votes : VoteCounted(n) PROVE Inv'
  BY <1>1, VoteCountedStep
<1>2. CASE OthersVote
  <2>1. PICK l \in Done : others' = [others EXCEPT ![l] = @ + 1] /\ Commit("vote", l, Total(l) + 1)
    BY <1>2 DEF OthersVote
  <2>2. others' \in [Lists -> Int] /\ clock' \in Nat
    BY <2>1, CommitClock DEF Inv, Typed, Done
  <2>3. QED
    BY <1>2, <2>2, QuietStep DEF OthersVote, requests, page
<1>3. ASSUME NEW l, Generate(l) PROVE others' \in [Lists -> Int] /\ clock' \in Nat /\ UNCHANGED mine
  BY <1>3, CommitClock DEF Generate, Inv, Typed
<1>4. CASE OthersGenerate \/ \E b \in Buttons : PostGenerates(b)
  <2>1. others' \in [Lists -> Int] /\ clock' \in Nat /\ UNCHANGED mine
    BY <1>3, <1>4 DEF OthersGenerate, PostGenerates
  <2>2. UNCHANGED <<voting, myVotes, tangled>>
    BY <1>4 DEF OthersGenerate, PostGenerates, requests, page
  <2>3. QED
    BY <2>1, <2>2, QuietStep
<1>5. CASE RedisPublish \/ OthersBegin \/ \E g \in Gets : Read(g)
  <2>1. UNCHANGED <<voting, mine, myVotes, tangled, others, clock>>
    BY <1>5 DEF RedisPublish, OthersBegin, Read, server, requests, page
  <2>2. QED
    BY <2>1, QuietStep DEF Inv, Typed
<1>6. QED
  BY <1>1, <1>2, <1>4, <1>5 DEF ServerStep

LEMMA PageStepInv == Inv /\ PageStep => Inv'
<1> SUFFICES ASSUME Inv, PageStep PROVE Inv'
  OBVIOUS
<1>1. CASE \/ Render \/ Connect \/ Disconnect \/ Hear
           \/ \E g \in Gets : Arrives(g) \/ GetFails(g)
           \/ \E b \in Buttons : Built(b) \/ PostFails(b)
           \/ Build \/ ChangeMode \/ Switched
  <2>1. UNCHANGED <<voting, mine, myVotes, tangled, others, clock>>
    BY <1>1 DEF Render, Connect, Disconnect, Hear, Arrives, GetFails, Built, PostFails, Build,
                ChangeMode, Switched, Ask, server, requests, page
  <2>2. QED
    BY <2>1, QuietStep DEF Inv, Typed
<1>2. QED
  BY <1>1, VoteStep, VoteOverStep DEF PageStep

LEMMA NextInv == Inv /\ [Next]_vars => Inv'
<1> SUFFICES ASSUME Inv, [Next]_vars PROVE Inv'
  OBVIOUS
<1>1. CASE UNCHANGED vars
  <2>1. UNCHANGED <<voting, mine, myVotes, tangled, others, clock>>
    BY <1>1 DEF vars, server, requests, page
  <2>2. QED
    BY <2>1, QuietStep DEF Inv, Typed
<1>2. QED
  BY <1>1, ServerStepInv, PageStepInv DEF Next

\* RoomView, "never to a lost vote": however votes, answers and failures
\* interleave, a vote that is over and that nothing overlapped is the one the
\* page shows and the one the server counts.
THEOREM OwnVotesCount == Spec => []OwnVoteCounts
<1>1. Inv => OwnVoteCounts
  <2> SUFFICES ASSUME Inv, NEW n \in Votes, voting[n].stage = "over", voting[n].list # 0,
                      voting[n].list \notin tangled, ~Pending(voting[n].list)
               PROVE  myVotes[voting[n].list] = mine[voting[n].list]
    BY DEF OwnVoteCounts
  <2>1. voting[n].list \in Lists
    BY DEF Inv, Typed
  <2>2. Settled(voting[n].list)
    BY DEF Settled
  <2>3. QED
    BY <2>1, <2>2 DEF Inv, SettledInv
<1>2. QED
  BY <1>1, InitInv, NextInv, PTL DEF Spec
-----------------------------------------------------------------------------
(* What the page shows                                                     *)

Events == [what : {"generated", "vote"}, list : Lists, total : Int, at : Nat]
Carried == posts \cup {inbox[i] : i \in DOMAIN inbox}

PageTyped ==
  /\ lists \in [Lists -> {"none", "began", "done"}]
  /\ posts \subseteq Events /\ inbox \in Seq(Events)
  /\ gets \in [Gets -> [stage : {"none", "sent", "read"}, first : BOOLEAN, value : Values, at : Nat]]
  /\ making \in [Buttons -> [stage : {"none", "patch", "began", "done"}, list : 0..MaxLists, at : Nat]]
  /\ view \in Values /\ drawn \in Values
  /\ seen \in Nat /\ asof \in Nat /\ lost \in Nat
  /\ crossed \in BOOLEAN /\ overlapped \in BOOLEAN

\* The answers that bring a playlist, and what brings a new total of its votes.
Answers ==
  {[id |-> gets[g].value.id, total |-> gets[g].value.total, at |-> gets[g].at] :
     g \in {h \in Gets : gets[h].stage = "read"}}
  \cup {[id |-> making[b].list, total |-> 0, at |-> making[b].at] :
          b \in {c \in Buttons : making[c].stage = "done"}}
Totals ==
  {[list |-> e.list, total |-> e.total, at |-> e.at] : e \in {f \in Carried : f.what = "vote"}}
  \cup {[list |-> voting[n].list, total |-> voting[n].total, at |-> voting[n].at] :
          n \in {m \in Votes : voting[m].stage = "counted"}}

\* Whatever is shown or on its way has been committed.
CommittedInv ==
  /\ seen <= clock /\ asof <= seen /\ lost <= clock
  /\ view.id \in Done \cup {0} /\ drawn.id \in Done \cup {0}
  /\ \A e \in Carried : e.at <= clock
  /\ \A a \in Answers : a.at <= clock /\ a.id \in Done \cup {0}
  /\ \A p \in Totals : p.at <= clock /\ p.list \in Done
  /\ \A n \in Votes : InFlight(n) => voting[n].list \in Done
  /\ \A l \in Lists \ Done : mine[l] = 0 /\ others[l] = 0
  /\ \A b \in Buttons : making[b].stage = "began" => making[b].list \in Lists

\* Of the list `id` as it was at commit `at`: it is the latest, or the page is
\* going to hear that it is not.
Told(at, id) ==
  \/ id = Newest(Done)
  \/ \E e \in Carried : e.what = "generated" /\ e.at > at
  \/ \E g \in Gets : gets[g].stage = "sent"
  \/ \E g \in Gets : gets[g].stage = "read" /\ gets[g].at > at /\ gets[g].value.id = Newest(Done)

\* And of its total.
Counted(at, l, total) ==
  \/ total = Total(l)
  \/ \E e \in Carried : e.what = "vote" /\ e.list = l /\ e.at > at

AnswersInv ==
  \A a \in Answers :
    /\ ~overlapped /\ a.at = clock => a.id = Newest(Done)
    /\ a.at >= seen /\ a.at >= lost =>
         /\ ~overlapped => Told(a.at, a.id)
         /\ Counted(a.at, a.id, a.total)

TotalsInv ==
  \A p \in Totals : p.at >= seen /\ p.at >= lost => Counted(p.at, p.list, p.total)

ViewInv ==
  ~crossed =>
    /\ ~overlapped /\ asof = clock => view.id = Newest(Done)
    /\ asof >= lost =>
         /\ ~overlapped => Told(asof, view.id)
         /\ Counted(asof, view.id, view.total)

\* Until generations overlap, later answers have later lists.
OrderInv ==
  ~overlapped =>
    /\ \A a, b \in Answers : a.at <= b.at => a.id <= b.id
    /\ \A a \in Answers : a.at >= seen => view.id <= a.id /\ drawn.id <= a.id

PageInv == PageTyped /\ CommittedInv /\ AnswersInv /\ TotalsInv /\ ViewInv /\ OrderInv

LEMMA Bounds == MaxLists \in Nat /\ 0 \notin Lists /\ Lists \subseteq Nat
                /\ \A l \in Lists : l <= MaxLists
BY BoundsAssumption DEF Lists

LEMMA Greatest ==
  ASSUME NEW S \in SUBSET Nat, S # {}, NEW bound \in Nat, \A x \in S : x <= bound
  PROVE  Max(S) \in S /\ \A x \in S : x <= Max(S)
<1> DEFINE R == OpToRel(<, Nat)
           T == {bound - x : x \in S}
<1>1. \A x, y \in Nat : x < y => <<x, y>> \in R
  BY Zenon DEF OpToRel
<1>2. IsWellFoundedOn(R, Nat)
  BY NatLessThanWellFounded, Zenon
<1>0. \A x \in S : x \in Nat /\ bound - x \in Nat
  OBVIOUS
<1>3. T \subseteq Nat /\ T # {}
  BY <1>0
<1> HIDE DEF R
<1>4. PICK t \in T : \A u \in T : ~(<<u, t>> \in R)
  BY <1>2, <1>3, WFMin
<1>5. PICK y \in S : t = bound - y
  OBVIOUS
<1>6. \A x \in S : ~(bound - x < bound - y)
  <2> SUFFICES ASSUME NEW x \in S PROVE ~(bound - x < bound - y)
    OBVIOUS
  <2>1. bound - x \in T
    OBVIOUS
  <2>2. QED
    BY <1>0, <1>1, <1>4, <1>5, <2>1
<1> HIDE DEF T
<1>7. \A x \in S : y >= x
  BY <1>0, <1>6
<1>8. QED
  BY <1>7 DEF Max

LEMMA LaterOf ==
  ASSUME NEW a \in Nat, NEW b \in Nat
  PROVE  Max({a, b}) \in Nat /\ Max({a, b}) = IF a <= b THEN b ELSE a
<1>1. PICK top \in {a, b} : \A x \in {a, b} : top >= x
  OBVIOUS
<1>2. Max({a, b}) \in {a, b} /\ \A x \in {a, b} : Max({a, b}) >= x
  BY <1>1 DEF Max
<1>3. QED
  BY <1>2

LEMMA NewestFacts ==
  ASSUME NEW ls \in SUBSET Lists
  PROVE  Newest(ls) \in ls \cup {0} /\ \A l \in ls \cup {0} : l <= Newest(ls)
<1>1. CASE ls = {}
  BY <1>1 DEF Newest
<1>2. CASE ls # {}
  <2>1. ls \in SUBSET Nat /\ MaxLists \in Nat /\ \A l \in ls : l <= MaxLists
    BY Bounds
  <2>2. Max(ls) \in ls /\ \A l \in ls : l <= Max(ls)
    BY <1>2, <2>1, Greatest
  <2>3. 0 <= Max(ls)
    <3>1. PICK m \in Nat : m = Max(ls)
      BY <2>1, <2>2
    <3>2. QED
      BY <3>1
  <2>4. QED
    BY <1>2, <2>2, <2>3 DEF Newest
<1>3. QED
  BY <1>1, <1>2

LEMMA DoneFacts == Done \subseteq Lists /\ Newest(Done) \in Done \cup {0}
                   /\ \A l \in Done \cup {0} : l <= Newest(Done)
BY NewestFacts DEF Done

LEMMA DoneNumbers == \A l \in Done \cup {0} : l \in Nat
<1>1. Lists \subseteq Nat
  BY Bounds
<1>2. Done \subseteq Lists
  BY DEF Done
<1>3. QED
  BY <1>1, <1>2

LEMMA AppendFacts ==
  ASSUME NEW S, NEW box \in Seq(S), NEW e \in S, NEW longer, longer = Append(box, e)
  PROVE  /\ longer \in Seq(S)
         /\ {longer[i] : i \in DOMAIN longer} = {box[i] : i \in DOMAIN box} \cup {e}
<1>1. /\ longer \in Seq(S) /\ Len(longer) = Len(box) + 1 /\ Len(box) \in Nat
      /\ longer[Len(box) + 1] = e /\ \A i \in 1..Len(box) : longer[i] = box[i]
      /\ DOMAIN box = 1..Len(box) /\ DOMAIN longer = 1..Len(longer)
  BY AppendProperties, LenProperties
<1>2. \A i : i \in DOMAIN longer <=> i \in DOMAIN box \/ i = Len(box) + 1
  BY <1>1
<1>3. {longer[i] : i \in DOMAIN longer} = {box[i] : i \in DOMAIN box} \cup {e}
  BY <1>1, <1>2
<1>4. QED
  BY <1>1, <1>3, Zenon

LEMMA TailFacts ==
  ASSUME NEW S, NEW box \in Seq(S), box # <<>>
  PROVE  /\ \E i \in DOMAIN box : box[i] = Head(box)
         /\ Tail(box) \in Seq(S)
         /\ \A i \in DOMAIN Tail(box) : \E j \in DOMAIN box : Tail(box)[i] = box[j]
         /\ \A i \in DOMAIN box :
              box[i] = Head(box) \/ \E j \in DOMAIN Tail(box) : box[i] = Tail(box)[j]
<1>0. PICK rest : rest = Tail(box)
  OBVIOUS
<1>1. /\ rest \in Seq(S) /\ Len(rest) = Len(box) - 1 /\ Len(box) \in Nat /\ Len(box) >= 1
      /\ \A i \in 1..Len(rest) : rest[i] = box[i + 1]
      /\ DOMAIN box = 1..Len(box) /\ DOMAIN rest = 1..Len(rest) /\ Head(box) = box[1]
  BY <1>0, HeadTailProperties, LenProperties, EmptySeq
<1>2. \A i \in DOMAIN rest : i + 1 \in DOMAIN box /\ rest[i] = box[i + 1]
  BY <1>1
<1>3. \A i \in DOMAIN box : i = 1 \/ (i - 1 \in DOMAIN rest /\ box[i] = rest[i - 1])
  BY <1>1
<1>4. 1 \in DOMAIN box
  BY <1>1
<1>5. \E i \in DOMAIN box : box[i] = Head(box)
  BY <1>1, <1>4
<1>6. \A i \in DOMAIN rest : \E j \in DOMAIN box : rest[i] = box[j]
  BY <1>2
<1>7. ASSUME NEW i \in DOMAIN box
      PROVE  box[i] = Head(box) \/ \E j \in DOMAIN rest : box[i] = rest[j]
  <2>1. CASE i = 1
    BY <1>1, <2>1
  <2>2. CASE i - 1 \in DOMAIN rest /\ box[i] = rest[i - 1]
    BY <2>2, Zenon
  <2>3. QED
    BY <1>3, <2>1, <2>2
<1>8. QED
  BY <1>0, <1>1, <1>5, <1>6, <1>7

LEMMA NewestNext ==
  ASSUME NEW ls, Done' = ls
  PROVE  Newest(Done)' = Newest(ls)
BY DEF Newest, Max

LEMMA TotalsAreNumbers ==
  ASSUME Typed
  PROVE  /\ \A l \in Lists \cup {0} : Total(l) \in Int
         /\ Total(0) = 0 /\ \A l \in Lists : Total(l) = mine[l] + others[l]
BY Bounds DEF Typed, Total

LEMMA InFlightTypes ==
  ASSUME Inv, PageTyped, CommittedInv
  PROVE  /\ Carried \subseteq Events
         /\ \A a \in Answers : a.id \in Nat /\ a.total \in Int /\ a.at \in Nat
         /\ \A p \in Totals : p.list \in Lists /\ p.total \in Int /\ p.at \in Nat
         /\ view.id \in Nat /\ drawn.id \in Nat /\ Newest(Done) \in Nat /\ clock \in Nat
<1>1. Carried \subseteq Events
  BY ElementOfSeq DEF PageTyped, Carried
<1>2. \A a \in Answers : a.id \in Nat /\ a.total \in Int /\ a.at \in Nat
  <2>1. ASSUME NEW g \in Gets
        PROVE gets[g].value.id \in Nat /\ gets[g].value.total \in Int /\ gets[g].at \in Nat
    BY Bounds DEF PageTyped, Values
  <2>2. ASSUME NEW b \in Buttons PROVE making[b].list \in Nat /\ making[b].at \in Nat
    BY Bounds DEF PageTyped
  <2>3. QED
    BY <2>1, <2>2 DEF Answers
<1>3. \A p \in Totals : p.list \in Lists /\ p.total \in Int /\ p.at \in Nat
  <2>1. \A e \in Carried : e.total \in Int /\ e.at \in Nat
    BY <1>1 DEF Events
  <2>2. \A n \in Votes : voting[n].total \in Int /\ voting[n].at \in Nat
    BY DEF Inv, Typed
  <2>3. \A p \in Totals : p.list \in Lists
    BY DoneFacts DEF CommittedInv
  <2>4. QED
    BY <2>1, <2>2, <2>3 DEF Totals
<1>4. view.id \in Nat /\ drawn.id \in Nat
  BY Bounds DEF PageTyped, Values
<1>5. Newest(Done) \in Nat
  <2>1. Newest(Done) \in Done \cup {0}
    BY DoneFacts
  <2>2. QED
    BY <2>1, DoneNumbers, Zenon
<1>6. QED
  BY <1>1, <1>2, <1>3, <1>4, <1>5 DEF Inv, Typed

\* Nothing is committed and nothing new is shown.  An event may be lost, or
\* start a fetch; an answer may be lost, and one that is read is up to date.
LEMMA QuietPage ==
  ASSUME Inv, Inv', PageInv, PageTyped', Done' = Done,
         UNCHANGED <<mine, others, clock, overlapped, view, asof, seen, crossed>>,
         drawn' \in {drawn, view}, lost <= lost', lost' <= clock,
         \A n \in Votes : InFlight(n)' => voting'[n].list \in Done,
         \A b \in Buttons : making'[b].stage = "began" => making'[b].list \in Lists,
         Carried' \subseteq Carried,
         \A e \in Carried \ Carried' :
           e.at <= lost' \/ (e.what # "vote" /\ \E g \in Gets : gets'[g].stage = "sent"),
         \A a \in Answers' :
           a \in Answers \/ (a.id = Newest(Done) /\ a.total = Total(a.id) /\ a.at = clock),
         Totals' \subseteq Totals,
         \A g \in Gets :
           \/ gets'[g] = gets[g] \/ gets[g].stage = "none" \/ lost' = clock
           \/ gets'[g].stage = "read" /\ gets'[g].at = clock /\ gets'[g].value.id = Newest(Done)
  PROVE  PageInv'
<1>0. Newest(Done)' = Newest(Done)
  BY NewestNext
<1>1. \A l : Total(l)' = Total(l)
  BY DEF Total
<1>2. ASSUME NEW at \in Nat, NEW id, at >= lost', at <= clock, at = clock => id = Newest(Done),
             Told(at, id)
      PROVE  Told(at, id)'
  <2>1. CASE id = Newest(Done)
    BY <1>0, <2>1 DEF Told
  <2>2. CASE id # Newest(Done) /\ \E e \in Carried : e.what = "generated" /\ e.at > at
    <3>1. PICK e \in Carried : e.what = "generated" /\ e.at > at
      BY <2>2
    <3>2. e.at \in Nat /\ lost' \in Nat
      BY <3>1, InFlightTypes DEF PageInv, Events, PageTyped
    <3>3. QED
      BY <3>1, <3>2, <1>2 DEF Told
  <2>3. CASE id # Newest(Done) /\ \E g \in Gets :
               \/ gets[g].stage = "sent"
               \/ gets[g].stage = "read" /\ gets[g].at > at /\ gets[g].value.id = Newest(Done)
    <3>1. PICK g \in Gets :
               \/ gets[g].stage = "sent"
               \/ gets[g].stage = "read" /\ gets[g].at > at /\ gets[g].value.id = Newest(Done)
      BY <2>3
    <3>2. clock \in Nat /\ lost' # clock /\ clock > at
      BY <2>3, <1>2, InFlightTypes DEF PageInv
    <3>3. QED
      BY <1>0, <3>1, <3>2 DEF Told
  <2>4. QED
    BY <1>2, <2>1, <2>2, <2>3 DEF Told
<1>3. ASSUME NEW at \in Nat, NEW l, NEW total, at >= lost', Counted(at, l, total)
      PROVE  Counted(at, l, total)'
  <2>1. \A e \in Carried : e.at \in Nat /\ lost' \in Nat
    BY InFlightTypes DEF PageInv, Events, PageTyped
  <2>2. QED
    BY <1>1, <1>3, <2>1 DEF Counted
<1>4. /\ \A a \in Answers : a.id \in Nat /\ a.at \in Nat /\ a.at <= clock /\ a.id <= Newest(Done)
      /\ lost \in Nat /\ lost' \in Nat /\ seen \in Nat /\ asof \in Nat /\ clock \in Nat
      /\ view.id \in Nat /\ view.id <= Newest(Done) /\ drawn.id \in Nat /\ drawn.id <= Newest(Done)
      /\ Newest(Done) \in Done \cup {0} /\ asof <= clock /\ Newest(Done) \in Nat
      /\ \A p \in Totals : p.at \in Nat /\ p.list \in Lists
  BY InFlightTypes, DoneFacts DEF PageInv, PageTyped, CommittedInv
<1>5. CommittedInv'
  BY <1>4 DEF PageInv, CommittedInv
<1>6. AnswersInv'
  <2> SUFFICES ASSUME NEW a \in Answers'
               PROVE  /\ ~overlapped /\ a.at = clock => a.id = Newest(Done)
                      /\ a.at >= seen /\ a.at >= lost' =>
                           /\ ~overlapped => Told(a.at, a.id)'
                           /\ Counted(a.at, a.id, a.total)'
    BY <1>0 DEF AnswersInv
  <2>1. CASE a \in Answers
    <3>1. /\ ~overlapped /\ a.at = clock => a.id = Newest(Done)
          /\ a.at >= seen /\ a.at >= lost =>
               (~overlapped => Told(a.at, a.id)) /\ Counted(a.at, a.id, a.total)
      BY <2>1 DEF PageInv, AnswersInv
    <3>2. a.at >= lost' => a.at >= lost
      BY <1>4, <2>1
    <3>3. QED
      BY <2>1, <3>1, <3>2, <1>2, <1>3, <1>4
  <2>2. CASE a.id = Newest(Done) /\ a.total = Total(a.id) /\ a.at = clock
    BY <2>2, <1>0, <1>1 DEF Told, Counted
  <2>3. QED
    BY <2>1, <2>2
<1>7. TotalsInv'
  <2> SUFFICES ASSUME NEW p \in Totals', p.at >= seen, p.at >= lost'
               PROVE  Counted(p.at, p.list, p.total)'
    BY DEF TotalsInv
  <2>1. p \in Totals /\ p.at >= lost
    BY <1>4
  <2>2. Counted(p.at, p.list, p.total)
    BY <2>1 DEF PageInv, TotalsInv
  <2>3. QED
    BY <2>1, <2>2, <1>3, <1>4
<1>8. ViewInv'
  <2> SUFFICES ASSUME ~crossed
               PROVE  /\ ~overlapped /\ asof = clock => view.id = Newest(Done)
                      /\ asof >= lost' =>
                           /\ ~overlapped => Told(asof, view.id)'
                           /\ Counted(asof, view.id, view.total)'
    BY <1>0 DEF ViewInv
  <2>1. /\ ~overlapped /\ asof = clock => view.id = Newest(Done)
        /\ asof >= lost => (~overlapped => Told(asof, view.id)) /\ Counted(asof, view.id, view.total)
    BY DEF PageInv, ViewInv
  <2>2. asof >= lost' => asof >= lost
    BY <1>4
  <2>3. QED
    BY <2>1, <2>2, <1>2, <1>3, <1>4
<1>9. OrderInv'
  <2> SUFFICES ASSUME ~overlapped
               PROVE  /\ \A a, b \in Answers' : a.at <= b.at => a.id <= b.id
                      /\ \A a \in Answers' : a.at >= seen => view.id <= a.id /\ drawn'.id <= a.id
    BY DEF OrderInv
  <2>1. \A a \in Answers : a.at = clock => a.id = Newest(Done)
    BY DEF PageInv, AnswersInv
  <2>2. /\ \A a, b \in Answers : a.at <= b.at => a.id <= b.id
        /\ \A a \in Answers : a.at >= seen => view.id <= a.id /\ drawn.id <= a.id
    BY DEF PageInv, OrderInv
  <2>3. ASSUME NEW a \in Answers', NEW b \in Answers', a.at <= b.at PROVE a.id <= b.id
    BY <1>4, <2>1, <2>2, <2>3
  <2>4. ASSUME NEW a \in Answers', a.at >= seen PROVE view.id <= a.id /\ drawn'.id <= a.id
    BY <1>4, <2>1, <2>2, <2>4
  <2>5. QED
    BY <2>3, <2>4
<1>10. QED
  BY <1>5, <1>6, <1>7, <1>8, <1>9 DEF PageInv

\* An answer is shown, over whatever is shown.  None that is older than it can
\* be shown after it and pass for current.
LEMMA ShowPage ==
  ASSUME Inv, Inv', PageInv, PageTyped', Done' = Done, NEW a \in Answers,
         UNCHANGED <<mine, others, clock, posts, inbox, voting, drawn, lost, overlapped>>,
         view'.id = a.id, view'.total = a.total, asof' = a.at, crossed' = (a.at < seen),
         seen' = Max({seen, a.at}), Answers' \subseteq Answers,
         \A b \in Buttons : making'[b].stage = "began" => making'[b].list \in Lists,
         \A g \in Gets : gets'[g] = gets[g] \/ (gets[g].stage = "read" /\ gets[g].at = a.at)
  PROVE  PageInv'
<1>0. Newest(Done)' = Newest(Done) /\ Carried' = Carried /\ Totals' = Totals
  BY NewestNext DEF Carried, Totals
<1>1. \A l : Total(l)' = Total(l)
  BY DEF Total
<1>2. /\ seen \in Nat /\ a.at \in Nat /\ lost \in Nat /\ clock \in Nat
      /\ \A b \in Answers : b.id \in Nat /\ b.at \in Nat
      /\ \A p \in Totals : p.at \in Nat
      /\ view.id \in Nat /\ drawn.id \in Nat
  BY InFlightTypes DEF PageInv, PageTyped
<1>3. seen' \in Nat /\ seen <= seen' /\ a.at <= seen' /\ (seen' = seen \/ seen' = a.at)
  BY <1>2, LaterOf
<1>4. ASSUME NEW at \in Nat, NEW id, at >= a.at, Told(at, id) PROVE Told(at, id)'
  <2>1. \A g \in Gets : gets[g].stage = "sent" => gets'[g] = gets[g]
    OBVIOUS
  <2>2. \A g \in Gets : gets[g].at > at => gets'[g] = gets[g]
    BY <1>2, <1>4
  <2>3. QED
    BY <1>0, <1>4, <2>1, <2>2 DEF Told
<1>5. \A at, l, total : Counted(at, l, total) => Counted(at, l, total)'
  BY <1>0, <1>1 DEF Counted
<1>6. CommittedInv'
  <2>1. a.at <= clock /\ a.id \in Done \cup {0} /\ seen <= clock /\ lost <= clock
    BY DEF PageInv, CommittedInv
  <2>2. seen' <= clock /\ asof' <= seen'
    BY <1>2, <1>3, <2>1
  <2>3. \A n \in Votes : InFlight(n)' <=> InFlight(n)
    BY DEF InFlight
  <2>4. QED
    BY <1>0, <2>1, <2>2, <2>3 DEF PageInv, CommittedInv
<1>7. AnswersInv'
  <2> SUFFICES ASSUME NEW b \in Answers'
               PROVE  /\ ~overlapped /\ b.at = clock => b.id = Newest(Done)
                      /\ b.at >= seen' /\ b.at >= lost =>
                           /\ ~overlapped => Told(b.at, b.id)'
                           /\ Counted(b.at, b.id, b.total)'
    BY <1>0 DEF AnswersInv
  <2>1. /\ ~overlapped /\ b.at = clock => b.id = Newest(Done)
        /\ b.at >= seen /\ b.at >= lost =>
             (~overlapped => Told(b.at, b.id)) /\ Counted(b.at, b.id, b.total)
    BY DEF PageInv, AnswersInv
  <2>2. b.at \in Nat /\ (b.at >= seen' => b.at >= seen /\ b.at >= a.at)
    BY <1>2, <1>3
  <2>3. QED
    BY <2>1, <2>2, <1>4, <1>5
<1>8. TotalsInv'
  <2> SUFFICES ASSUME NEW p \in Totals, p.at >= seen', p.at >= lost
               PROVE  Counted(p.at, p.list, p.total)'
    BY <1>0 DEF TotalsInv
  <2>1. p.at >= seen
    BY <1>2, <1>3
  <2>2. QED
    BY <1>5, <2>1 DEF PageInv, TotalsInv
<1>9. ViewInv'
  <2> SUFFICES ASSUME ~(a.at < seen)
               PROVE  /\ ~overlapped /\ a.at = clock => a.id = Newest(Done)
                      /\ a.at >= lost =>
                           /\ ~overlapped => Told(a.at, a.id)'
                           /\ Counted(a.at, a.id, a.total)'
    BY <1>0 DEF ViewInv, Told, Counted
  <2>1. a.at >= seen
    BY <1>2
  <2>2. QED
    BY <1>2, <1>4, <1>5, <2>1 DEF PageInv, AnswersInv
<1>10. OrderInv'
  <2> SUFFICES ASSUME ~overlapped
               PROVE  /\ \A b, c \in Answers' : b.at <= c.at => b.id <= c.id
                      /\ \A b \in Answers' : b.at >= seen' => a.id <= b.id /\ drawn.id <= b.id
    BY DEF OrderInv
  <2>1. /\ \A b, c \in Answers : b.at <= c.at => b.id <= c.id
        /\ \A b \in Answers : b.at >= seen => view.id <= b.id /\ drawn.id <= b.id
    BY DEF PageInv, OrderInv
  <2>2. \A b \in Answers' : b.at >= seen' => b.at >= seen /\ a.at <= b.at
    BY <1>2, <1>3
  <2>3. QED
    BY <2>1, <2>2
<1>11. QED
  BY <1>6, <1>7, <1>8, <1>9, <1>10 DEF PageInv

\* A total is put in the place of the one shown.
LEMMA PatchPage ==
  ASSUME Inv, Inv', PageInv, PageTyped', Done' = Done, NEW p \in Totals, NEW base \in {view, drawn},
         UNCHANGED <<mine, others, clock, gets, making, drawn, lost, overlapped>>,
         Patch(base, p.list, p.total, p.at), Totals' \subseteq Totals, Carried' \subseteq Carried,
         \A e \in Carried \ Carried' : e.what = "vote" /\ e.list = p.list /\ e.at = p.at,
         \A n \in Votes : InFlight(n)' => voting'[n].list \in Done
  PROVE  PageInv'
<1>0. Newest(Done)' = Newest(Done) /\ Answers' = Answers
  BY NewestNext DEF Answers
<1>1. \A l : Total(l)' = Total(l)
  BY DEF Total
<1>2. /\ seen \in Nat /\ p.at \in Nat /\ lost \in Nat /\ clock \in Nat /\ asof \in Nat
      /\ \A b \in Answers : b.id \in Nat /\ b.at \in Nat
      /\ \A q \in Totals : q.at \in Nat
      /\ \A e \in Carried : e.at \in Nat
      /\ view \in Values /\ drawn \in Values /\ p.list \in Lists /\ p.total \in Int
  BY InFlightTypes DEF PageInv, PageTyped, Events
<1>3. /\ seen' \in Nat /\ seen <= seen' /\ p.at <= seen' /\ (seen' = seen \/ seen' = p.at)
      /\ asof' = asof
  BY <1>2, LaterOf DEF Patch
<1>4. ~crossed' => ~crossed /\ p.at >= seen /\ base = view
  <2>1. crossed' = (crossed \/ p.at < seen \/ base # view)
    BY DEF Patch
  <2>2. ~crossed' => ~crossed /\ ~(p.at < seen) /\ base = view
    BY <2>1, Zenon
  <2>3. QED
    BY <1>2, <2>2
<1>5. /\ view'.id = view.id \/ view'.id = base.id
      /\ base = view => view'.id = view.id
      /\ base = view /\ view.id = p.list => view'.total = p.total
      /\ base = view /\ view.id # p.list => view' = view
  <2>1. view' = IF base = Nothing THEN view
                ELSE IF base.id = p.list THEN [base EXCEPT !.total = p.total] ELSE base
    BY DEF Patch
  <2>2. base \in Values /\ p.list # 0
    BY <1>2, Bounds
  <2>3. base = Nothing => base.id # p.list
    BY <2>2 DEF Nothing
  <2>4. QED
    BY <2>1, <2>2, <2>3 DEF Values
<1>6. \A at, id : Told(at, id) => Told(at, id)'
  BY <1>0 DEF Told
<1>7. ASSUME NEW at \in Nat, NEW l, NEW total, Counted(at, l, total), at >= p.at \/ l # p.list
      PROVE  Counted(at, l, total)'
  BY <1>1, <1>2, <1>7 DEF Counted
<1>8. CommittedInv'
  <2>1. p.at <= clock /\ seen <= clock /\ asof <= seen
    BY DEF PageInv, CommittedInv
  <2>2. seen' <= clock /\ asof' <= seen'
    BY <1>2, <1>3, <2>1
  <2>3. view'.id \in Done \cup {0}
    BY <1>5 DEF PageInv, CommittedInv
  <2>4. QED
    BY <1>0, <1>3, <2>1, <2>2, <2>3 DEF PageInv, CommittedInv
<1>9. AnswersInv'
  <2> SUFFICES ASSUME NEW b \in Answers
               PROVE  /\ ~overlapped /\ b.at = clock => b.id = Newest(Done)
                      /\ b.at >= seen' /\ b.at >= lost =>
                           /\ ~overlapped => Told(b.at, b.id)'
                           /\ Counted(b.at, b.id, b.total)'
    BY <1>0 DEF AnswersInv
  <2>1. /\ ~overlapped /\ b.at = clock => b.id = Newest(Done)
        /\ b.at >= seen /\ b.at >= lost =>
             (~overlapped => Told(b.at, b.id)) /\ Counted(b.at, b.id, b.total)
    BY DEF PageInv, AnswersInv
  <2>2. b.at \in Nat /\ (b.at >= seen' => b.at >= seen /\ b.at >= p.at)
    BY <1>2, <1>3
  <2>3. QED
    BY <2>1, <2>2, <1>6, <1>7
<1>10. TotalsInv'
  <2> SUFFICES ASSUME NEW q \in Totals', q.at >= seen', q.at >= lost
               PROVE  Counted(q.at, q.list, q.total)'
    BY DEF TotalsInv
  <2>1. q \in Totals /\ q.at \in Nat /\ q.at >= seen /\ q.at >= p.at
    BY <1>2, <1>3
  <2>2. QED
    BY <1>7, <2>1 DEF PageInv, TotalsInv
<1>11. ViewInv'
  <2> SUFFICES ASSUME ~crossed' PROVE ViewInv'
    BY DEF ViewInv
  <2>1. base = view /\ ~crossed /\ p.at >= seen /\ view'.id = view.id
    BY <1>4, <1>5
  <2>2. PICK at, id, total, later :
          at \in Nat /\ at = asof /\ id = view.id /\ total = view.total /\ later = view'.total
    BY <1>2
  <2>3. /\ ~overlapped /\ at = clock => id = Newest(Done)
        /\ at >= lost => (~overlapped => Told(at, id)) /\ Counted(at, id, total)
    BY <2>1, <2>2 DEF PageInv, ViewInv
  <2>4. ASSUME at >= lost PROVE Counted(at, id, later)'
    <3>1. CASE id # p.list
      BY <1>5, <1>7, <2>1, <2>2, <2>3, <2>4, <3>1
    <3>2. CASE id = p.list
      <4>1. at <= p.at /\ p.at >= lost /\ later = p.total
        BY <1>2, <1>5, <2>1, <2>2, <2>4, <3>2 DEF PageInv, CommittedInv
      <4>2. Counted(p.at, p.list, p.total)
        BY <2>1, <4>1 DEF PageInv, TotalsInv
      <4>3. Counted(p.at, p.list, p.total)'
        BY <1>2, <1>7, <4>2
      <4>4. \A e \in Carried' : e.at \in Nat
        BY <1>2
      <4>5. \/ p.total = Total(p.list)
            \/ \E e \in Carried' : e.what = "vote" /\ e.list = p.list /\ e.at > p.at
        BY <1>1, <4>3 DEF Counted
      <4>6. \/ later = Total(id)
            \/ \E e \in Carried' : e.what = "vote" /\ e.list = id /\ e.at > at
        BY <1>2, <2>2, <3>2, <4>1, <4>4, <4>5
      <4>7. QED
        BY <1>1, <4>6 DEF Counted
    <3>3. QED
      BY <3>1, <3>2
  <2>5. at >= lost /\ ~overlapped => Told(at, id)'
    BY <1>6, <2>3
  <2>6. asof' = at /\ view'.id = id /\ view'.total = later
    BY <1>3, <2>1, <2>2
  <2>7. QED
    BY <1>0, <2>3, <2>4, <2>5, <2>6 DEF ViewInv
<1>12. OrderInv'
  <2> SUFFICES ASSUME ~overlapped
               PROVE  /\ \A b, c \in Answers : b.at <= c.at => b.id <= c.id
                      /\ \A b \in Answers : b.at >= seen' => view'.id <= b.id /\ drawn.id <= b.id
    BY <1>0 DEF OrderInv
  <2>1. /\ \A b, c \in Answers : b.at <= c.at => b.id <= c.id
        /\ \A b \in Answers : b.at >= seen => view.id <= b.id /\ drawn.id <= b.id
    BY DEF PageInv, OrderInv
  <2>2. \A b \in Answers : b.at >= seen' => b.at >= seen
    BY <1>2, <1>3
  <2>3. QED
    BY <1>5, <2>1, <2>2
<1>13. QED
  BY <1>8, <1>9, <1>10, <1>11, <1>12 DEF PageInv

LEMMA PublishFacts ==
  ASSUME PageTyped, NEW e \in Events, Publish(e) \/ Miss(e)
  PROVE  /\ inbox' \in Seq(Events)
         /\ \/ /\ {inbox'[i] : i \in DOMAIN inbox'} = {inbox[i] : i \in DOMAIN inbox} \cup {e}
               /\ lost' = lost
            \/ inbox' = inbox /\ lost' = IF lost <= e.at THEN e.at ELSE lost
<1>1. inbox \in Seq(Events) /\ lost \in Nat /\ e.at \in Nat
  BY DEF PageTyped, Events
<1>2. CASE sock /\ Publish(e)
  <2>1. inbox' = Append(inbox, e) /\ lost' = lost
    BY <1>2 DEF Publish
  <2>2. PICK longer : longer = inbox'
    OBVIOUS
  <2>3. /\ longer \in Seq(Events)
        /\ {longer[i] : i \in DOMAIN longer} = {inbox[i] : i \in DOMAIN inbox} \cup {e}
    BY <1>1, <2>1, <2>2, AppendFacts, SMTT(30)
  <2>4. QED
    BY <2>1, <2>2, <2>3, Zenon
<1>3. CASE Miss(e)
  BY <1>1, <1>3, LaterOf DEF Miss
<1>4. QED
  BY <1>2, <1>3 DEF Publish

\* Nothing is shown by a commit.  Its event is on its way, or lost.
LEMMA CommitFacts ==
  ASSUME PageTyped, CommittedInv, clock \in Nat, NEW what \in {"generated", "vote"},
         NEW l \in Lists, NEW total \in Int, Commit(what, l, total),
         NEW e, e = [what |-> what, list |-> l, total |-> total, at |-> clock + 1]
  PROVE  /\ clock' = clock + 1 /\ Carried' \in {Carried, Carried \cup {e}}
         /\ lost' \in {lost, clock + 1} /\ (e \in Carried' \/ lost' = clock + 1)
         /\ posts' \subseteq Events /\ inbox' \in Seq(Events) /\ e \in Events
<1>1. e \in Events
  BY DEF Events
<1>2. lost \in Nat /\ lost <= clock
  BY DEF PageTyped, CommittedInv
<1>3. CASE transport = "in-process"
  <2>1. Publish(e) /\ UNCHANGED posts /\ clock' = clock + 1 /\ e.at = clock + 1
    BY <1>3 DEF Commit
  <2>2. /\ inbox' \in Seq(Events)
        /\ \/ {inbox'[i] : i \in DOMAIN inbox'} = {inbox[i] : i \in DOMAIN inbox} \cup {e}
              /\ lost' = lost
           \/ inbox' = inbox /\ lost' = IF lost <= e.at THEN e.at ELSE lost
    BY <1>1, <2>1, PublishFacts
  <2>3. \/ lost' = lost /\ Carried' = Carried \cup {e}
        \/ lost' = clock + 1 /\ Carried' = Carried
    <3>1. CASE /\ {inbox'[i] : i \in DOMAIN inbox'} = {inbox[i] : i \in DOMAIN inbox} \cup {e}
               /\ lost' = lost
      BY <2>1, <3>1 DEF Carried
    <3>2. CASE inbox' = inbox /\ lost' = IF lost <= e.at THEN e.at ELSE lost
      BY <1>2, <2>1, <3>2 DEF Carried
    <3>3. QED
      BY <2>2, <3>1, <3>2
  <2>4. QED
    BY <1>1, <2>1, <2>2, <2>3 DEF PageTyped
<1>5. CASE transport # "in-process"
  <2>1. posts' = posts \cup {e} /\ UNCHANGED <<inbox, lost>> /\ clock' = clock + 1
    BY <1>5 DEF Commit
  <2>2. Carried' = Carried \cup {e}
    BY <2>1 DEF Carried
  <2>3. QED
    BY <1>1, <2>1, <2>2 DEF PageTyped
<1>6. QED
  BY <1>3, <1>5

LEMMA GeneratePage ==
  ASSUME Inv, Inv', PageInv, PageTyped', NEW l \in Lists, Generate(l),
         UNCHANGED <<gets, voting, view, drawn, seen, asof, crossed>>,
         \A a \in Answers' :
           a \in Answers \/ (a.id = l /\ a.total = 0 /\ a.at = clock + 1),
         \A b \in Buttons : making'[b].stage = "began" => making'[b].list \in Lists
  PROVE  PageInv'
<1> DEFINE e == [what |-> "generated", list |-> l, total |-> 0, at |-> clock + 1]
<1>0. /\ lists' = [lists EXCEPT ![l] = "done"] /\ lists[l] = "began" /\ UNCHANGED <<mine, others>>
      /\ overlapped' = (overlapped \/ \E k \in Done : k > l) /\ Commit("generated", l, 0)
  BY DEF Generate
<1>1. /\ clock' = clock + 1 /\ Carried' \in {Carried, Carried \cup {e}} /\ clock \in Nat
      /\ lost' \in {lost, clock + 1} /\ (e \in Carried' \/ lost' = clock + 1)
  BY <1>0, CommitFacts, 0 \in Int DEF PageInv, Inv, Typed
<1>2. e.what = "generated" /\ e.at = clock + 1
  OBVIOUS
<1> HIDE DEF e
<1>3. Done' = Done \cup {l} /\ l \notin Done /\ l \in Nat
  BY <1>0, Bounds DEF Done, PageInv, PageTyped
<1>4. /\ \A k : Total(k)' = Total(k)
      /\ Total(l) = 0
  <2>1. mine[l] = 0 /\ others[l] = 0
    BY <1>3 DEF PageInv, CommittedInv
  <2>2. QED
    BY <1>0, <2>1, TotalsAreNumbers DEF Total, Inv
<1>5. ~overlapped' => ~overlapped /\ \A k \in Done : ~(k > l)
  BY <1>0, Zenon
<1>6. Newest(Done)' = Newest(Done \cup {l}) /\ Done \cup {l} \subseteq Lists
  BY <1>3, NewestNext, DoneFacts
<1>7. ~overlapped' => Newest(Done)' = l /\ \A k \in Done \cup {0} : k <= l
  <2>1. /\ Newest(Done)' \in Done \cup {l} \cup {0}
        /\ \A k \in Done \cup {l} \cup {0} : k <= Newest(Done)'
    BY <1>6, NewestFacts
  <2>2. \A k \in Done \cup {0} : k \in Nat
    BY DoneNumbers
  <2>3. PICK top : top = Newest(Done)'
    OBVIOUS
  <2>4. top \in Nat /\ l <= top /\ top \in Done \cup {l} \cup {0}
    BY <1>3, <2>1, <2>2, <2>3
  <2>5. ASSUME ~overlapped' PROVE \A k \in Done \cup {0} : k <= l
    BY <1>3, <1>5, <2>2, <2>5
  <2>6. ~overlapped' => top = l
    BY <1>3, <2>4, <2>5
  <2>7. QED
    BY <2>3, <2>5, <2>6
<1>8. Totals' \subseteq Totals
  BY <1>1, <1>2 DEF Totals
<1>9. /\ \A a \in Answers : a.id \in Done \cup {0} /\ a.at \in Nat /\ a.at <= clock /\ a.id \in Nat
      /\ \A p \in Totals : p.at \in Nat /\ p.at <= clock
      /\ \A f \in Carried : f.at \in Nat /\ f.at <= clock
      /\ lost \in Nat /\ lost <= clock /\ asof \in Nat /\ asof <= clock /\ seen \in Nat /\ seen <= clock
      /\ view.id \in Done \cup {0} /\ drawn.id \in Done \cup {0}
  BY InFlightTypes DEF PageInv, CommittedInv, PageTyped, Events
<1>10. ASSUME NEW at \in Nat, at <= clock, at >= lost', NEW id
       PROVE  at >= lost /\ Told(at, id)'
  BY <1>1, <1>2, <1>9, <1>10 DEF Told
<1>11. \A at, k, total : Counted(at, k, total) => Counted(at, k, total)'
  BY <1>1, <1>4 DEF Counted
<1>12. CommittedInv'
  <2>1. \A n \in Votes : InFlight(n)' => voting[n].list \in Done
    BY DEF InFlight, PageInv, CommittedInv
  <2>2. \A f \in Carried' : f.at <= clock'
    BY <1>1, <1>2, <1>9
  <2>3. \A a \in Answers' : a.at <= clock' /\ a.id \in Done' \cup {0}
    BY <1>1, <1>3, <1>9
  <2>4. \A p \in Totals' : p.at <= clock' /\ p.list \in Done'
    BY <1>1, <1>3, <1>8, <1>9 DEF PageInv, CommittedInv
  <2>5. \A k \in Lists \ Done' : mine'[k] = 0 /\ others'[k] = 0
    BY <1>0, <1>3 DEF PageInv, CommittedInv
  <2>6. /\ seen' <= clock' /\ asof' <= seen' /\ lost' <= clock'
        /\ view'.id \in Done' \cup {0} /\ drawn'.id \in Done' \cup {0}
    BY <1>1, <1>3, <1>9 DEF PageInv, CommittedInv
  <2>7. QED
    BY <1>3, <2>1, <2>2, <2>3, <2>4, <2>5, <2>6 DEF CommittedInv
<1>13. AnswersInv'
  <2> SUFFICES ASSUME NEW a \in Answers'
               PROVE  /\ ~overlapped' /\ a.at = clock' => a.id = Newest(Done)'
                      /\ a.at >= seen /\ a.at >= lost' =>
                           /\ ~overlapped' => Told(a.at, a.id)'
                           /\ Counted(a.at, a.id, a.total)'
    BY DEF AnswersInv
  <2>1. CASE a \in Answers
    <3>1. a.at \in Nat /\ a.at <= clock /\ a.at # clock'
      BY <1>1, <1>9, <2>1
    <3>2. QED
      BY <1>10, <1>11, <2>1, <3>1 DEF PageInv, AnswersInv
  <2>2. CASE a.id = l /\ a.total = 0 /\ a.at = clock + 1
    BY <1>4, <1>7, <2>2 DEF Told, Counted
  <2>3. QED
    BY <2>1, <2>2
<1>14. TotalsInv'
  <2> SUFFICES ASSUME NEW p \in Totals', p.at >= seen, p.at >= lost'
               PROVE  Counted(p.at, p.list, p.total)'
    BY DEF TotalsInv
  <2>1. p \in Totals /\ p.at >= lost
    BY <1>8, <1>9, <1>10
  <2>2. QED
    BY <1>11, <2>1 DEF PageInv, TotalsInv
<1>15. ViewInv'
  <2> SUFFICES ASSUME ~crossed, asof >= lost'
               PROVE  Told(asof, view.id)' /\ Counted(asof, view.id, view.total)'
    BY <1>1, <1>9 DEF ViewInv
  <2>1. asof >= lost /\ Told(asof, view.id)'
    BY <1>9, <1>10
  <2>2. QED
    BY <1>11, <2>1 DEF PageInv, ViewInv
<1>16. OrderInv'
  <2> SUFFICES ASSUME ~overlapped'
               PROVE  /\ \A a, b \in Answers' : a.at <= b.at => a.id <= b.id
                      /\ \A a \in Answers' : a.at >= seen => view.id <= a.id /\ drawn.id <= a.id
    BY DEF OrderInv
  <2>1. /\ \A a, b \in Answers : a.at <= b.at => a.id <= b.id
        /\ \A a \in Answers : a.at >= seen => view.id <= a.id /\ drawn.id <= a.id
    BY <1>5 DEF PageInv, OrderInv
  <2>2. \A k \in Done \cup {0} : k <= l
    BY <1>7
  <2>3. ASSUME NEW a \in Answers', NEW b \in Answers', a.at <= b.at PROVE a.id <= b.id
    BY <1>1, <1>3, <1>9, <2>1, <2>2, <2>3
  <2>4. ASSUME NEW a \in Answers', a.at >= seen PROVE view.id <= a.id /\ drawn.id <= a.id
    BY <1>9, <2>1, <2>2, <2>4
  <2>5. QED
    BY <2>3, <2>4
<1>17. QED
  BY <1>12, <1>13, <1>14, <1>15, <1>16 DEF PageInv

LEMMA VotePage ==
  ASSUME Inv, Inv', PageInv, PageTyped', NEW l \in Done, NEW total \in Int,
         Commit("vote", l, total), Total(l)' = total,
         \A k \in Lists \ {l} : mine'[k] = mine[k] /\ others'[k] = others[k],
         UNCHANGED <<lists, overlapped, gets, making, view, drawn, seen, asof, crossed>>,
         \A n \in Votes :
           /\ InFlight(n)' => voting'[n].list \in Done
           /\ voting'[n].stage = "counted" =>
                \/ voting'[n] = voting[n]
                \/ voting'[n].list = l /\ voting'[n].total = total /\ voting'[n].at = clock + 1
  PROVE  PageInv'
<1> DEFINE e == [what |-> "vote", list |-> l, total |-> total, at |-> clock + 1]
<1>0. l \in Lists /\ Done' = Done /\ clock \in Nat
  BY DEF Done, Inv, Typed
<1>1. /\ clock' = clock + 1 /\ Carried' \in {Carried, Carried \cup {e}}
      /\ lost' \in {lost, clock + 1} /\ (e \in Carried' \/ lost' = clock + 1)
  BY <1>0, CommitFacts DEF PageInv
<1>2. e.what = "vote" /\ e.list = l /\ e.total = total /\ e.at = clock + 1
  OBVIOUS
<1> HIDE DEF e
<1>3. Newest(Done)' = Newest(Done) /\ Answers' = Answers
  BY <1>0, NewestNext DEF Answers
<1>4. \A k : k # l /\ k \in Lists \cup {0} => Total(k)' = Total(k)
  BY DEF Total
<1>5. ASSUME NEW p \in Totals'
      PROVE  p \in Totals \/ (p.list = l /\ p.total = total /\ p.at = clock + 1)
  BY <1>1, <1>2 DEF Totals
<1>6. /\ \A a \in Answers : a.id \in Lists \cup {0} /\ a.at \in Nat /\ a.at <= clock
      /\ \A p \in Totals : p.at \in Nat /\ p.at <= clock /\ p.list \in Done
      /\ \A f \in Carried : f.at \in Nat /\ f.at <= clock
      /\ lost \in Nat /\ lost <= clock /\ asof \in Nat /\ asof <= clock /\ seen \in Nat /\ seen <= clock
      /\ view.id \in Lists \cup {0} /\ Done \subseteq Lists
  BY InFlightTypes, DoneFacts DEF PageInv, CommittedInv, PageTyped, Events
<1>7. ASSUME NEW at \in Nat, at <= clock, at >= lost' PROVE at >= lost /\ e \in Carried'
  <2>1. lost \in Nat /\ lost <= clock
    BY <1>6
  <2>2. lost' # clock + 1
    BY <1>0, <1>7
  <2>3. QED
    BY <1>1, <1>7, <2>1, <2>2
<1>8. \A at, id : Told(at, id) => Told(at, id)'
  BY <1>1, <1>3 DEF Told
<1>9. ASSUME NEW at \in Nat, at <= clock, at >= lost', NEW k \in Lists \cup {0}, NEW sum,
             Counted(at, k, sum)
      PROVE  Counted(at, k, sum)'
  <2>1. CASE k = l
    <3>1. e \in Carried' /\ e.at > at
      BY <1>0, <1>2, <1>7, <1>9
    <3>2. QED
      BY <1>2, <2>1, <3>1 DEF Counted
  <2>2. CASE k # l
    BY <1>1, <1>4, <1>9, <2>2 DEF Counted
  <2>3. QED
    BY <2>1, <2>2
<1>10. CommittedInv'
  <2>1. ASSUME NEW f \in Carried' PROVE f.at <= clock'
    <3>1. f = e \/ f \in Carried
      BY <1>1
    <3>2. f.at = clock + 1 \/ (f.at \in Nat /\ f.at <= clock)
      BY <1>2, <1>6, <3>1
    <3>3. QED
      BY <1>0, <1>1, <3>2
  <2>2. \A a \in Answers' : a.at <= clock' /\ a.id \in Done' \cup {0}
    BY <1>0, <1>1, <1>3, <1>6 DEF PageInv, CommittedInv
  <2>3. \A p \in Totals' : p.at <= clock' /\ p.list \in Done'
    BY <1>0, <1>1, <1>5, <1>6
  <2>4. \A k \in Lists \ Done' : mine'[k] = 0 /\ others'[k] = 0
    BY <1>0 DEF PageInv, CommittedInv
  <2>5. /\ seen' <= clock' /\ asof' <= seen' /\ lost' <= clock'
        /\ view'.id \in Done' \cup {0} /\ drawn'.id \in Done' \cup {0}
    BY <1>0, <1>1, <1>6 DEF PageInv, CommittedInv
  <2>6. QED
    BY <1>0, <2>1, <2>2, <2>3, <2>4, <2>5 DEF PageInv, CommittedInv
<1>11. AnswersInv'
  <2> SUFFICES ASSUME NEW a \in Answers
               PROVE  /\ a.at # clock'
                      /\ a.at >= seen /\ a.at >= lost' =>
                           /\ ~overlapped => Told(a.at, a.id)'
                           /\ Counted(a.at, a.id, a.total)'
    BY <1>3 DEF AnswersInv
  <2>1. a.at \in Nat /\ a.at <= clock /\ a.id \in Lists \cup {0}
    BY <1>6
  <2>2. a.at # clock'
    BY <1>0, <1>1, <2>1
  <2>3. QED
    BY <1>7, <1>8, <1>9, <2>1, <2>2 DEF PageInv, AnswersInv
<1>12. TotalsInv'
  <2> SUFFICES ASSUME NEW p \in Totals', p.at >= seen, p.at >= lost'
               PROVE  Counted(p.at, p.list, p.total)'
    BY DEF TotalsInv
  <2>1. CASE p \in Totals
    BY <1>6, <1>7, <1>9, <2>1 DEF PageInv, TotalsInv
  <2>2. CASE p.list = l /\ p.total = total
    BY <2>2 DEF Counted
  <2>3. QED
    BY <1>5, <2>1, <2>2
<1>13. ViewInv'
  <2> SUFFICES ASSUME ~crossed, asof >= lost'
               PROVE  /\ ~overlapped => Told(asof, view.id)'
                      /\ Counted(asof, view.id, view.total)'
    <3>1. asof \in Nat /\ asof <= clock
      BY <1>6
    <3>2. asof' # clock'
      BY <1>0, <1>1, <3>1
    <3>3. QED
      BY <3>2 DEF ViewInv
  <2>1. PICK at, id, sum : at = asof /\ id = view.id /\ sum = view.total
    OBVIOUS
  <2>2. at \in Nat /\ at <= clock /\ at >= lost /\ id \in Lists \cup {0}
    BY <1>6, <1>7, <2>1
  <2>3. (~overlapped => Told(at, id)) /\ Counted(at, id, sum)
    BY <2>1, <2>2 DEF PageInv, ViewInv
  <2>4. (~overlapped => Told(at, id)') /\ Counted(at, id, sum)'
    BY <1>8, <1>9, <2>1, <2>2, <2>3
  <2>5. asof' = at /\ view'.id = id /\ view'.total = sum
    BY <2>1
  <2>6. QED
    BY <2>4, <2>5
<1>14. OrderInv'
  BY <1>3 DEF PageInv, OrderInv
<1>15. QED
  BY <1>10, <1>11, <1>12, <1>13, <1>14 DEF PageInv

LEMMA InitPage == Init => PageInv
<1> SUFFICES ASSUME Init PROVE PageInv
  OBVIOUS
<1>0. PICK old \in {{}, {1}} \cap SUBSET Lists :
        /\ lists = [l \in Lists |-> IF l \in old THEN "done" ELSE "none"]
        /\ \E vote \in {0, 1} : mine = [l \in Lists |-> IF l \in old THEN vote ELSE 0]
  BY DEF Init
<1>1. Done = old /\ \A l \in Lists \ Done : mine[l] = 0 /\ others[l] = 0
  BY <1>0 DEF Init, Done
<1>2. posts = {} /\ inbox = <<>> /\ inbox \in Seq(Events) /\ Carried = {}
  <2>1. inbox \in Seq(Events) /\ DOMAIN inbox = {}
    BY EmptySeq, LenProperties DEF Init
  <2>2. QED
    BY <2>1 DEF Init, Carried
<1>3. \A g \in Gets : gets[g] \in [stage : {"none", "sent"}, first : BOOLEAN,
                                   value : {Nothing}, at : {0}]
  BY DEF Init, GetSent, FreeGet
<1>4. \A b \in Buttons : making[b] = [stage |-> "none", list |-> 0, at |-> 0]
  BY DEF Init, FreePost
<1>5. \A n \in Votes : voting[n].stage = "none"
  BY DEF Init, NoVote, Ballot
<1>6. Answers = {} /\ Totals = {}
  BY <1>2, <1>3, <1>4, <1>5 DEF Answers, Totals
<1>7. Nothing \in Values /\ Nothing.id = 0
  BY Bounds DEF Nothing, Values
<1>8. PageTyped
  <2>1. gets \in [Gets -> [stage : {"none", "sent", "read"}, first : BOOLEAN, value : Values, at : Nat]]
    <3>1. gets = [g \in Gets |-> gets[g]]
      BY DEF Init
    <3>2. \A g \in Gets :
            gets[g] \in [stage : {"none", "sent", "read"}, first : BOOLEAN, value : Values, at : Nat]
      BY <1>3, <1>7
    <3>3. QED
      BY <3>1, <3>2
  <2>2. making \in [Buttons -> [stage : {"none", "patch", "began", "done"}, list : 0..MaxLists, at : Nat]]
    BY Bounds DEF Init, FreePost
  <2>3. lists \in [Lists -> {"none", "began", "done"}]
    BY <1>0
  <2>4. QED
    BY <1>2, <1>7, <2>1, <2>2, <2>3 DEF Init, PageTyped
<1>9. CommittedInv
  BY <1>1, <1>2, <1>4, <1>5, <1>6, <1>7 DEF Init, CommittedInv, InFlight
<1>10. AnswersInv /\ TotalsInv /\ ViewInv /\ OrderInv
  BY <1>6 DEF Init, AnswersInv, TotalsInv, ViewInv, OrderInv
<1>11. QED
  BY <1>8, <1>9, <1>10 DEF PageInv

\* The socket is lost or found, or an event is lost; the page is rendered.
LEMMA SocketPage ==
  ASSUME Inv, Inv', PageInv, UNCHANGED <<server, requests, view, freshness, overlapped>>,
         drawn' \in {drawn, view}, posts' \subseteq Events, inbox' \in Seq(Events),
         lost' \in Nat, lost <= lost', lost' <= clock, Carried' \subseteq Carried,
         \A e \in Carried \ Carried' : e.at <= lost'
  PROVE  PageInv'
<1>1. PageTyped'
  BY DEF PageInv, PageTyped, server, requests, freshness
<1>2. Done' = Done /\ UNCHANGED <<mine, others, clock, view, asof, seen, crossed>>
  BY DEF Done, server, freshness
<1>3. \A n \in Votes : InFlight(n)' => voting'[n].list \in Done
  BY DEF PageInv, CommittedInv, InFlight, requests
<1>4. \A b \in Buttons : making'[b].stage = "began" => making'[b].list \in Lists
  BY DEF PageInv, CommittedInv, requests
<1>5. Answers' = Answers /\ Totals' \subseteq Totals
  BY DEF Answers, Totals, requests
<1>6. \A g \in Gets : gets'[g] = gets[g]
  BY DEF requests
<1>7. QED
  BY <1>1, <1>2, <1>3, <1>4, <1>5, <1>6, QuietPage

\* A request is made, or fails: no answer and no total is new.
LEMMA RequestPage ==
  ASSUME Inv, Inv', PageInv, Done' = Done,
         UNCHANGED <<mine, others, clock, posts, socket, gets, view, drawn, freshness, lost, overlapped>>,
         lists' \in [Lists -> {"none", "began", "done"}],
         making' \in [Buttons -> [stage : {"none", "patch", "began", "done"}, list : 0..MaxLists, at : Nat]],
         \A b \in Buttons : making'[b] = making[b] \/ making'[b].stage # "done",
         \A b \in Buttons : making'[b].stage = "began" => making'[b].list \in Lists,
         \A n \in Votes : voting'[n] = voting[n] \/ voting'[n].stage # "counted",
         \A n \in Votes : InFlight(n)' => voting'[n].list \in Done
  PROVE  PageInv'
<1>1. PageTyped'
  BY DEF PageInv, PageTyped, socket, freshness
<1>2. Carried' = Carried /\ UNCHANGED <<view, asof, seen, crossed>>
  BY DEF Carried, socket, freshness
<1>3. Answers' \subseteq Answers
  BY DEF Answers
<1>4. Totals' \subseteq Totals
  BY <1>2 DEF Totals
<1>5. lost \in Nat /\ lost <= clock /\ clock \in Nat
  BY DEF PageInv, PageTyped, CommittedInv, Inv, Typed
<1>6. QED
  BY <1>1, <1>2, <1>3, <1>4, <1>5, QuietPage

LEMMA BeginKeeps ==
  ASSUME PageTyped, NEW l \in Lists, Begin(l)
  PROVE  Done' = Done /\ lists' \in [Lists -> {"none", "began", "done"}]
<1>1. lists' = [lists EXCEPT ![l] = "began"] /\ lists[l] = "none"
  BY DEF Begin
<1>2. QED
  BY <1>1 DEF PageTyped, Done

LEMMA RequestStep ==
  ASSUME Inv, Inv', PageInv,
         \/ OthersBegin \/ Build \/ Switched \/ ChangeMode
         \/ \E b \in Buttons : PostFails(b)
         \/ \E l \in Lists : Vote(l)
         \/ \E n \in Votes : VoteFails(n)
  PROVE  PageInv'
<1> DEFINE Posts == [stage : {"none", "patch", "began", "done"}, list : 0..MaxLists, at : Nat]
<1>0. /\ making \in [Buttons -> Posts] /\ lists \in [Lists -> {"none", "began", "done"}]
      /\ \A b \in Buttons : making[b].stage = "began" => making[b].list \in Lists
      /\ \A n \in Votes : InFlight(n) => voting[n].list \in Done
  BY DEF PageInv, PageTyped, CommittedInv
<1> USE DEF server, requests, page
<1>1. CASE OthersBegin
  <2>1. Done' = Done /\ lists' \in [Lists -> {"none", "began", "done"}]
    BY <1>1, BeginKeeps DEF OthersBegin, PageInv
  <2>2. \A n \in Votes : InFlight(n)' => voting'[n].list \in Done
    BY <1>0, <1>1 DEF OthersBegin, InFlight
  <2>3. QED
    BY <1>0, <1>1, <2>1, <2>2, RequestPage DEF OthersBegin
<1>2. ASSUME NEW b \in Buttons, Ask(b), UNCHANGED voting
      PROVE  /\ Done' = Done /\ lists' \in [Lists -> {"none", "began", "done"}]
             /\ UNCHANGED <<mine, others, clock>>
             /\ making' \in [Buttons -> Posts]
             /\ \A c \in Buttons : making'[c] = making[c] \/ making'[c].stage # "done"
             /\ \A c \in Buttons : making'[c].stage = "began" => making'[c].list \in Lists
             /\ \A n \in Votes : InFlight(n)' => voting'[n].list \in Done
  <2>1. PICK l \in Lists :
          /\ Begin(l)
          /\ making' = [making EXCEPT ![b] = [FreePost EXCEPT !.stage = "began", !.list = l]]
          /\ UNCHANGED <<mine, others, clock>>
    BY <1>2 DEF Ask
  <2>2. Done' = Done /\ lists' \in [Lists -> {"none", "began", "done"}]
    BY <2>1, BeginKeeps DEF PageInv
  <2>3. PICK new \in Posts :
          /\ new.stage = "began" /\ new.list = l
          /\ making' = [making EXCEPT ![b] = new]
    <3>0. FreePost \in Posts
      BY Bounds DEF FreePost
    <3>1. PICK free \in Posts : free = FreePost
      BY <3>0, Zenon
    <3>2. l \in 0..MaxLists
      BY DEF Lists
    <3>3. PICK new : new = [free EXCEPT !.stage = "began", !.list = l]
      OBVIOUS
    <3>4. new \in Posts /\ new.stage = "began" /\ new.list = l
      BY <3>2, <3>3
    <3>5. QED
      BY <2>1, <3>1, <3>3, <3>4, Zenon
  <2>5. /\ making' \in [Buttons -> Posts]
        /\ \A c \in Buttons : making'[c] = making[c] \/ making'[c].stage # "done"
        /\ \A c \in Buttons : making'[c].stage = "began" => making'[c].list \in Lists
    BY <1>0, <2>3
  <2>6. \A n \in Votes : InFlight(n)' => voting'[n].list \in Done
    BY <1>0, <1>2 DEF InFlight
  <2>7. QED
    BY <2>1, <2>2, <2>5, <2>6
<1>3. CASE Build \/ Switched
  <2>1. /\ \E b \in Buttons : Ask(b)
        /\ UNCHANGED <<voting, posts, socket, gets, view, drawn, freshness, lost, overlapped>>
    BY <1>3 DEF Build, Switched, Buttons
  <2>2. QED
    BY <2>1, <1>2, RequestPage
<1>4. ASSUME NEW b \in Buttons, NEW new \in Posts, new.stage \in {"none", "patch"},
             making' = [making EXCEPT ![b] = new],
             UNCHANGED <<lists, mine, others, clock, posts, socket, gets, voting, view, drawn,
                         freshness, lost, overlapped>>
      PROVE  PageInv'
  <2>1. /\ making' \in [Buttons -> Posts]
        /\ \A c \in Buttons : making'[c] = making[c] \/ making'[c].stage # "done"
        /\ \A c \in Buttons : making'[c].stage = "began" => making'[c].list \in Lists
    BY <1>0, <1>4
  <2>2. \A n \in Votes : InFlight(n)' => voting'[n].list \in Done
    BY <1>0, <1>4 DEF InFlight
  <2>3. Done' = Done
    BY <1>4 DEF Done
  <2>4. QED
    BY <1>0, <1>4, <2>1, <2>2, <2>3, RequestPage
<1>5. CASE ChangeMode
  <2>1. PICK new : new = [making["switch"] EXCEPT !.stage = "patch"]
    OBVIOUS
  <2>2. new \in Posts /\ new.stage = "patch" /\ "switch" \in Buttons
    BY <1>0, <2>1 DEF Buttons
  <2>3. making' = [making EXCEPT !["switch"] = new]
    BY <1>5, <2>1 DEF ChangeMode
  <2>4. UNCHANGED <<lists, mine, others, clock, posts, socket, gets, voting, view, drawn,
                    freshness, lost, overlapped>>
    BY <1>5 DEF ChangeMode
  <2>5. QED
    BY <1>4, <2>2, <2>3, <2>4
<1>6. CASE \E b \in Buttons : PostFails(b)
  <2>1. FreePost \in Posts /\ FreePost.stage = "none"
    BY Bounds DEF FreePost
  <2>2. QED
    BY <1>4, <1>6, <2>1 DEF PostFails
<1>7. ASSUME NEW n \in Votes, NEW new, voting' = [voting EXCEPT ![n] = new],
             new.stage = "over" \/ (new.stage = "sent" /\ new.list \in Done),
             UNCHANGED <<lists, mine, others, clock, posts, socket, gets, making, view, drawn,
                         freshness, lost, overlapped>>
      PROVE  PageInv'
  <2>1. \A m \in Votes : voting'[m] = IF m = n THEN new ELSE voting[m]
    BY <1>7 DEF Inv, Typed
  <2>2. \A m \in Votes : voting'[m] = voting[m] \/ voting'[m].stage # "counted"
    BY <1>7, <2>1
  <2>3. \A m \in Votes : InFlight(m)' => voting'[m].list \in Done
    BY <1>0, <1>7, <2>1 DEF InFlight
  <2>4. Done' = Done
    BY <1>7 DEF Done
  <2>5. QED
    BY <1>0, <1>7, <2>2, <2>3, <2>4, RequestPage
<1>8. ASSUME NEW l \in Lists, Vote(l) PROVE PageInv'
  <2>1. l \in Done
    BY <1>8, Bounds DEF Vote, PageInv, CommittedInv
  <2>2. PICK n \in Votes : \E value :
          voting' = [voting EXCEPT ![n] = Ballot("sent", l, value, myVotes[l])]
    BY <1>8 DEF Vote
  <2>3. PICK new : /\ voting' = [voting EXCEPT ![n] = new]
                    /\ new.stage = "sent" /\ new.list = l
    <3>1. PICK value : voting' = [voting EXCEPT ![n] = Ballot("sent", l, value, myVotes[l])]
      BY <2>2
    <3>2. /\ Ballot("sent", l, value, myVotes[l]).stage = "sent"
          /\ Ballot("sent", l, value, myVotes[l]).list = l
      BY DEF Ballot
    <3>3. QED
      BY <3>1, <3>2, Zenon
  <2>4. UNCHANGED <<lists, mine, others, clock, posts, socket, gets, making, view, drawn,
                    freshness, lost, overlapped>>
    BY <1>8 DEF Vote
  <2>5. QED
    BY <1>7, <2>1, <2>3, <2>4
<1>9. ASSUME NEW n \in Votes, VoteFails(n) PROVE PageInv'
  <2>1. Ballot("over", 0, 0, 0).stage = "over"
    BY DEF Ballot
  <2>2. QED
    BY <1>7, <1>9, <2>1 DEF VoteFails
<1>10. QED
  BY <1>1, <1>3, <1>5, <1>6, <1>8, <1>9

LEMMA SocketStep ==
  ASSUME Inv, Inv', PageInv,
         RedisPublish \/ Connect \/ Disconnect \/ Render \/ UNCHANGED vars
  PROVE  PageInv'
<1>0. /\ posts \subseteq Events /\ inbox \in Seq(Events) /\ lost \in Nat /\ lost <= clock
      /\ clock \in Nat /\ \A e \in Carried : e.at \in Nat /\ e.at <= clock
  BY InFlightTypes DEF PageInv, PageTyped, CommittedInv, Inv, Typed, Events
<1>1. CASE RedisPublish
  <2>1. PICK e \in posts : (Publish(e) \/ Miss(e)) /\ posts' = posts \ {e}
    BY <1>1 DEF RedisPublish
  <2>2. e \in Events /\ e \in Carried /\ e.at \in Nat /\ e.at <= clock
    BY <1>0, <2>1 DEF Carried
  <2>3. /\ inbox' \in Seq(Events)
        /\ \/ /\ {inbox'[i] : i \in DOMAIN inbox'} = {inbox[i] : i \in DOMAIN inbox} \cup {e}
              /\ lost' = lost
           \/ inbox' = inbox /\ lost' = IF lost <= e.at THEN e.at ELSE lost
    BY <2>1, <2>2, PublishFacts DEF PageInv
  <2>4. /\ lost' \in Nat /\ lost <= lost' /\ lost' <= clock /\ Carried' \subseteq Carried
        /\ \A f \in Carried \ Carried' : f.at <= lost'
    <3>1. CASE /\ {inbox'[i] : i \in DOMAIN inbox'} = {inbox[i] : i \in DOMAIN inbox} \cup {e}
               /\ lost' = lost
      <4>1. Carried' = Carried
        BY <2>1, <2>2, <3>1 DEF Carried
      <4>2. QED
        BY <1>0, <3>1, <4>1
    <3>2. CASE inbox' = inbox /\ lost' = IF lost <= e.at THEN e.at ELSE lost
      <4>1. Carried' \subseteq Carried /\ Carried \subseteq Carried' \cup {e}
        BY <2>1, <3>2 DEF Carried
      <4>2. lost' \in Nat /\ lost <= lost' /\ lost' <= clock /\ e.at <= lost'
        BY <1>0, <2>2, <3>2
      <4>3. QED
        BY <4>1, <4>2
    <3>3. QED
      BY <2>3, <3>1, <3>2
  <2>5. UNCHANGED <<server, requests, view, freshness, overlapped>> /\ drawn' = drawn
    BY <1>1 DEF RedisPublish, page
  <2>6. posts' \subseteq Events
    BY <1>0, <2>1
  <2>7. QED
    BY <2>3, <2>4, <2>5, <2>6, SocketPage
<1>2. CASE Connect \/ Render \/ UNCHANGED vars
  <2>1. /\ UNCHANGED <<posts, inbox, lost, server, requests, view, freshness, overlapped>>
        /\ drawn' \in {drawn, view}
    BY <1>2 DEF Connect, Render, vars, page, socket
  <2>2. Carried' = Carried
    BY <2>1 DEF Carried
  <2>3. QED
    BY <1>0, <2>1, <2>2, SocketPage
<1>3. CASE Disconnect
  <2>1. /\ inbox' = <<>> /\ lost' = Max({lost} \cup {inbox[i].at : i \in DOMAIN inbox})
        /\ UNCHANGED <<posts, server, requests, view, freshness, overlapped>> /\ drawn' = drawn
    BY <1>3 DEF Disconnect, page
  <2>2. PICK stamps : stamps = {lost} \cup {inbox[i].at : i \in DOMAIN inbox}
    OBVIOUS
  <2>3. stamps \in SUBSET Nat /\ stamps # {} /\ \A x \in stamps : x <= clock
    BY <1>0, <2>2 DEF Carried
  <2>4. Max(stamps) \in stamps /\ \A x \in stamps : x <= Max(stamps)
    BY <1>0, <2>3, Greatest
  <2>5. lost' \in Nat /\ lost <= lost' /\ lost' <= clock /\ \A i \in DOMAIN inbox : inbox[i].at <= lost'
    BY <2>1, <2>2, <2>3, <2>4
  <2>6. inbox' \in Seq(Events) /\ DOMAIN inbox' = {}
    BY <2>1, EmptySeq, LenProperties
  <2>7. Carried' \subseteq Carried /\ \A e \in Carried \ Carried' : \E i \in DOMAIN inbox : e = inbox[i]
    BY <2>1, <2>6 DEF Carried
  <2>8. \A e \in Carried \ Carried' : e.at <= lost'
    BY <2>5, <2>7
  <2>9. posts' \subseteq Events
    BY <1>0, <2>1
  <2>10. QED
    BY <2>1, <2>5, <2>6, <2>7, <2>8, <2>9, SocketPage
<1>4. QED
  BY <1>1, <1>2, <1>3

\* A fetch is begun, read or lost.
LEMMA FetchPage ==
  ASSUME Inv, Inv', PageInv, NEW g \in Gets,
         NEW new \in [stage : {"none", "sent", "read"}, first : BOOLEAN, value : Values, at : Nat],
         gets' = [gets EXCEPT ![g] = new],
         UNCHANGED <<server, posts, making, voting, view, drawn, freshness, overlapped>>,
         \/ /\ gets[g].stage = "none" /\ new.stage = "sent" /\ lost' = lost
            /\ inbox # <<>> /\ Head(inbox).what # "vote" /\ inbox' = Tail(inbox)
         \/ new.stage = "none" /\ lost' = clock /\ inbox' = inbox
         \/ /\ new.stage = "read" /\ lost' = lost /\ inbox' = inbox
            /\ new.at = clock /\ new.value.id = Newest(Done)
            /\ new.value.total = Total(new.value.id)
  PROVE  PageInv'
<1>0. /\ gets \in [Gets -> [stage : {"none", "sent", "read"}, first : BOOLEAN,
                            value : Values, at : Nat]]
      /\ inbox \in Seq(Events) /\ lost \in Nat /\ lost <= clock /\ clock \in Nat
  BY DEF PageInv, PageTyped, CommittedInv, Inv, Typed
<1>1. gets'[g] = new /\ \A h \in Gets \ {g} : gets'[h] = gets[h]
  BY <1>0
<1>2. /\ inbox' \in Seq(Events) /\ Carried' \subseteq Carried
      /\ \A e \in Carried \ Carried' : e.what # "vote" /\ new.stage = "sent"
  <2>1. CASE inbox' = inbox
    BY <1>0, <2>1 DEF Carried
  <2>2. CASE inbox # <<>> /\ Head(inbox).what # "vote" /\ inbox' = Tail(inbox) /\ new.stage = "sent"
    <3>1. /\ Tail(inbox) \in Seq(Events)
          /\ \A i \in DOMAIN Tail(inbox) : \E j \in DOMAIN inbox : Tail(inbox)[i] = inbox[j]
          /\ \A i \in DOMAIN inbox :
               inbox[i] = Head(inbox) \/ \E j \in DOMAIN Tail(inbox) : inbox[i] = Tail(inbox)[j]
      BY <1>0, <2>2, TailFacts
    <3>2. PICK rest : rest = Tail(inbox)
      OBVIOUS
    <3>3. Carried' = posts \cup {rest[i] : i \in DOMAIN rest}
      BY <2>2, <3>2 DEF Carried
    <3>4. /\ rest \in Seq(Events)
          /\ \A i \in DOMAIN rest : \E j \in DOMAIN inbox : rest[i] = inbox[j]
          /\ \A i \in DOMAIN inbox :
               inbox[i] = Head(inbox) \/ \E j \in DOMAIN rest : inbox[i] = rest[j]
      BY <3>1, <3>2
    <3>5. Carried' \subseteq Carried
      BY <3>3, <3>4 DEF Carried
    <3>6. \A e \in Carried \ Carried' : e = Head(inbox)
      BY <3>3, <3>4 DEF Carried
    <3>7. QED
      BY <2>2, <3>1, <3>5, <3>6
  <2>3. QED
    BY <2>1, <2>2
<1>3. PageTyped'
  <2>1. gets' \in [Gets -> [stage : {"none", "sent", "read"}, first : BOOLEAN,
                            value : Values, at : Nat]]
    BY <1>0
  <2>2. lost' \in Nat
    BY <1>0
  <2>3. QED
    BY <1>2, <2>1, <2>2 DEF PageInv, PageTyped, server, freshness
<1>4. Done' = Done /\ UNCHANGED <<mine, others, clock, view, asof, seen, crossed>>
  BY DEF Done, server, freshness
<1>5. /\ \A n \in Votes : InFlight(n)' => voting'[n].list \in Done
      /\ \A b \in Buttons : making'[b].stage = "began" => making'[b].list \in Lists
  BY DEF PageInv, CommittedInv, InFlight
<1>6. \A a \in Answers' :
        a \in Answers \/ (a.id = Newest(Done) /\ a.total = Total(a.id) /\ a.at = clock)
  BY <1>1 DEF Answers
<1>7. Totals' \subseteq Totals
  BY <1>2 DEF Totals
<1>8. /\ lost <= lost' /\ lost' <= clock
      /\ \A h \in Gets :
           \/ gets'[h] = gets[h] \/ gets[h].stage = "none" \/ lost' = clock
           \/ gets'[h].stage = "read" /\ gets'[h].at = clock /\ gets'[h].value.id = Newest(Done)
  BY <1>0, <1>1
<1>9. \A e \in Carried \ Carried' :
        e.at <= lost' \/ (e.what # "vote" /\ \E h \in Gets : gets'[h].stage = "sent")
  BY <1>1, <1>2
<1>10. QED
  BY <1>2, <1>3, <1>4, <1>5, <1>6, <1>7, <1>8, <1>9, QuietPage

LEMMA FetchStep ==
  ASSUME Inv, Inv', PageInv,
         \/ \E g \in Gets : Read(g) \/ GetFails(g)
         \/ Hear /\ HearChange(Head(inbox))
  PROVE  PageInv'
<1> DEFINE Fetches == [stage : {"none", "sent", "read"}, first : BOOLEAN, value : Values, at : Nat]
<1>0. gets \in [Gets -> Fetches] /\ clock \in Nat
  BY DEF PageInv, PageTyped, Inv, Typed
<1>1. FreeGet \in Fetches /\ FreeGet.stage = "none"
  BY Bounds DEF FreeGet, Nothing, Values
<1>2. ASSUME NEW g \in Gets, Read(g) PROVE PageInv'
  <2>1. Newest(Done) \in 0..MaxLists /\ Total(Newest(Done)) \in Int
    <3>1. Newest(Done) \in Lists \cup {0}
      BY DoneFacts
    <3>2. QED
      BY <3>1, Bounds, TotalsAreNumbers DEF Inv, Lists
  <2>2. Latest \in Values /\ Latest.id = Newest(Done) /\ Latest.total = Total(Latest.id)
    BY <2>1 DEF Latest, Values
  <2>3. PICK old \in Fetches : old = gets[g]
    BY <1>0
  <2>4. PICK latest \in Values : latest = Latest
    BY <2>2
  <2>5. PICK new : new = [old EXCEPT !.stage = "read", !.value = latest, !.at = clock]
    OBVIOUS
  <2>6. new \in Fetches /\ new.stage = "read" /\ new.value = latest /\ new.at = clock
    BY <1>0, <2>5
  <2>7. gets' = [gets EXCEPT ![g] = [gets[g] EXCEPT !.stage = "read", !.value = Latest, !.at = clock]]
    BY <1>2 DEF Read
  <2>8. gets' = [gets EXCEPT ![g] = new]
    BY <2>3, <2>4, <2>5, <2>7, Zenon
  <2>9. /\ UNCHANGED <<server, posts, making, voting, view, drawn, freshness, overlapped>>
        /\ lost' = lost /\ inbox' = inbox
    BY <1>2 DEF Read, page, socket
  <2>10. new.value.id = Newest(Done) /\ new.value.total = Total(new.value.id)
    BY <2>2, <2>4, <2>6
  <2>11. QED
    BY <2>6, <2>8, <2>9, <2>10, FetchPage
<1>3. ASSUME NEW g \in Gets, GetFails(g) PROVE PageInv'
  BY <1>1, <1>3, FetchPage DEF GetFails, socket
<1>4. CASE Hear /\ HearChange(Head(inbox))
  <2>1. PICK g \in FreeGets : gets' = [gets EXCEPT ![g] = GetSent(FALSE)]
    BY <1>4 DEF HearChange
  <2>2. g \in Gets /\ gets[g].stage = "none"
    BY DEF FreeGets
  <2>3. PICK new \in Fetches : new.stage = "sent" /\ new = GetSent(FALSE)
    <3>1. PICK free \in Fetches : free = FreeGet
      BY <1>1, Zenon
    <3>2. PICK new : new = [free EXCEPT !.stage = "sent", !.first = FALSE]
      OBVIOUS
    <3>3. new \in Fetches /\ new.stage = "sent"
      BY <3>2
    <3>4. GetSent(FALSE) = new
      BY <3>1, <3>2, Zenon DEF GetSent
    <3>5. QED
      BY <3>3, <3>4, Zenon
  <2>4. gets' = [gets EXCEPT ![g] = new]
    BY <2>1, <2>3, Zenon
  <2>5. /\ inbox # <<>> /\ Head(inbox).what # "vote" /\ inbox' = Tail(inbox) /\ lost' = lost
        /\ UNCHANGED <<server, posts, making, voting, view, drawn, freshness, overlapped>>
    BY <1>4 DEF Hear, HearChange
  <2>6. QED
    BY <2>2, <2>3, <2>4, <2>5, FetchPage
<1>5. QED
  BY <1>2, <1>3, <1>4

LEMMA ShowStep ==
  ASSUME Inv, Inv', PageInv,
         (\E g \in Gets : Arrives(g)) \/ (\E b \in Buttons : Built(b))
  PROVE  PageInv' /\ (view'.id < view.id => crossed' \/ overlapped)
<1> DEFINE Fetches == [stage : {"none", "sent", "read"}, first : BOOLEAN, value : Values, at : Nat]
           Posts == [stage : {"none", "patch", "began", "done"}, list : 0..MaxLists, at : Nat]
<1>0. /\ gets \in [Gets -> Fetches] /\ making \in [Buttons -> Posts] /\ seen \in Nat
      /\ FreeGet \in Fetches /\ FreeGet.stage = "none"
      /\ FreePost \in Posts /\ FreePost.stage = "none"
  BY Bounds DEF PageInv, PageTyped, FreeGet, FreePost, Nothing, Values
<1>1. ASSUME NEW a \in Answers, NEW value \in Values, Show(value, a.at), value.id = a.id,
             value.total = a.total,
             UNCHANGED <<server, posts, inbox, voting, drawn, lost, overlapped>>,
             gets' \in [Gets -> Fetches], making' \in [Buttons -> Posts],
             \A b \in Buttons : making'[b] = making[b] \/ making'[b].stage = "none",
             \A g \in Gets : \/ gets'[g] = gets[g]
                             \/ gets[g].stage = "read" /\ gets[g].at = a.at /\ gets'[g].stage = "none"
      PROVE  PageInv' /\ (view'.id < view.id => crossed' \/ overlapped)
  <2>1. /\ view' = value /\ asof' = a.at /\ crossed' = (a.at < seen) /\ seen' = Max({seen, a.at})
        /\ a.at \in Nat /\ a.id \in Nat /\ view.id \in Nat
    BY <1>1, InFlightTypes DEF Show, PageInv
  <2>2. seen' \in Nat
    BY <1>0, <2>1, LaterOf
  <2>3. PageTyped'
    BY <1>1, <2>1, <2>2 DEF PageInv, PageTyped, server
  <2>4. Done' = Done /\ UNCHANGED <<mine, others, clock>>
    BY <1>1 DEF Done, server
  <2>5. Answers' \subseteq Answers
    BY <1>1 DEF Answers
  <2>6. \A b \in Buttons : making'[b].stage = "began" => making'[b].list \in Lists
    BY <1>1 DEF PageInv, CommittedInv
  <2>7. PageInv'
    BY <1>1, <2>1, <2>3, <2>4, <2>5, <2>6, ShowPage
  <2>8. ASSUME view'.id < view.id, ~overlapped PROVE a.at < seen
    <3>1. a.at >= seen => view.id <= a.id
      BY <2>8 DEF PageInv, OrderInv
    <3>2. a.id < view.id
      BY <1>1, <2>1, <2>8
    <3>3. QED
      BY <1>0, <2>1, <3>1, <3>2
  <2>9. view'.id < view.id => crossed' \/ overlapped
    BY <2>1, <2>8, Zenon
  <2>10. QED
    BY <2>7, <2>9, Zenon
<1>2. ASSUME NEW g \in Gets, Arrives(g)
      PROVE  PageInv' /\ (view'.id < view.id => crossed' \/ overlapped)
  <2>1. PICK a \in Answers : /\ a.id = gets[g].value.id /\ a.total = gets[g].value.total
                             /\ a.at = gets[g].at
    <3>1. gets[g].stage = "read"
      BY <1>2 DEF Arrives
    <3>2. [id |-> gets[g].value.id, total |-> gets[g].value.total, at |-> gets[g].at] \in Answers
      BY <3>1, Zenon DEF Answers
    <3>3. QED
      BY <3>2
  <2>2. PICK value \in Values : value = gets[g].value
    BY <1>0
  <2>3. Show(value, a.at) /\ value.id = a.id /\ value.total = a.total
    BY <1>2, <2>1, <2>2 DEF Arrives
  <2>4. gets' = [gets EXCEPT ![g] = FreeGet] /\ gets[g].stage = "read"
    BY <1>2 DEF Arrives
  <2>5. /\ gets' \in [Gets -> Fetches]
        /\ \A h \in Gets : \/ gets'[h] = gets[h]
                           \/ gets[h].stage = "read" /\ gets[h].at = a.at /\ gets'[h].stage = "none"
    BY <1>0, <2>1, <2>4
  <2>6. UNCHANGED <<server, posts, inbox, making, voting, drawn, lost, overlapped>>
    BY <1>2 DEF Arrives, socket
  <2>7. QED
    BY <1>0, <1>1, <2>3, <2>5, <2>6
<1>3. ASSUME NEW b \in Buttons, Built(b)
      PROVE  PageInv' /\ (view'.id < view.id => crossed' \/ overlapped)
  <2>1. PICK value : value = [id |-> making[b].list, total |-> 0]
    OBVIOUS
  <2>2. value \in Values
    BY <1>0, <2>1 DEF Values
  <2>3. PICK a \in Answers : a.id = making[b].list /\ a.total = 0 /\ a.at = making[b].at
    <3>1. making[b].stage = "done"
      BY <1>3 DEF Built
    <3>2. [id |-> making[b].list, total |-> 0, at |-> making[b].at] \in Answers
      BY <3>1, Zenon DEF Answers
    <3>3. QED
      BY <3>2
  <2>4. Show(value, a.at)
    BY <1>3, <2>1, <2>3, Zenon DEF Built
  <2>5. value.id = a.id /\ value.total = a.total
    BY <2>1, <2>3
  <2>6. making' = [making EXCEPT ![b] = FreePost]
    BY <1>3 DEF Built
  <2>7. /\ making' \in [Buttons -> Posts]
        /\ \A c \in Buttons : making'[c] = making[c] \/ making'[c].stage = "none"
    BY <1>0, <2>6
  <2>8. UNCHANGED <<server, posts, inbox, gets, voting, drawn, lost, overlapped>>
    BY <1>3 DEF Built, socket
  <2>9. QED
    BY <1>0, <1>1, <2>2, <2>4, <2>5, <2>7, <2>8
<1>4. QED
  BY <1>2, <1>3

LEMMA PatchStep ==
  ASSUME Inv, Inv', PageInv,
         (Hear /\ HearVote(Head(inbox))) \/ (\E n \in Votes : VoteSaved(n))
  PROVE  PageInv' /\ (view'.id < view.id => crossed' \/ overlapped)
<1>0. /\ seen \in Nat /\ inbox \in Seq(Events) /\ view \in Values /\ drawn \in Values
      /\ asof \in Nat /\ view.id \in Nat
  BY InFlightTypes DEF PageInv, PageTyped
<1>1. ASSUME NEW p \in Totals, NEW base \in {view, drawn}, Patch(base, p.list, p.total, p.at),
             UNCHANGED <<server, posts, gets, making, drawn, lost, overlapped>>,
             inbox' \in Seq(Events), Carried' \subseteq Carried,
             \A e \in Carried \ Carried' : e.what = "vote" /\ e.list = p.list /\ e.at = p.at,
             \A n \in Votes : voting'[n] = voting[n] \/ voting'[n].stage = "over"
      PROVE  PageInv' /\ (view'.id < view.id => crossed' \/ overlapped)
  <2>1. p.at \in Nat /\ p.total \in Int /\ p.list \in Lists
    BY InFlightTypes DEF PageInv
  <2>2. /\ view' = IF base = Nothing THEN view
                   ELSE IF base.id = p.list THEN [base EXCEPT !.total = p.total] ELSE base
        /\ crossed' = (crossed \/ p.at < seen \/ base # view)
        /\ seen' = Max({seen, p.at}) /\ asof' = asof
    BY <1>1 DEF Patch
  <2>3. view' \in Values /\ (base = view => view'.id = view.id)
    <3>1. PICK b \in Values : b = base
      BY <1>0
    <3>2. [b EXCEPT !.total = p.total] \in Values /\ [b EXCEPT !.total = p.total].id = b.id
      BY <2>1 DEF Values
    <3>3. QED
      BY <1>0, <2>2, <3>1, <3>2
  <2>4. seen' \in Nat
    BY <1>0, <2>1, <2>2, LaterOf
  <2>5. crossed' \in BOOLEAN
    BY <2>2, Zenon
  <2>6. PageTyped'
    BY <1>1, <2>2, <2>3, <2>4, <2>5 DEF PageInv, PageTyped, server
  <2>7. Done' = Done /\ UNCHANGED <<mine, others, clock>>
    BY <1>1 DEF Done, server
  <2>8. Totals' \subseteq Totals
    BY <1>1 DEF Totals
  <2>9. \A n \in Votes : InFlight(n)' => voting'[n].list \in Done
    BY <1>1 DEF InFlight, PageInv, CommittedInv
  <2>10. PageInv'
    BY <1>1, <2>6, <2>7, <2>8, <2>9, PatchPage
  <2>11. base # view => crossed'
    BY <2>2, Zenon
  <2>12. view'.id < view.id => base # view
    BY <1>0, <2>3
  <2>13. QED
    BY <2>10, <2>11, <2>12, Zenon
<1>2. CASE Hear /\ HearVote(Head(inbox))
  <2>1. /\ inbox # <<>> /\ inbox' = Tail(inbox) /\ UNCHANGED voting
        /\ UNCHANGED <<server, posts, gets, making, drawn, lost, overlapped>>
        /\ Head(inbox).what = "vote"
        /\ Patch(drawn, Head(inbox).list, Head(inbox).total, Head(inbox).at)
    BY <1>2 DEF Hear, HearVote
  <2>2. /\ \E i \in DOMAIN inbox : inbox[i] = Head(inbox)
        /\ Tail(inbox) \in Seq(Events)
        /\ \A i \in DOMAIN Tail(inbox) : \E j \in DOMAIN inbox : Tail(inbox)[i] = inbox[j]
        /\ \A i \in DOMAIN inbox :
             inbox[i] = Head(inbox) \/ \E j \in DOMAIN Tail(inbox) : inbox[i] = Tail(inbox)[j]
    BY <1>0, <2>1, TailFacts
  <2>3. PICK rest : rest = Tail(inbox)
    OBVIOUS
  <2>4. PICK e : e = Head(inbox)
    OBVIOUS
  <2>5. Carried' = posts \cup {rest[i] : i \in DOMAIN rest}
    BY <2>1, <2>3 DEF Carried
  <2>6. /\ \A i \in DOMAIN rest : \E j \in DOMAIN inbox : rest[i] = inbox[j]
        /\ \A i \in DOMAIN inbox : inbox[i] = e \/ \E j \in DOMAIN rest : inbox[i] = rest[j]
    BY <2>2, <2>3, <2>4
  <2>7. Carried' \subseteq Carried /\ e \in Carried
    BY <2>2, <2>4, <2>5, <2>6 DEF Carried
  <2>8. \A f \in Carried \ Carried' : f = e
    BY <2>5, <2>6 DEF Carried
  <2>9. PICK p \in Totals : p.list = e.list /\ p.total = e.total /\ p.at = e.at
    <3>1. e.what = "vote"
      BY <2>1, <2>4
    <3>2. [list |-> e.list, total |-> e.total, at |-> e.at] \in Totals
      BY <2>7, <3>1, Zenon DEF Totals
    <3>3. QED
      BY <3>2
  <2>10. Patch(drawn, p.list, p.total, p.at)
    BY <2>1, <2>4, <2>9
  <2>11. \A f \in Carried \ Carried' : f.what = "vote" /\ f.list = p.list /\ f.at = p.at
    BY <2>1, <2>4, <2>8, <2>9
  <2>12. inbox' \in Seq(Events)
    BY <2>1, <2>2
  <2>13. QED
    BY <1>1, <2>1, <2>7, <2>10, <2>11, <2>12
<1>3. ASSUME NEW n \in Votes, VoteSaved(n)
      PROVE  PageInv' /\ (view'.id < view.id => crossed' \/ overlapped)
  <2>1. /\ voting[n].stage = "counted"
        /\ Patch(view, voting[n].list, voting[n].total, voting[n].at)
        /\ voting' = [voting EXCEPT ![n] = Ballot("over", voting[n].list, 0, 0)]
        /\ UNCHANGED <<server, posts, inbox, gets, making, drawn, lost, overlapped>>
    BY <1>3 DEF VoteSaved, socket
  <2>2. PICK p \in Totals : /\ p.list = voting[n].list /\ p.total = voting[n].total
                            /\ p.at = voting[n].at
    <3>1. [list |-> voting[n].list, total |-> voting[n].total, at |-> voting[n].at] \in Totals
      BY <2>1, Zenon DEF Totals
    <3>2. QED
      BY <3>1
  <2>3. Patch(view, p.list, p.total, p.at)
    BY <2>1, <2>2
  <2>4. \A m \in Votes : voting'[m] = voting[m] \/ voting'[m].stage = "over"
    BY <2>1 DEF Ballot, Inv, Typed
  <2>5. Carried' = Carried /\ inbox' \in Seq(Events)
    BY <1>0, <2>1 DEF Carried
  <2>6. QED
    BY <1>1, <2>1, <2>3, <2>4, <2>5
<1>4. QED
  BY <1>2, <1>3

LEMMA GenerateStep ==
  ASSUME Inv, Inv', PageInv, OthersGenerate \/ \E b \in Buttons : PostGenerates(b)
  PROVE  PageInv' /\ UNCHANGED view
<1> DEFINE Posts == [stage : {"none", "patch", "began", "done"}, list : 0..MaxLists, at : Nat]
<1>0. /\ making \in [Buttons -> Posts] /\ clock \in Nat
      /\ lists \in [Lists -> {"none", "began", "done"}]
      /\ \A b \in Buttons : making[b].stage = "began" => making[b].list \in Lists
  BY DEF PageInv, PageTyped, CommittedInv, Inv, Typed
<1>1. ASSUME NEW l \in Lists, Generate(l),
             UNCHANGED <<gets, voting, page, freshness>>, making' \in [Buttons -> Posts],
             \A b \in Buttons :
               \/ making'[b] = making[b]
               \/ making'[b].stage = "done" /\ making'[b].list = l /\ making'[b].at = clock + 1
      PROVE  PageInv' /\ UNCHANGED view
  <2>1. /\ UNCHANGED <<gets, voting, view, drawn, seen, asof, crossed>>
        /\ lists' = [lists EXCEPT ![l] = "done"] /\ Commit("generated", l, 0)
        /\ overlapped' = (overlapped \/ \E k \in Done : k > l)
    BY <1>1 DEF page, freshness, Generate
  <2>2. PICK e : e = [what |-> "generated", list |-> l, total |-> 0, at |-> clock + 1]
    OBVIOUS
  <2>3. lost' \in {lost, clock + 1} /\ posts' \subseteq Events /\ inbox' \in Seq(Events)
    BY <1>0, <2>1, <2>2, CommitFacts, 0 \in Int DEF PageInv
  <2>4. overlapped' \in BOOLEAN
    BY <2>1, Zenon
  <2>5. lists' \in [Lists -> {"none", "began", "done"}] /\ lost' \in Nat
    BY <1>0, <2>1, <2>3 DEF PageInv, PageTyped
  <2>6. PageTyped'
    BY <1>1, <2>1, <2>3, <2>4, <2>5 DEF PageInv, PageTyped
  <2>7. \A a \in Answers' : a \in Answers \/ (a.id = l /\ a.total = 0 /\ a.at = clock + 1)
    BY <1>1, <2>1 DEF Answers
  <2>8. \A b \in Buttons : making'[b].stage = "began" => making'[b].list \in Lists
    BY <1>0, <1>1
  <2>9. PageInv'
    BY <1>1, <2>1, <2>6, <2>7, <2>8, GeneratePage
  <2>10. QED
    BY <2>1, <2>9
<1>2. CASE OthersGenerate
  BY <1>0, <1>1, <1>2 DEF OthersGenerate, requests
<1>3. ASSUME NEW b \in Buttons, PostGenerates(b) PROVE PageInv' /\ UNCHANGED view
  <2>1. /\ making[b].stage = "began" /\ Generate(making[b].list)
        /\ making' = [making EXCEPT ![b].stage = "done", ![b].at = clock + 1]
        /\ UNCHANGED <<gets, voting, page, freshness>>
    BY <1>3 DEF PostGenerates
  <2>2. PICK old \in Posts : old = making[b]
    BY <1>0
  <2>3. PICK l \in Lists : l = making[b].list
    BY <1>0, <2>1
  <2>4. PICK new : new = [old EXCEPT !.stage = "done", !.at = clock + 1]
    OBVIOUS
  <2>5. new \in Posts /\ new.stage = "done" /\ new.list = old.list /\ new.at = clock + 1
    <3>1. PICK now \in Nat : now = clock + 1
      BY <1>0
    <3>2. [old EXCEPT !.stage = "done"] \in Posts
      OBVIOUS
    <3>3. [old EXCEPT !.stage = "done", !.at = now] \in Posts
      BY <3>2
    <3>4. new = [old EXCEPT !.stage = "done", !.at = now]
      BY <2>4, <3>1, Zenon
    <3>5. new.stage = "done" /\ new.list = old.list /\ new.at = now
      BY <3>4
    <3>6. QED
      BY <3>1, <3>3, <3>4, <3>5, Zenon
  <2>6. making' = [making EXCEPT ![b] = [making[b] EXCEPT !.stage = "done", !.at = clock + 1]]
    BY <2>1
  <2>7. making' = [making EXCEPT ![b] = new]
    BY <2>2, <2>4, <2>6, Zenon
  <2>8. /\ making' \in [Buttons -> Posts]
        /\ \A c \in Buttons :
             \/ making'[c] = making[c]
             \/ making'[c].stage = "done" /\ making'[c].list = l /\ making'[c].at = clock + 1
    BY <1>0, <2>2, <2>3, <2>5, <2>7
  <2>9. Generate(l)
    BY <2>1, <2>3
  <2>10. QED
    BY <1>1, <2>1, <2>8, <2>9
<1>4. QED
  BY <1>2, <1>3

LEMMA VotesStep ==
  ASSUME Inv, Inv', PageInv, OthersVote \/ \E n \in Votes : VoteCounted(n)
  PROVE  PageInv' /\ UNCHANGED view
<1>0. /\ clock \in Nat /\ Done \subseteq Lists /\ mine \in [Lists -> {-1, 0, 1}]
      /\ others \in [Lists -> Int]
      /\ \A l \in Lists : mine[l] \in Int
  BY DoneFacts DEF Inv, Typed
<1>1. ASSUME NEW l \in Done, NEW total \in Int, Commit("vote", l, total), Total(l)' = total,
             \A k \in Lists \ {l} : mine'[k] = mine[k] /\ others'[k] = others[k],
             UNCHANGED <<lists, overlapped, gets, making, page, freshness>>,
             \A n \in Votes :
               \/ voting'[n] = voting[n]
               \/ /\ voting[n].list = l /\ voting'[n].list = l /\ voting'[n].stage = "counted"
                  /\ voting'[n].total = total /\ voting'[n].at = clock + 1
      PROVE  PageInv' /\ UNCHANGED view
  <2>1. UNCHANGED <<view, drawn, seen, asof, crossed>>
    BY <1>1 DEF page, freshness
  <2>2. PICK e : e = [what |-> "vote", list |-> l, total |-> total, at |-> clock + 1]
    OBVIOUS
  <2>3. lost' \in {lost, clock + 1} /\ posts' \subseteq Events /\ inbox' \in Seq(Events)
    BY <1>0, <1>1, <2>2, CommitFacts DEF PageInv
  <2>4. lost' \in Nat
    BY <1>0, <2>3 DEF PageInv, PageTyped
  <2>5. PageTyped'
    BY <1>1, <2>1, <2>3, <2>4 DEF PageInv, PageTyped
  <2>6. \A n \in Votes :
          /\ InFlight(n)' => voting'[n].list \in Done
          /\ voting'[n].stage = "counted" =>
               \/ voting'[n] = voting[n]
               \/ voting'[n].list = l /\ voting'[n].total = total /\ voting'[n].at = clock + 1
    BY <1>1 DEF PageInv, CommittedInv, InFlight
  <2>7. PageInv'
    BY <1>1, <2>1, <2>5, <2>6, VotePage
  <2>8. QED
    BY <2>1, <2>7
<1>2. CASE OthersVote
  <2>1. PICK l \in Done :
          /\ others' = [others EXCEPT ![l] = @ + 1] /\ Commit("vote", l, Total(l) + 1)
          /\ UNCHANGED <<lists, mine, overlapped, requests, page, freshness>>
    BY <1>2 DEF OthersVote
  <2>2. /\ l \in Lists /\ Total(l) = mine[l] + others[l] /\ mine[l] \in Int /\ others[l] \in Int
    BY <1>0, TotalsAreNumbers DEF Inv
  <2>3. others'[l] = others[l] + 1 /\ \A k \in Lists \ {l} : others'[k] = others[k]
    BY <1>0, <2>1, <2>2
  <2>4. Total(l) + 1 \in Int /\ Total(l)' = Total(l) + 1
    <3>1. l # 0
      BY <2>2, Bounds
    <3>2. Total(l)' = mine[l] + (others[l] + 1)
      BY <2>1, <2>3, <3>1 DEF Total
    <3>3. QED
      BY <2>2, <3>2
  <2>5. PICK total \in Int : total = Total(l) + 1
    BY <2>4
  <2>6. Commit("vote", l, total) /\ Total(l)' = total
    BY <2>1, <2>4, <2>5
  <2>7. \A n \in Votes : voting'[n] = voting[n]
    BY <2>1 DEF requests
  <2>8. UNCHANGED <<gets, making>> /\ \A k \in Lists \ {l} : mine'[k] = mine[k]
    BY <2>1 DEF requests
  <2>9. QED
    BY <1>1, <2>1, <2>3, <2>6, <2>7, <2>8
<1>3. ASSUME NEW n \in Votes, VoteCounted(n) PROVE PageInv' /\ UNCHANGED view
  <2>1. PICK l \in Done : l = voting[n].list
    BY <1>3 DEF VoteCounted, InFlight, PageInv, CommittedInv
  <2>2. PICK value \in {-1, 0, 1} : value = voting[n].value
    BY DEF Inv, Typed
  <2>3. l \in Lists /\ others[l] \in Int /\ value + others[l] \in Int
    BY <1>0, <2>2
  <2>4. PICK total \in Int : total = value + others[l]
    BY <2>3
  <2>5. /\ Commit("vote", l, total) /\ mine' = [mine EXCEPT ![l] = value]
        /\ voting' = [voting EXCEPT ![n] =
             [voting[n] EXCEPT !.stage = "counted", !.total = total, !.at = clock + 1]]
        /\ UNCHANGED <<lists, others, overlapped, gets, making, page, freshness>>
    BY <1>3, <2>1, <2>2, <2>4 DEF VoteCounted
  <2>6. mine'[l] = value /\ \A k \in Lists \ {l} : mine'[k] = mine[k]
    BY <1>0, <2>3, <2>5
  <2>7. Total(l)' = total
    <3>1. l # 0
      BY <2>3, Bounds
    <3>2. QED
      BY <2>4, <2>5, <2>6, <3>1 DEF Total
  <2>8. ASSUME NEW m \in Votes
        PROVE  \/ voting'[m] = voting[m]
               \/ /\ voting[m].list = l /\ voting'[m].list = l /\ voting'[m].stage = "counted"
                  /\ voting'[m].total = total /\ voting'[m].at = clock + 1
    <3>1. CASE m # n
      BY <2>5, <3>1 DEF Inv, Typed
    <3>2. CASE m = n
      <4> DEFINE Ballots == [stage : {"none", "sent", "counted", "over"}, list : Lists \cup {0},
                    value : {-1, 0, 1}, previous : {-1, 0, 1}, total : Int, at : Nat]
      <4>1. PICK b \in Ballots : b = voting[n]
        BY DEF Inv, Typed
      <4>2. PICK new : new = [b EXCEPT !.stage = "counted", !.total = total, !.at = clock + 1]
        OBVIOUS
      <4>3. /\ new.list = b.list /\ new.stage = "counted"
            /\ new.total = total /\ new.at = clock + 1
        BY <1>0, <4>2
      <4>4. voting' = [voting EXCEPT ![n] = new]
        BY <2>5, <4>1, <4>2, Zenon
      <4>5. voting'[n] = new
        BY <4>4 DEF Inv, Typed
      <4>6. QED
        BY <2>1, <3>2, <4>1, <4>3, <4>5
    <3>3. QED
      BY <3>1, <3>2
  <2>9. QED
    BY <1>1, <2>5, <2>6, <2>7, <2>8
<1>4. QED
  BY <1>2, <1>3

LEMMA PageNext ==
  Inv /\ Inv' /\ PageInv /\ [Next]_vars => PageInv' /\ (view'.id < view.id => crossed' \/ overlapped)
<1> SUFFICES ASSUME Inv, Inv', PageInv, [Next]_vars
             PROVE  PageInv' /\ (view'.id < view.id => crossed' \/ overlapped)
  OBVIOUS
<1>0. ASSUME UNCHANGED view PROVE ~(view'.id < view.id)
  BY <1>0, InFlightTypes DEF PageInv
<1>1. CASE \/ OthersBegin \/ Build \/ Switched \/ ChangeMode
           \/ \E b \in Buttons : PostFails(b)
           \/ \E l \in Lists : Vote(l)
           \/ \E n \in Votes : VoteFails(n)
  <2>1. UNCHANGED view
    BY <1>1 DEF OthersBegin, Build, Switched, ChangeMode, PostFails, Vote, VoteFails, page
  <2>2. QED
    BY <1>0, <1>1, <2>1, RequestStep, Zenon
<1>2. CASE RedisPublish \/ Connect \/ Disconnect \/ Render \/ UNCHANGED vars
  <2>1. UNCHANGED view
    BY <1>2 DEF RedisPublish, Connect, Disconnect, Render, vars, page
  <2>2. QED
    BY <1>0, <1>2, <2>1, SocketStep, Zenon
<1>3. CASE \/ \E g \in Gets : Read(g) \/ GetFails(g)
           \/ Hear /\ HearChange(Head(inbox))
  <2>1. UNCHANGED view
    BY <1>3 DEF Read, GetFails, HearChange, page
  <2>2. QED
    BY <1>0, <1>3, <2>1, FetchStep, Zenon
<1>4. CASE (\E g \in Gets : Arrives(g)) \/ (\E b \in Buttons : Built(b))
  BY <1>4, ShowStep
<1>5. CASE (Hear /\ HearVote(Head(inbox))) \/ (\E n \in Votes : VoteSaved(n))
  BY <1>5, PatchStep
<1>6. CASE OthersGenerate \/ \E b \in Buttons : PostGenerates(b)
  BY <1>0, <1>6, GenerateStep, Zenon
<1>7. CASE OthersVote \/ \E n \in Votes : VoteCounted(n)
  BY <1>0, <1>7, VotesStep, Zenon
<1>8. Hear => HearChange(Head(inbox)) \/ HearVote(Head(inbox))
  BY DEF Hear
<1>9. QED
  BY <1>1, <1>2, <1>3, <1>4, <1>5, <1>6, <1>7, <1>8 DEF Next, ServerStep, PageStep

\* RoomView, "Everything that changes state goes over REST; the socket only
\* says that something changed": a page that waits for nothing, was told of
\* every change, could fetch it and let nothing older replace it, shows the
\* latest playlist with every vote.
THEOREM ShowsTheLatest == Spec => []CurrentAtRest
<1>1. Inv /\ PageInv => CurrentAtRest
  <2> SUFFICES ASSUME Inv, PageInv, AtRest, asof >= lost, ~crossed, ~overlapped
               PROVE  view = Latest
    BY DEF CurrentAtRest
  <2>1. Carried = {}
    BY EmptySeq, LenProperties DEF AtRest, Carried
  <2>2. \A g \in Gets : gets[g].stage = "none"
    BY DEF AtRest, FreeGets
  <2>3. Told(asof, view.id) /\ Counted(asof, view.id, view.total)
    BY DEF PageInv, ViewInv
  <2>4. view.id = Newest(Done)
    BY <2>1, <2>2, <2>3 DEF Told
  <2>5. view.total = Total(view.id)
    BY <2>1, <2>3 DEF Counted
  <2>6. view = [id |-> view.id, total |-> view.total]
    BY DEF PageInv, PageTyped, Values
  <2>7. QED
    BY <2>4, <2>5, <2>6 DEF Latest
<1>2. QED
  BY <1>1, InitInv, InitPage, NextInv, PageNext, PTL DEF Spec

\* setPlaylist: of the answers, votes and failures of any number of requests,
\* only an answer that was overtaken, or one of two generations that
\* overlapped, takes the page back to an earlier playlist.
THEOREM NeverGoesBack == Spec => NeverBackwards
<1>1. Inv /\ Inv' /\ PageInv /\ [Next]_vars => [view'.id < view.id => crossed' \/ overlapped]_vars
  BY PageNext
<1>2. QED
  BY <1>1, InitInv, InitPage, NextInv, PageNext, PTL DEF Spec, NeverBackwards
=============================================================================
