--------------------------- MODULE SocketsProofs ---------------------------
(***************************************************************************)
(* Theorems about Sockets, for any number of handlers and any queue size.  *)
(***************************************************************************)
EXTENDS Sockets, FiniteSetTheorems, SequenceTheorems, TLAPS

-----------------------------------------------------------------------------
(* Queues                                                                  *)

LEMMA TailFacts ==
  ASSUME NEW S, NEW s \in Seq(S), s # <<>>
  PROVE  /\ Tail(s) \in Seq(S)
         /\ Len(s) > 0
         /\ Len(Tail(s)) = Len(s) - 1
         /\ \A i \in 1..(Len(s) - 1) : Tail(s)[i] = s[i + 1]
         /\ Head(s) = s[1]
         /\ Head(s) \in S
  OBVIOUS

LEMMA AppendFacts ==
  ASSUME NEW S, NEW s \in Seq(S), NEW e \in S
  PROVE  /\ Append(s, e) \in Seq(S)
         /\ Len(Append(s, e)) = Len(s) + 1
         /\ \A i \in 1..Len(s) : Append(s, e)[i] = s[i]
         /\ Append(s, e)[Len(s) + 1] = e
  OBVIOUS

LEMMA JoinFacts ==
  ASSUME NEW S, NEW s \in Seq(S), NEW t \in Seq(S)
  PROVE  s \o t = [i \in 1..(Len(s) + Len(t)) |-> (s \o t)[i]]
<1>1. s \o t \in Seq(S) /\ Len(s \o t) = Len(s) + Len(t)
  BY ConcatProperties
<1> DEFINE h == s \o t
<1> HIDE DEF h
<1>2. ASSUME h \in Seq(S) PROVE h = [i \in 1..Len(h) |-> h[i]]
  BY <1>2
<1> QED  BY <1>1, <1>2 DEF h

\* One more on one side, one less on the other.
LEMMA Shifted ==
  ASSUME NEW b \in Nat, NEW m \in Nat, NEW i \in Nat
  PROVE  /\ b + (i + 1) = (b + 1) + i
         /\ b + m + (i + 1) = b + (m + 1) + i
         /\ m > 0 => b + m + i = (b + 1) + (m - 1) + i
  OBVIOUS

LEMMA EventsAreNaturals == Events \subseteq Nat
  BY BoundsAssumption DEF Events

LEMMA OneMoreFacts ==
  ASSUME NEW n \in 0..MaxLeaks
  PROVE  OneMore(n) \in 0..MaxLeaks
  BY BoundsAssumption DEF OneMore

LEMMA ForgetTypes ==
  ASSUME ForgetSocket PROVE base' \in 0..MaxEvents /\ lossy' \in BOOLEAN
<1>1. base' = 0 /\ lossy' = FALSE
  BY DEF ForgetSocket
<1>2. 0 \in 0..MaxEvents
  BY BoundsAssumption
<1> QED  BY <1>1, <1>2

LEMMA FanOutTypes ==
  ASSUME TypeOK, NEW e \in Events, FanOut(e)
  PROVE  /\ queue' \in [Conns -> Seq(Events)]
         /\ \A c \in Conns : Len(queue'[c]) <= QueueSize
         /\ lossy' \in BOOLEAN
<1>1. ASSUME NEW c \in Conns
      PROVE  /\ queue'[c] \in Seq(Events)
             /\ Len(queue'[c]) <= QueueSize
  <2>1. queue[c] \in Seq(Events) /\ Len(queue[c]) <= QueueSize
    BY DEF TypeOK
  <2>2. CASE Listening(c) /\ Len(queue[c]) < QueueSize
    <3>1. queue'[c] = Append(queue[c], e)
      BY <2>2 DEF FanOut
    <3>2. Append(queue[c], e) \in Seq(Events) /\ Len(Append(queue[c], e)) = Len(queue[c]) + 1
      BY <2>1, AppendFacts
    <3> QED  BY <2>1, <2>2, <3>1, <3>2, BoundsAssumption
  <2>3. CASE ~(Listening(c) /\ Len(queue[c]) < QueueSize)
    BY <2>1, <2>3 DEF FanOut
  <2> QED  BY <2>2, <2>3
<1>2. queue' = [c \in Conns |-> queue'[c]]
  BY DEF FanOut
<1>3. queue' \in [Conns -> Seq(Events)]
  BY <1>1, <1>2
<1>4. lossy' \in BOOLEAN
  BY DEF FanOut, TypeOK
<1> QED  BY <1>1, <1>3, <1>4

-----------------------------------------------------------------------------
(* The relay                                                               *)

\* What Redis has sent and the pump has not taken is the latest run of events.
RelayInv ==
  /\ transport = "in-process" => relay = "none"
  /\ relay # "up" => relayed = <<>>
  /\ Len(relayed) <= published
  /\ \A i \in 1..Len(relayed) : relayed[i] = published - Len(relayed) + i

LEMMA InitRelay == Init => RelayInv
  BY DEF Init, RelayInv

LEMMA StepRelay == TypeOK /\ RelayInv /\ [Next]_vars => RelayInv'
<1> SUFFICES ASSUME TypeOK, RelayInv, [Next]_vars PROVE RelayInv'
  OBVIOUS
<1>0. relayed \in Seq(Events) /\ published \in Nat /\ Len(relayed) \in Nat
  BY DEF TypeOK
<1>1. CASE Publish
  <2>1. published' = published + 1 /\ published + 1 \in Events /\ UNCHANGED <<transport, relay>>
    BY <1>0, <1>1, BoundsAssumption DEF Publish, Events
  <2>2. CASE relay = "up"
    <3>1. relayed' = Append(relayed, published + 1)
      BY <1>1, <2>2 DEF Publish, RelayInv
    <3>2. /\ Len(relayed') = Len(relayed) + 1
          /\ \A i \in 1..Len(relayed) : relayed'[i] = relayed[i]
          /\ relayed'[Len(relayed) + 1] = published + 1
      BY <1>0, <2>1, <3>1, AppendFacts
    <3>3. ASSUME NEW i \in 1..Len(relayed')
          PROVE  relayed'[i] = published' - Len(relayed') + i
      <4>1. CASE i = Len(relayed) + 1
        BY <1>0, <2>1, <3>2, <4>1
      <4>2. CASE i # Len(relayed) + 1
        <5>1. i \in 1..Len(relayed)
          BY <1>0, <3>2, <4>2
        <5> QED  BY <1>0, <2>1, <3>2, <5>1 DEF RelayInv
      <4> QED  BY <4>1, <4>2
    <3> QED  BY <1>0, <2>1, <2>2, <3>2, <3>3 DEF RelayInv
  <2>3. CASE relay # "up"
    <3>1. relayed' = <<>> /\ Len(relayed') = 0
      BY <1>1, <2>3 DEF Publish, RelayInv
    <3> QED  BY <1>0, <2>1, <2>3, <3>1 DEF RelayInv
  <2> QED  BY <2>2, <2>3
<1>2. CASE RelayDeliver
  <2>1. /\ relay = "up" /\ relayed # <<>> /\ relayed' = Tail(relayed)
        /\ UNCHANGED <<published, transport, relay>>
    BY <1>2 DEF RelayDeliver
  <2>2. /\ Len(relayed) > 0 /\ Len(relayed') = Len(relayed) - 1
        /\ \A i \in 1..Len(relayed') : relayed'[i] = relayed[i + 1]
    BY <1>0, <2>1, TailFacts
  <2>3. ASSUME NEW i \in 1..Len(relayed')
        PROVE  relayed'[i] = published' - Len(relayed') + i
    <3>1. i + 1 \in 1..Len(relayed)
      BY <1>0, <2>2
    <3>2. relayed[i + 1] = published - Len(relayed) + (i + 1)
      BY <3>1 DEF RelayInv
    <3> QED  BY <1>0, <2>1, <2>2, <3>2
  <2> QED  BY <1>0, <2>1, <2>2, <2>3 DEF RelayInv
<1>3. CASE UNCHANGED relayed /\ UNCHANGED <<published, transport>>
            /\ (UNCHANGED relay \/ RelaySubscribed \/ Accept)
  BY <1>3 DEF RelayInv, RelaySubscribed, Accept
<1>4. CASE relayed' = <<>> /\ UNCHANGED <<published, transport>>
            /\ (relay' = "none" \/ RelayDies)
  <2>1. Len(relayed') = 0
    BY <1>4
  <2> QED  BY <1>0, <1>4, <2>1 DEF RelayInv, RelayDies
<1>5. CASE \E c \in Conns : SendConnected(c) \/ Pump(c) \/ Disconnect(c)
  BY <1>3, <1>4, <1>5
     DEF SendConnected, Pump, Disconnect, Unsubscribe, broadcaster
<1>6. CASE RelaySubscribed \/ RelayDies \/ Accept
  BY <1>3, <1>4, <1>6 DEF RelaySubscribed, RelayDies, Accept
<1>7. CASE \E c \in Conns : Cut(c) \/ ServerNotices(c)
  BY <1>3, <1>7 DEF Cut, ServerNotices, broadcaster
<1>8. CASE Refuse \/ AttemptFails \/ Receive \/ PageNotices \/ Retry \/ Leave \/ TokenExpires
  BY <1>3, <1>8 DEF Refuse, AttemptFails, Receive, PageNotices, Retry, Leave, TokenExpires,
                    broadcaster
<1>9. CASE UNCHANGED vars
  BY <1>3, <1>9 DEF vars, broadcaster
<1> QED  BY <1>1, <1>2, <1>5, <1>6, <1>7, <1>8, <1>9 DEF Next

-----------------------------------------------------------------------------
(* Types                                                                   *)

LEMMA InitTypes == Init => TypeOK
<1> SUFFICES ASSUME Init PROVE TypeOK
  OBVIOUS
<1>1. <<>> \in Seq(Events) /\ Len(<<>>) = 0
  OBVIOUS
<1>2. /\ queue \in [Conns -> Seq(Events)] /\ wire \in [Conns -> Seq(Events)]
      /\ \A c \in Conns : Len(queue[c]) <= QueueSize
      /\ relayed \in Seq(Events)
  <2>1. queue = [c \in Conns |-> <<>>] /\ wire = [c \in Conns |-> <<>>] /\ relayed = <<>>
    BY DEF Init
  <2>2. \A c \in Conns : queue[c] = <<>>
    BY <2>1
  <2>3. 0 <= QueueSize
    BY BoundsAssumption
  <2> QED  BY <1>1, <2>1, <2>2, <2>3
<1>3. /\ stage \in [Conns -> {"free", "subscribed", "pumping"}]
      /\ sender \in [Conns -> {"running", "failed"}]
      /\ link \in [Conns -> {"up", "cut", "closed"}]
  BY DEF Init
<1>4. published \in 0..MaxEvents /\ base \in 0..MaxEvents /\ shown \in Seq(Events)
      /\ leaked \in 0..MaxLeaks /\ failed \in 0..MaxLeaks
  BY BoundsAssumption DEF Init
<1> QED  BY <1>2, <1>3, <1>4 DEF Init, TypeOK

\* A handler that ends leaves nothing of the wrong type behind.
LEMMA EndTypes ==
  ASSUME TypeOK, NEW c \in Conns, End(c)
  PROVE  /\ stage' \in [Conns -> {"free", "subscribed", "pumping"}]
         /\ sender' \in [Conns -> {"running", "failed"}]
         /\ queue' \in [Conns -> Seq(Events)]
         /\ \A d \in Conns : Len(queue'[d]) <= QueueSize
<1>1. <<>> \in Seq(Events) /\ Len(<<>>) = 0 /\ 0 <= QueueSize
  BY BoundsAssumption
<1>2. /\ stage' \in [Conns -> {"free", "subscribed", "pumping"}]
      /\ sender' \in [Conns -> {"running", "failed"}]
  BY DEF End, TypeOK
<1>3. queue' = [queue EXCEPT ![c] = <<>>] /\ queue \in [Conns -> Seq(Events)]
  BY DEF End, TypeOK
<1>4. ASSUME NEW d \in Conns PROVE Len(queue'[d]) <= QueueSize
  <2>1. CASE d = c
    BY <1>1, <1>3, <2>1
  <2>2. CASE d # c
    BY <1>3, <2>2 DEF TypeOK
  <2> QED  BY <2>1, <2>2
<1> QED  BY <1>1, <1>2, <1>3, <1>4

\* What a handler does.
LEMMA HandlerTypes ==
  ASSUME TypeOK, NEW c \in Conns, SendConnected(c) \/ Pump(c) \/ Disconnect(c)
  PROVE  TypeOK'
<1>0. <<>> \in Seq(Events) /\ Len(<<>>) = 0
  OBVIOUS
<1>1. CASE SendConnected(c)
  <2>1. CASE link[c] = "closed"
    BY <1>1, <2>1, EndTypes, OneMoreFacts
       DEF SendConnected, TypeOK, broadcaster, history, network, page
  <2>2. CASE link[c] # "closed"
    <3>1. stage' \in [Conns -> {"free", "subscribed", "pumping"}]
      BY <1>1, <2>2 DEF SendConnected, TypeOK
    <3> QED
      BY <1>1, <2>2, <3>1 DEF SendConnected, TypeOK, broadcaster, history, network, page
  <2> QED  BY <2>1, <2>2
<1>2. CASE Pump(c)
  <2>1. /\ queue[c] \in Seq(Events) /\ queue[c] # <<>> /\ Len(queue[c]) <= QueueSize
        /\ wire[c] \in Seq(Events)
    BY <1>2 DEF Pump, TypeOK
  <2>2. /\ Tail(queue[c]) \in Seq(Events)
        /\ Len(Tail(queue[c])) <= QueueSize
        /\ Head(queue[c]) \in Events
    BY <2>1, TailFacts, BoundsAssumption
  <2>3. Append(wire[c], Head(queue[c])) \in Seq(Events)
    BY <2>1, <2>2, AppendFacts
  <2>4. queue' = [queue EXCEPT ![c] = Tail(queue[c])]
    BY <1>2 DEF Pump
  <2>5. queue' \in [Conns -> Seq(Events)] /\ \A d \in Conns : Len(queue'[d]) <= QueueSize
    BY <2>2, <2>4 DEF TypeOK
  <2>6. /\ wire' \in [Conns -> Seq(Events)]
        /\ sender' \in [Conns -> {"running", "failed"}]
        /\ failed' \in 0..MaxLeaks
    BY <1>2, <2>3, OneMoreFacts DEF Pump, TypeOK
  <2> QED  BY <1>2, <2>5, <2>6 DEF Pump, TypeOK, broadcaster, history, page
<1>3. CASE Disconnect(c)
  <2>1. /\ stage' \in [Conns -> {"free", "subscribed", "pumping"}]
        /\ sender' \in [Conns -> {"running", "failed"}]
        /\ queue' \in [Conns -> Seq(Events)]
        /\ \A d \in Conns : Len(queue'[d]) <= QueueSize
    BY <1>3, EndTypes DEF Disconnect
  <2>2. /\ leaked' \in 0..MaxLeaks
        /\ relay' \in {"none", "starting", "up", "dead"}
        /\ relayed' \in Seq(Events)
    BY <1>0, <1>3, OneMoreFacts DEF Disconnect, Unsubscribe, TypeOK
  <2> QED  BY <1>3, <2>1, <2>2 DEF Disconnect, TypeOK, history, network, page
<1> QED  BY <1>1, <1>2, <1>3

LEMMA StepTypes == TypeOK /\ RelayInv /\ [Next]_vars => TypeOK'
<1> SUFFICES ASSUME TypeOK, RelayInv, [Next]_vars PROVE TypeOK'
  OBVIOUS
<1>0. <<>> \in Seq(Events) /\ Len(<<>>) = 0
  OBVIOUS
<1>1. CASE Publish
  <2>1. published + 1 \in Events /\ published' \in 0..MaxEvents
    BY <1>1, BoundsAssumption DEF Publish, TypeOK, Events
  <2>2. CASE transport = "in-process"
    BY <1>1, <2>1, <2>2, FanOutTypes DEF Publish, TypeOK, network, page
  <2>3. CASE transport # "in-process"
    <3>1. relayed' \in Seq(Events)
      <4>1. relayed \in Seq(Events)
        BY DEF TypeOK
      <4>2. Append(relayed, published + 1) \in Seq(Events)
        BY <2>1, <4>1, AppendFacts
      <4>3. relayed' = IF relay = "up" THEN Append(relayed, published + 1) ELSE relayed
        BY <1>1, <2>3 DEF Publish
      <4> QED  BY <4>1, <4>2, <4>3
    <3> QED  BY <1>1, <2>1, <2>3, <3>1 DEF Publish, TypeOK, network, page
  <2> QED  BY <2>2, <2>3
<1>2. CASE RelaySubscribed
  BY <1>2 DEF RelaySubscribed, TypeOK, handlers, network, page
<1>3. CASE RelayDeliver
  <2>1. Head(relayed) \in Events /\ Tail(relayed) \in Seq(Events)
    BY <1>3, TailFacts DEF RelayDeliver, TypeOK
  <2> QED  BY <1>3, <2>1, FanOutTypes DEF RelayDeliver, TypeOK, network, page
<1>4. CASE RelayDies
  <2>1. relayed' \in Seq(Events)
    BY <1>0, <1>4 DEF RelayDies
  <2> QED  BY <1>4, <2>1 DEF RelayDies, TypeOK, handlers, network, page
<1>5. CASE Accept
  <2>1. published - Len(relayed) \in 0..MaxEvents
    <3>1. published \in 0..MaxEvents /\ Len(relayed) \in Nat
      BY DEF TypeOK
    <3> QED  BY <3>1, BoundsAssumption DEF RelayInv
  <2>2. base' \in 0..MaxEvents /\ relay' \in {"none", "starting", "up", "dead"}
        /\ stage' \in [Conns -> {"free", "subscribed", "pumping"}]
    BY <1>5, <2>1 DEF Accept, TypeOK
  <2> QED  BY <1>5, <2>2 DEF Accept, TypeOK, network
<1>6. CASE Refuse
  BY <1>6 DEF Refuse, TypeOK, broadcaster, handlers, history
<1>7. CASE \E c \in Conns : SendConnected(c) \/ Pump(c) \/ Disconnect(c)
  BY <1>7, HandlerTypes
<1>8. CASE \E c \in Conns : Cut(c) \/ ServerNotices(c)
  <2>1. link' \in [Conns -> {"up", "cut", "closed"}]
    BY <1>8 DEF Cut, ServerNotices, TypeOK
  <2>2. wire' \in [Conns -> Seq(Events)]
    BY <1>0, <1>8 DEF Cut, ServerNotices, TypeOK
  <2>3. UNCHANGED <<published, broadcaster, handlers, history, page>>
    BY <1>8 DEF Cut, ServerNotices
  <2> QED  BY <2>1, <2>2, <2>3 DEF TypeOK, broadcaster, handlers, history, page
<1>9. CASE AttemptFails
  BY <1>9 DEF AttemptFails, TypeOK, broadcaster, handlers, history
<1>10. CASE Receive
  <2>1. conn \in Conns /\ wire[conn] \in Seq(Events) /\ wire[conn] # <<>>
    BY <1>10 DEF Receive, TypeOK
  <2>2. Head(wire[conn]) \in Events /\ Tail(wire[conn]) \in Seq(Events)
    BY <2>1, TailFacts
  <2>3. Head(wire[conn]) \in 0..MaxEvents
    BY <2>2, BoundsAssumption DEF Events
  <2>4. wire' \in [Conns -> Seq(Events)]
    BY <1>10, <2>2 DEF Receive, TypeOK
  <2>5. base' \in 0..MaxEvents /\ shown' \in Seq(Events)
    BY <1>10, <2>2, <2>3, AppendFacts DEF Receive, TypeOK
  <2>6. UNCHANGED <<published, broadcaster, handlers, lossy, link, sock, conn, fresh>>
    BY <1>10 DEF Receive
  <2> QED  BY <2>4, <2>5, <2>6 DEF TypeOK, broadcaster, handlers
<1>11. CASE PageNotices
  BY <1>11, ForgetTypes DEF PageNotices, TypeOK, broadcaster, handlers, network
<1>12. CASE Retry
  BY <1>12 DEF Retry, TypeOK, broadcaster, handlers, history
<1>13. CASE Leave
  <2>1. wire' \in [Conns -> Seq(Events)]
    BY <1>0, <1>13 DEF Leave, TypeOK
  <2>2. base' \in 0..MaxEvents /\ lossy' \in BOOLEAN /\ sock' = "left"
    BY <1>13, ForgetTypes DEF Leave
  <2>3. link' \in [Conns -> {"up", "cut", "closed"}]
    BY <1>13 DEF Leave, TypeOK
  <2>4. UNCHANGED <<published, broadcaster, handlers, conn, shown, fresh>>
    BY <1>13 DEF Leave
  <2> QED  BY <2>1, <2>2, <2>3, <2>4 DEF TypeOK, broadcaster, handlers
<1>14. CASE TokenExpires
  BY <1>14 DEF TokenExpires, TypeOK, broadcaster, handlers, history, network
<1>15. CASE UNCHANGED vars
  BY <1>15 DEF TypeOK, vars, broadcaster, handlers, history, network, page
<1> QED  BY <1>1, <1>2, <1>3, <1>4, <1>5, <1>6, <1>7, <1>8, <1>9, <1>10, <1>11, <1>12,
            <1>13, <1>14, <1>15 DEF Next

\* Queues stay within their maxsize and every variable within its type; for that,
\* what is on its way from Redis has to be no more than was published.
THEOREM TypeCorrect == Spec => []TypeOK
<1>1. Init => TypeOK /\ RelayInv
  BY InitTypes, InitRelay
<1>2. TypeOK /\ RelayInv /\ [Next]_vars => (TypeOK /\ RelayInv)'
  BY StepTypes, StepRelay
<1> QED  BY <1>1, <1>2, PTL DEF Spec

-----------------------------------------------------------------------------
(* Queues and their relay                                                  *)

LEMMA InitFollows == Init => RelayFollowsListeners
  BY DEF Init, RelayFollowsListeners, Listening

LEMMA StepFollows ==
  TypeOK /\ RelayFollowsListeners /\ [Next]_vars => RelayFollowsListeners'
<1> SUFFICES ASSUME TypeOK, RelayFollowsListeners, [Next]_vars
             PROVE  RelayFollowsListeners'
  OBVIOUS
<1>0. leaked \in Nat /\ conn \in Conns
  BY DEF TypeOK
<1>1. CASE UNCHANGED <<transport, relay, stage, leaked>>
  BY <1>1 DEF RelayFollowsListeners, Listening
<1>2. CASE UNCHANGED <<transport, stage, leaked>> /\ relay # "none" /\ relay' # "none"
  BY <1>2 DEF RelayFollowsListeners, Listening
<1>3. CASE Accept
  <2>1. stage'[conn] = "subscribed"
    BY <1>0, <1>3 DEF Accept, TypeOK
  <2> QED  BY <1>0, <1>3, <2>1 DEF Accept, RelayFollowsListeners, Listening
<1>4. ASSUME NEW c \in Conns, SendConnected(c) PROVE RelayFollowsListeners'
  <2>1. stage[c] = "subscribed" /\ UNCHANGED <<transport, relay>>
    BY <1>4 DEF SendConnected, broadcaster
  <2>2. CASE link[c] = "closed"
    <3>1. leaked' # 0
      BY <1>0, <1>4, <2>2, BoundsAssumption DEF SendConnected, OneMore
    <3> QED  BY <2>1, <3>1 DEF RelayFollowsListeners, Listening
  <2>3. CASE link[c] # "closed"
    <3>1. stage'[c] = "pumping"
      BY <1>4, <2>3 DEF SendConnected, TypeOK
    <3> QED  BY <2>1, <3>1 DEF RelayFollowsListeners, Listening
  <2> QED  BY <2>2, <2>3
<1>5. ASSUME NEW c \in Conns, Disconnect(c) PROVE RelayFollowsListeners'
  <2>1. /\ stage[c] = "pumping" /\ UNCHANGED transport
        /\ stage' = [stage EXCEPT ![c] = "free"]
    BY <1>5 DEF Disconnect, End
  <2>2. stage'[c] = "free" /\ \A d \in Conns \ {c} : stage'[d] = stage[d]
    BY <2>1 DEF TypeOK
  <2>3. CASE sender[c] = "failed"
    <3>1. leaked' # 0 /\ UNCHANGED relay
      BY <1>0, <1>5, <2>3, BoundsAssumption DEF Disconnect, OneMore
    <3> QED  BY <2>1, <3>1 DEF RelayFollowsListeners, Listening
  <2>4. CASE sender[c] # "failed" /\ (leaked > 0 \/ \E d \in Conns \ {c} : Listening(d))
    <3>1. UNCHANGED <<relay, leaked>>
      BY <1>5, <2>4 DEF Disconnect, Unsubscribe
    <3> QED  BY <1>0, <2>1, <2>2, <2>4, <3>1 DEF RelayFollowsListeners, Listening
  <2>5. CASE sender[c] # "failed" /\ ~(leaked > 0 \/ \E d \in Conns \ {c} : Listening(d))
    <3>1. relay' = "none" /\ UNCHANGED leaked
      BY <1>5, <2>5 DEF Disconnect, Unsubscribe
    <3> QED  BY <1>0, <2>1, <2>2, <2>5, <3>1 DEF RelayFollowsListeners, Listening
  <2> QED  BY <2>3, <2>4, <2>5
<1>6. CASE RelaySubscribed \/ RelayDies
  BY <1>2, <1>6 DEF RelaySubscribed, RelayDies, handlers
<1>7. CASE Publish \/ RelayDeliver
  BY <1>1, <1>7 DEF Publish, RelayDeliver
<1>8. CASE \E c \in Conns : Pump(c) \/ Cut(c) \/ ServerNotices(c)
  BY <1>1, <1>8 DEF Pump, Cut, ServerNotices, broadcaster, handlers
<1>9. CASE Refuse \/ AttemptFails \/ Receive \/ PageNotices \/ Retry \/ Leave \/ TokenExpires
  BY <1>1, <1>9 DEF Refuse, AttemptFails, Receive, PageNotices, Retry, Leave, TokenExpires,
                    broadcaster, handlers
<1>10. CASE UNCHANGED vars
  BY <1>1, <1>10 DEF vars, broadcaster, handlers
<1> QED  BY <1>3, <1>4, <1>5, <1>6, <1>7, <1>8, <1>9, <1>10 DEF Next

\* RedisBroadcaster: a room has its subscriber task exactly as long as _rooms
\* has a queue for it.
THEOREM RelayFollows == Spec => []RelayFollowsListeners
  BY InitFollows, StepFollows, TypeCorrect, PTL DEF Spec

-----------------------------------------------------------------------------
(* New connections                                                         *)

\* A socket that is connecting has no handler yet.
NoHandlerYet == sock = "connecting" => ~Listening(conn)

LEMMA InitNoHandler == Init => NoHandlerYet
  BY DEF Init, NoHandlerYet, Listening

LEMMA StepNoHandler == TypeOK /\ NoHandlerYet /\ [Next]_vars => NoHandlerYet'
<1> SUFFICES ASSUME TypeOK, NoHandlerYet, [Next]_vars PROVE NoHandlerYet'
  OBVIOUS
<1>1. CASE UNCHANGED <<sock, conn, stage>>
  BY <1>1 DEF NoHandlerYet, Listening
<1>2. CASE sock' # "connecting"
  BY <1>2 DEF NoHandlerYet
<1>3. ASSUME NEW c \in Conns, SendConnected(c) \/ Disconnect(c) PROVE NoHandlerYet'
  <2>1. Listening(c) /\ UNCHANGED <<sock, conn>> /\ \A d \in Conns \ {c} : stage'[d] = stage[d]
    BY <1>3 DEF SendConnected, Disconnect, End, Listening, TypeOK, page
  <2> QED  BY <2>1 DEF NoHandlerYet, Listening, TypeOK
<1>4. CASE Retry
  BY <1>4 DEF Retry, NoHandlerYet, Listening, handlers
<1>5. CASE Accept \/ Refuse \/ AttemptFails \/ PageNotices \/ Leave
  BY <1>2, <1>5 DEF Accept, Refuse, AttemptFails, PageNotices, Leave
<1>6. CASE Publish \/ RelaySubscribed \/ RelayDeliver \/ RelayDies \/ Receive \/ TokenExpires
  BY <1>1, <1>6 DEF Publish, RelaySubscribed, RelayDeliver, RelayDies, Receive, TokenExpires,
                    handlers, page
<1>7. CASE \E c \in Conns : Pump(c) \/ Cut(c) \/ ServerNotices(c)
  BY <1>1, <1>7 DEF Pump, Cut, ServerNotices, handlers, page
<1>8. CASE UNCHANGED vars
  BY <1>1, <1>8 DEF vars, handlers, page
<1> QED  BY <1>3, <1>4, <1>5, <1>6, <1>7, <1>8 DEF Next

LEMMA NoHandler == Spec => []NoHandlerYet
  BY InitNoHandler, StepNoHandler, TypeCorrect, PTL DEF Spec

-----------------------------------------------------------------------------
(* Leaked queues                                                           *)

FailedSenders == {c \in Conns : sender[c] = "failed"}

\* Every queue lost, and every sender that will lose its handler's, is a send
\* that raised.
LeakInv ==
  /\ \A c \in Conns : stage[c] # "pumping" => sender[c] = "running"
  /\ leaked + Cardinality(FailedSenders) <= failed \/ failed = MaxLeaks

LEMMA FailedFinite ==
  ASSUME TypeOK
  PROVE  IsFiniteSet(FailedSenders) /\ Cardinality(FailedSenders) \in Nat
<1>1. FailedSenders \subseteq Conns
  BY DEF FailedSenders
<1> QED  BY <1>1, ConnsAssumption, FS_Subset, FS_CardinalityType

LEMMA InitLeaks == Init => LeakInv
<1> SUFFICES ASSUME Init PROVE LeakInv
  OBVIOUS
<1>1. FailedSenders = {}
  BY DEF Init, FailedSenders
<1>2. Cardinality(FailedSenders) = 0
  BY <1>1, FS_EmptySet
<1> QED  BY <1>2 DEF Init, LeakInv

LEMMA StepLeaks == TypeOK /\ NoHandlerYet /\ LeakInv /\ [Next]_vars => LeakInv'
<1> SUFFICES ASSUME TypeOK, NoHandlerYet, LeakInv, [Next]_vars PROVE LeakInv'
  OBVIOUS
<1>0. leaked \in Nat /\ failed \in 0..MaxLeaks /\ MaxLeaks \in Nat
      /\ Cardinality(FailedSenders) \in Nat
  BY FailedFinite, BoundsAssumption DEF TypeOK
<1>1. CASE UNCHANGED <<stage, sender, leaked, failed>>
  BY <1>1 DEF LeakInv, FailedSenders
<1>2. CASE Accept
  <2>1. UNCHANGED <<sender, leaked, failed>> /\ stage' = [stage EXCEPT ![conn] = "subscribed"]
    BY <1>2 DEF Accept
  <2>2. FailedSenders' = FailedSenders
    BY <2>1 DEF FailedSenders
  <2>3. sender[conn] = "running"
    BY <1>2 DEF Accept, NoHandlerYet, Listening, LeakInv, TypeOK
  <2> QED  BY <2>1, <2>2, <2>3 DEF LeakInv, TypeOK
<1>3. ASSUME NEW c \in Conns, SendConnected(c) PROVE LeakInv'
  <2>1. stage[c] = "subscribed" /\ sender[c] = "running"
    BY <1>3 DEF SendConnected, LeakInv
  <2>2. CASE link[c] = "closed"
    <3>1. /\ sender' = [sender EXCEPT ![c] = "running"]
          /\ stage' = [stage EXCEPT ![c] = "free"]
          /\ leaked' = OneMore(leaked) /\ failed' = OneMore(failed)
      BY <1>3, <2>2 DEF SendConnected, End
    <3>2. FailedSenders' = FailedSenders
      BY <2>1, <3>1 DEF FailedSenders, TypeOK
    <3>3. \A d \in Conns : stage'[d] # "pumping" => sender'[d] = "running"
      BY <3>1 DEF LeakInv, TypeOK
    <3>4. leaked' + Cardinality(FailedSenders) <= failed' \/ failed' = MaxLeaks
      BY <1>0, <3>1 DEF OneMore, LeakInv
    <3> QED  BY <3>2, <3>3, <3>4 DEF LeakInv
  <2>3. CASE link[c] # "closed"
    <3>1. UNCHANGED <<sender, leaked, failed>> /\ stage' = [stage EXCEPT ![c] = "pumping"]
      BY <1>3, <2>3 DEF SendConnected
    <3>2. FailedSenders' = FailedSenders
      BY <3>1 DEF FailedSenders
    <3> QED  BY <3>1, <3>2 DEF LeakInv, TypeOK
  <2> QED  BY <2>2, <2>3
<1>4. ASSUME NEW c \in Conns, Pump(c) PROVE LeakInv'
  <2>1. stage[c] = "pumping" /\ sender[c] = "running" /\ UNCHANGED <<stage, leaked>>
    BY <1>4 DEF Pump
  <2>2. CASE link[c] = "closed"
    <3>1. sender' = [sender EXCEPT ![c] = "failed"] /\ failed' = OneMore(failed)
      BY <1>4, <2>2 DEF Pump
    <3>2. FailedSenders' = FailedSenders \cup {c} /\ c \notin FailedSenders
      BY <2>1, <3>1 DEF FailedSenders, TypeOK
    <3>3. Cardinality(FailedSenders') = Cardinality(FailedSenders) + 1
      BY <3>2, FailedFinite, FS_AddElement
    <3>4. leaked' + Cardinality(FailedSenders') <= failed' \/ failed' = MaxLeaks
      BY <1>0, <2>1, <3>1, <3>3 DEF OneMore, LeakInv
    <3> QED  BY <2>1, <3>1, <3>4 DEF LeakInv, TypeOK
  <2>3. CASE link[c] # "closed"
    BY <1>1, <1>4, <2>1, <2>3 DEF Pump
  <2> QED  BY <2>2, <2>3
<1>5. ASSUME NEW c \in Conns, Disconnect(c) PROVE LeakInv'
  <2>1. /\ sender' = [sender EXCEPT ![c] = "running"]
        /\ stage' = [stage EXCEPT ![c] = "free"] /\ UNCHANGED failed
    BY <1>5 DEF Disconnect, End
  <2>2. \A d \in Conns : stage'[d] # "pumping" => sender'[d] = "running"
    BY <2>1 DEF LeakInv, TypeOK
  <2>3. CASE sender[c] = "failed"
    <3>1. leaked' = OneMore(leaked)
      BY <1>5, <2>3 DEF Disconnect
    <3>2. FailedSenders' = FailedSenders \ {c} /\ c \in FailedSenders
      BY <2>1, <2>3 DEF FailedSenders, TypeOK
    <3>3. Cardinality(FailedSenders') = Cardinality(FailedSenders) - 1
      BY <3>2, FailedFinite, FS_RemoveElement
    <3>4. leaked' + Cardinality(FailedSenders') <= failed' \/ failed' = MaxLeaks
      BY <1>0, <2>1, <3>1, <3>3 DEF OneMore, LeakInv
    <3> QED  BY <2>2, <3>4 DEF LeakInv
  <2>4. CASE sender[c] # "failed"
    <3>1. UNCHANGED leaked
      BY <1>5, <2>4 DEF Disconnect
    <3>2. FailedSenders' = FailedSenders
      BY <2>1, <2>4 DEF FailedSenders, TypeOK
    <3> QED  BY <2>1, <2>2, <3>1, <3>2 DEF LeakInv
  <2> QED  BY <2>3, <2>4
<1>6. CASE Publish \/ RelaySubscribed \/ RelayDeliver \/ RelayDies
  BY <1>1, <1>6 DEF Publish, RelaySubscribed, RelayDeliver, RelayDies, handlers
<1>7. CASE \E c \in Conns : Cut(c) \/ ServerNotices(c)
  BY <1>1, <1>7 DEF Cut, ServerNotices, handlers
<1>8. CASE Refuse \/ AttemptFails \/ Receive \/ PageNotices \/ Retry \/ Leave \/ TokenExpires
  BY <1>1, <1>8 DEF Refuse, AttemptFails, Receive, PageNotices, Retry, Leave, TokenExpires,
                    handlers
<1>9. CASE UNCHANGED vars
  BY <1>1, <1>9 DEF vars, handlers
<1> QED  BY <1>2, <1>3, <1>4, <1>5, <1>6, <1>7, <1>8, <1>9 DEF Next

LEMMA LeaksFollow == TypeOK /\ LeakInv => LeaksAreFailedSends
  BY FailedFinite DEF TypeOK, LeakInv, LeaksAreFailedSends

\* A socket that comes and goes costs no queue unless a send to it raised.
THEOREM LeaksAreFailures == Spec => []LeaksAreFailedSends
<1>1. Spec => []LeakInv
  BY InitLeaks, StepLeaks, TypeCorrect, NoHandler, PTL DEF Spec
<1> QED  BY <1>1, LeaksFollow, TypeCorrect, PTL

-----------------------------------------------------------------------------
(* The feed                                                                *)

Rising(s) == \A i, j \in 1..Len(s) : i < j => s[i] < s[j]
UpTo(s, n) == \A i \in 1..Len(s) : s[i] <= n
Above(s, n) == \A i \in 1..Len(s) : s[i] > n

LEMMA Taken ==
  ASSUME NEW s \in Seq(Events), s # <<>>, Rising(s), NEW n \in Nat
  PROVE  /\ Rising(Tail(s)) /\ Above(Tail(s), Head(s))
         /\ UpTo(s, n) => Head(s) <= n /\ UpTo(Tail(s), n)
         /\ Above(s, n) => Head(s) > n /\ Above(Tail(s), n)
<1>1. /\ Tail(s) \in Seq(Events) /\ Len(s) \in Nat /\ Len(s) > 0
      /\ Len(Tail(s)) = Len(s) - 1 /\ Head(s) = s[1]
      /\ \A i \in 1..(Len(s) - 1) : Tail(s)[i] = s[i + 1]
  BY TailFacts
<1>2. \A i \in 1..Len(Tail(s)) : i + 1 \in 1..Len(s) /\ Tail(s)[i] = s[i + 1]
  BY <1>1
<1>3. Rising(Tail(s))
  BY <1>1, <1>2 DEF Rising
<1>4. Above(Tail(s), Head(s))
  BY <1>1, <1>2, EventsAreNaturals DEF Rising, Above
<1>5. UpTo(s, n) => Head(s) <= n /\ UpTo(Tail(s), n)
  BY <1>1, <1>2 DEF UpTo
<1>6. Above(s, n) => Head(s) > n /\ Above(Tail(s), n)
  BY <1>1, <1>2 DEF Above
<1> QED  BY <1>3, <1>4, <1>5, <1>6

LEMMA Added ==
  ASSUME NEW s \in Seq(Events), NEW e \in Events, Rising(s),
         \A i \in 1..Len(s) : s[i] < e, NEW n \in Nat
  PROVE  /\ Rising(Append(s, e))
         /\ UpTo(s, n) /\ e <= n => UpTo(Append(s, e), n)
         /\ Above(s, n) /\ e > n => Above(Append(s, e), n)
<1>1. /\ Len(s) \in Nat /\ Len(Append(s, e)) = Len(s) + 1
      /\ \A i \in 1..Len(s) : Append(s, e)[i] = s[i]
      /\ Append(s, e)[Len(s) + 1] = e
  BY AppendFacts
<1>2. \A i \in 1..Len(Append(s, e)) : i \in 1..Len(s) \/ i = Len(s) + 1
  BY <1>1
<1>3. ASSUME NEW i \in 1..Len(Append(s, e)), NEW j \in 1..Len(Append(s, e)), i < j
      PROVE  Append(s, e)[i] < Append(s, e)[j]
  <2>1. i \in 1..Len(s)
    BY <1>1, <1>3
  <2>2. CASE j \in 1..Len(s)
    BY <1>1, <1>3, <2>1, <2>2 DEF Rising
  <2>3. CASE j = Len(s) + 1
    BY <1>1, <2>1, <2>3
  <2> QED  BY <1>2, <2>2, <2>3
<1>4. UpTo(s, n) /\ e <= n => UpTo(Append(s, e), n)
  BY <1>1, <1>2 DEF UpTo
<1>5. Above(s, n) /\ e > n => Above(Append(s, e), n)
  BY <1>1, <1>2 DEF Above
<1> QED  BY <1>3, <1>4, <1>5 DEF Rising

\* The last event that has been fanned out, or was missed by the relay.
Position == published - Len(relayed)

\* On every connection, events are in order and none is ahead of the relay.
InOrder(c) ==
  /\ Rising(wire[c]) /\ UpTo(wire[c], Position)
  /\ Rising(queue[c]) /\ UpTo(queue[c], Position)
  /\ \A i \in 1..Len(wire[c]) : \A j \in 1..Len(queue[c]) : wire[c][i] < queue[c][j]

\* Nothing is left over for the next handler.
CleanStart(c) ==
  /\ ~Listening(c) => queue[c] = <<>> /\ wire[c] = <<>>
  /\ link[c] # "up" => wire[c] = <<>>

\* What an open socket still brings is later than what the page has seen.
FeedInv ==
  /\ LastShown <= Position
  /\ \A c \in Conns : InOrder(c) /\ CleanStart(c)
  /\ sock = "open" => Above(wire[conn], LastShown) /\ Above(queue[conn], LastShown)

LEMMA Numbers ==
  ASSUME NEW s \in Seq(Events)
  PROVE  \A i \in 1..Len(s) : s[i] \in Nat
<1>1. \A i \in 1..Len(s) : s[i] \in Events
  OBVIOUS
<1> QED  BY <1>1, EventsAreNaturals

LEMMA ShownKept == ASSUME UNCHANGED shown PROVE LastShown' = LastShown
  BY DEF LastShown

LEMMA ShownNext ==
  ASSUME TypeOK, NEW e \in Events, shown' = Append(shown, e)
  PROVE  LastShown' = e
<1>1. /\ Len(shown') = Len(shown) + 1 /\ shown'[Len(shown) + 1] = e
      /\ Len(shown) \in Nat
  BY AppendFacts DEF TypeOK
<1>2. shown' # <<>>
  BY <1>1
<1> QED  BY <1>1, <1>2 DEF LastShown

LEMMA ShownType == ASSUME TypeOK PROVE LastShown \in Nat
<1>1. CASE shown = <<>>
  BY <1>1 DEF LastShown
<1>2. CASE shown # <<>>
  <2>1. shown \in Seq(Events) /\ Len(shown) \in Nat /\ Len(shown) > 0
    BY <1>2, TailFacts DEF TypeOK
  <2>2. Len(shown) \in 1..Len(shown)
    BY <2>1
  <2> QED  BY <1>2, <2>1, <2>2, Numbers DEF LastShown
<1> QED  BY <1>1, <1>2

LEMMA PositionType ==
  ASSUME TypeOK, RelayInv
  PROVE  Position \in Nat /\ published \in Nat /\ LastShown \in Nat
<1>1. Position \in Nat /\ published \in Nat
  BY DEF TypeOK, RelayInv, Position
<1> QED  BY <1>1, ShownType

LEMMA Within ==
  ASSUME NEW s \in Seq(Events), NEW n \in Nat, NEW m \in Nat, m >= n, UpTo(s, n)
  PROVE  UpTo(s, m) /\ \A i \in 1..Len(s) : s[i] < n + 1
<1>1. ASSUME NEW i \in 1..Len(s) PROVE s[i] \in Nat /\ s[i] <= n
  <2>1. s[i] \in Events
    OBVIOUS
  <2> QED  BY <2>1, EventsAreNaturals DEF UpTo
<1> QED  BY <1>1 DEF UpTo

LEMMA Empty ==
  ASSUME NEW n
  PROVE  Len(<<>>) = 0 /\ Rising(<<>>) /\ UpTo(<<>>, n) /\ Above(<<>>, n)
<1>1. Len(<<>>) = 0 /\ 1..0 = {}
  OBVIOUS
<1> QED  BY <1>1 DEF Rising, UpTo, Above

LEMMA InitFeed == Init => FeedInv
<1> SUFFICES ASSUME Init PROVE FeedInv
  OBVIOUS
<1>1. Position = 0 /\ LastShown = 0 /\ sock = "connecting"
  <2>1. Len(relayed) = 0 /\ published = 0 /\ LastShown = 0 /\ sock = "connecting"
    BY DEF Init, LastShown
  <2> QED  BY <2>1 DEF Position
<1>2. ASSUME NEW c \in Conns PROVE InOrder(c) /\ CleanStart(c)
  <2>1. queue[c] = <<>> /\ wire[c] = <<>>
    BY DEF Init
  <2> QED  BY <2>1, Empty DEF InOrder, CleanStart
<1> QED  BY <1>1, <1>2 DEF FeedInv

\* A longer Position disturbs nothing.
LEMMA Still ==
  ASSUME TypeOK, RelayInv, TypeOK', RelayInv', FeedInv, Position' >= Position,
         NEW c \in Conns, UNCHANGED <<wire, queue>>
  PROVE  InOrder(c)'
<1>1. Position \in Nat /\ Position' \in Nat
  <2>1. relayed' \in Seq(Events) /\ published' \in Nat /\ Len(relayed') <= published'
    BY BoundsAssumption DEF TypeOK, RelayInv
  <2> QED  BY <2>1, PositionType DEF Position
<1>2. /\ wire[c] \in Seq(Events) /\ queue[c] \in Seq(Events)
  BY DEF TypeOK
<1>3. ASSUME NEW s \in Seq(Events), UpTo(s, Position) PROVE UpTo(s, Position')
  BY <1>1, <1>3, Within
<1> QED  BY <1>2, <1>3 DEF FeedInv, InOrder

LEMMA FeedStill ==
  ASSUME TypeOK, RelayInv, TypeOK', RelayInv', FeedInv, Position' >= Position,
         UNCHANGED <<wire, queue, stage, link, sock, conn, shown>>
  PROVE  FeedInv'
<1>1. LastShown' <= Position'
  <2>1. LastShown' = LastShown /\ LastShown \in Nat /\ LastShown <= Position
    BY ShownKept, ShownType DEF FeedInv
  <2>2. Position \in Nat
    BY PositionType
  <2>3. Position' \in Int
    BY DEF Position, TypeOK
  <2> QED  BY <2>1, <2>2, <2>3
<1>2. \A c \in Conns : InOrder(c)'
  BY Still
<1> QED  BY <1>1, <1>2, ShownKept DEF FeedInv, CleanStart, Listening

\* FanOut of the event next to Position.
LEMMA FeedFanOut ==
  ASSUME TypeOK, RelayInv, FeedInv, Position + 1 \in Events,
         FanOut(Position + 1), Position' = Position + 1,
         UNCHANGED <<wire, stage, link, sock, conn, shown>>
  PROVE  FeedInv'
<1>0. Position \in Nat /\ LastShown \in Nat /\ LastShown <= Position
  BY PositionType DEF FeedInv
<1>1. ASSUME NEW c \in Conns
      PROVE  /\ InOrder(c)'
             /\ CleanStart(c)'
             /\ Above(queue[c], LastShown) => Above(queue'[c], LastShown)
  <2>0. /\ queue[c] \in Seq(Events) /\ wire[c] \in Seq(Events) /\ wire'[c] = wire[c]
        /\ InOrder(c) /\ CleanStart(c)
    BY DEF TypeOK, FeedInv
  <2>1. UpTo(wire[c], Position + 1)
    BY <1>0, <2>0, Within DEF InOrder
  <2>2. CASE Listening(c) /\ Len(queue[c]) < QueueSize
    <3>1. queue'[c] = Append(queue[c], Position + 1)
      BY <2>2 DEF FanOut
    <3>2. \A i \in 1..Len(queue[c]) : queue[c][i] < Position + 1
      BY <1>0, <2>0, Within DEF InOrder
    <3>3. UpTo(queue[c], Position + 1)
      BY <1>0, <2>0, Within DEF InOrder
    <3>4. /\ Rising(queue'[c]) /\ UpTo(queue'[c], Position + 1)
          /\ Above(queue[c], LastShown) => Above(queue'[c], LastShown)
      <4>1. Rising(queue[c])
        BY <2>0 DEF InOrder
      <4>2. Rising(queue'[c]) /\ UpTo(queue'[c], Position + 1)
        BY <1>0, <2>0, <3>1, <3>2, <3>3, <4>1, Added
      <4>3. LastShown < Position + 1
        BY <1>0
      <4>4. Above(queue[c], LastShown) => Above(queue'[c], LastShown)
        BY <1>0, <2>0, <3>1, <3>2, <4>1, <4>3, Added
      <4> QED  BY <4>2, <4>4
    <3>5. \A i \in 1..Len(wire[c]) : \A j \in 1..Len(queue'[c]) : wire[c][i] < queue'[c][j]
      <4>1. \A j \in 1..Len(queue'[c]) : \/ j \in 1..Len(queue[c]) /\ queue'[c][j] = queue[c][j]
                                       \/ queue'[c][j] = Position + 1
        BY <2>0, <3>1, AppendFacts
      <4>2. \A i \in 1..Len(wire[c]) : wire[c][i] < Position + 1
        BY <1>0, <2>0, Within DEF InOrder
      <4> QED  BY <2>0, <4>1, <4>2 DEF InOrder
    <3>6. InOrder(c)'
      BY <2>0, <2>1, <3>4, <3>5 DEF InOrder
    <3>7. CleanStart(c)'
      BY <2>0, <2>2 DEF CleanStart, Listening
    <3> QED  BY <3>4, <3>6, <3>7
  <2>3. CASE ~(Listening(c) /\ Len(queue[c]) < QueueSize)
    <3>1. queue'[c] = queue[c]
      BY <2>3 DEF FanOut
    <3>2. UpTo(queue[c], Position + 1)
      BY <1>0, <2>0, Within DEF InOrder
    <3> QED  BY <2>0, <2>1, <3>1, <3>2 DEF InOrder, CleanStart, Listening
  <2> QED  BY <2>2, <2>3
<1>2. LastShown' <= Position'
  BY <1>0, ShownKept
<1> QED  BY <1>1, <1>2, ShownKept DEF FeedInv, TypeOK

\* A handler that ends has nothing on its wire.
LEMMA FeedEnd ==
  ASSUME TypeOK, RelayInv, TypeOK', RelayInv', FeedInv, Position' >= Position,
         NEW c \in Conns, link[c] = "closed", End(c),
         UNCHANGED <<wire, link, sock, conn, shown>>
  PROVE  FeedInv'
<1>1. wire[c] = <<>> /\ queue'[c] = <<>> /\ \A d \in Conns \ {c} : queue'[d] = queue[d]
                                                                 /\ stage'[d] = stage[d]
  BY DEF FeedInv, CleanStart, End, TypeOK
<1>2. ASSUME NEW d \in Conns PROVE InOrder(d)' /\ CleanStart(d)'
  <2>1. CASE d = c
    BY <1>1, <2>1, Empty DEF InOrder, CleanStart
  <2>2. CASE d # c
    <3>1. queue'[d] = queue[d] /\ stage'[d] = stage[d] /\ wire'[d] = wire[d] /\ link'[d] = link[d]
      BY <1>1, <2>2
    <3>2. CleanStart(d)'
      BY <3>1 DEF FeedInv, CleanStart, Listening
    <3>3. UpTo(wire[d], Position') /\ UpTo(queue[d], Position')
      <4>1. Position' \in Nat
        <5>1. relayed' \in Seq(Events) /\ published' \in Nat /\ Len(relayed') <= published'
          BY BoundsAssumption DEF TypeOK, RelayInv
        <5> QED  BY <5>1 DEF Position
      <4>2. /\ wire[d] \in Seq(Events) /\ queue[d] \in Seq(Events)
            /\ UpTo(wire[d], Position) /\ UpTo(queue[d], Position)
        BY DEF TypeOK, FeedInv, InOrder
      <4> QED  BY <4>1, <4>2, PositionType, Within
    <3> QED  BY <3>1, <3>2, <3>3 DEF FeedInv, InOrder
  <2> QED  BY <2>1, <2>2
<1>3. LastShown' <= Position'
  <2>1. LastShown \in Nat /\ Position \in Nat /\ LastShown <= Position
    BY PositionType DEF FeedInv
  <2>2. Position' \in Int
    BY DEF TypeOK, Position
  <2> QED  BY <2>1, <2>2, ShownKept
<1>4. sock' = "open" => Above(wire'[conn'], LastShown') /\ Above(queue'[conn'], LastShown')
  <2>1. LastShown' = LastShown /\ conn' = conn /\ sock' = sock /\ wire' = wire /\ conn \in Conns
    BY ShownKept DEF TypeOK
  <2>2. CASE conn = c
    BY <1>1, <2>1, <2>2, Empty DEF FeedInv
  <2>3. CASE conn # c
    BY <1>1, <2>1, <2>3 DEF FeedInv
  <2> QED  BY <2>2, <2>3
<1> QED  BY <1>2, <1>3, <1>4 DEF FeedInv

LEMMA FeedPump ==
  ASSUME TypeOK, RelayInv, FeedInv, NEW c \in Conns, Pump(c)
  PROVE  FeedInv'
<1>0. /\ queue[c] \in Seq(Events) /\ queue[c] # <<>> /\ wire[c] \in Seq(Events)
      /\ stage[c] = "pumping" /\ queue' = [queue EXCEPT ![c] = Tail(queue[c])]
      /\ UNCHANGED <<published, relayed, stage, link, sock, conn, shown>>
  BY DEF Pump, TypeOK, broadcaster, page
<1>1. Position' = Position /\ Position \in Nat /\ LastShown \in Nat
  BY <1>0, PositionType DEF Position
<1>2. /\ InOrder(c) /\ CleanStart(c) /\ Head(queue[c]) \in Events /\ Tail(queue[c]) \in Seq(Events)
      /\ Head(queue[c]) = queue[c][1] /\ Len(queue[c]) > 0
  BY <1>0, TailFacts DEF FeedInv
<1>3. /\ Rising(Tail(queue[c])) /\ Above(Tail(queue[c]), Head(queue[c]))
      /\ Head(queue[c]) <= Position /\ UpTo(Tail(queue[c]), Position)
      /\ Above(queue[c], LastShown) => Head(queue[c]) > LastShown /\ Above(Tail(queue[c]), LastShown)
  BY <1>0, <1>1, <1>2, Taken DEF InOrder
<1>4. \A i \in 1..Len(wire[c]) : wire[c][i] < Head(queue[c])
  BY <1>2 DEF InOrder
<1>5. \A i \in 1..Len(wire[c]) : \A j \in 1..Len(Tail(queue[c])) : wire[c][i] < Tail(queue[c])[j]
  <2>1. \A i \in 1..Len(wire[c]) : wire[c][i] \in Nat
    BY <1>0, Numbers
  <2>2. \A j \in 1..Len(Tail(queue[c])) : Tail(queue[c])[j] \in Nat
    BY <1>2, Numbers
  <2>3. Head(queue[c]) \in Nat
    BY <1>2, EventsAreNaturals
  <2>4. \A j \in 1..Len(Tail(queue[c])) : Head(queue[c]) < Tail(queue[c])[j]
    BY <1>3, <2>2, <2>3 DEF Above
  <2>5. ASSUME NEW i \in 1..Len(wire[c]), NEW j \in 1..Len(Tail(queue[c]))
        PROVE  wire[c][i] < Tail(queue[c])[j]
    <3>1. wire[c][i] < Head(queue[c]) /\ Head(queue[c]) < Tail(queue[c])[j]
      BY <1>4, <2>4
    <3>2. wire[c][i] \in Nat /\ Tail(queue[c])[j] \in Nat
      BY <2>1, <2>2
    <3> QED  BY <2>3, <3>1, <3>2
  <2> QED  BY <2>5
<1>6. /\ InOrder(c)' /\ CleanStart(c)'
      /\ Above(queue[c], LastShown) /\ Above(wire[c], LastShown)
           => Above(queue'[c], LastShown) /\ Above(wire'[c], LastShown)
  <2>1. queue'[c] = Tail(queue[c])
    BY <1>0 DEF TypeOK
  <2>2. CASE UNCHANGED wire
    BY <1>0, <1>1, <1>2, <1>3, <1>5, <2>1, <2>2 DEF InOrder, CleanStart, Listening
  <2>3. CASE link[c] = "up" /\ wire' = [wire EXCEPT ![c] = Append(@, Head(queue[c]))]
    <3>1. wire'[c] = Append(wire[c], Head(queue[c]))
      BY <2>3 DEF TypeOK
    <3>2. /\ Rising(wire'[c]) /\ UpTo(wire'[c], Position)
          /\ Above(wire[c], LastShown) /\ Head(queue[c]) > LastShown => Above(wire'[c], LastShown)
      BY <1>0, <1>1, <1>2, <1>3, <1>4, <3>1, Added DEF InOrder
    <3>3. \A i \in 1..Len(wire'[c]) : \/ i \in 1..Len(wire[c]) /\ wire'[c][i] = wire[c][i]
                                     \/ wire'[c][i] = Head(queue[c])
      BY <1>0, <1>2, <3>1, AppendFacts
    <3>4. \A i \in 1..Len(wire'[c]) : \A j \in 1..Len(queue'[c]) : wire'[c][i] < queue'[c][j]
      <4>1. \A j \in 1..Len(Tail(queue[c])) : /\ Tail(queue[c])[j] \in Nat
                                             /\ Tail(queue[c])[j] > Head(queue[c])
        BY <1>2, <1>3, Numbers DEF Above
      <4>2. Head(queue[c]) \in Nat
        BY <1>2, EventsAreNaturals
      <4>3. \A j \in 1..Len(Tail(queue[c])) : Head(queue[c]) < Tail(queue[c])[j]
        BY <4>1, <4>2
      <4> QED  BY <1>5, <2>1, <3>3, <4>3
    <3>5. InOrder(c)'
      BY <1>1, <1>3, <2>1, <3>2, <3>4 DEF InOrder
    <3> QED  BY <1>0, <1>3, <2>1, <2>3, <3>2, <3>5 DEF CleanStart, Listening
  <2> QED  BY <2>2, <2>3 DEF Pump
<1>7. ASSUME NEW d \in Conns, d # c
      PROVE  InOrder(d)' /\ CleanStart(d)' /\ queue'[d] = queue[d] /\ wire'[d] = wire[d]
  <2>1. queue'[d] = queue[d] /\ wire'[d] = wire[d]
    BY <1>0, <1>7 DEF Pump, TypeOK
  <2> QED  BY <1>0, <1>1, <2>1 DEF FeedInv, InOrder, CleanStart, Listening
<1>8. ASSUME sock' = "open" PROVE Above(wire'[conn'], LastShown') /\ Above(queue'[conn'], LastShown')
  <2>1. conn \in Conns /\ Above(wire[conn], LastShown) /\ Above(queue[conn], LastShown)
    BY <1>0, <1>8 DEF FeedInv, TypeOK
  <2>2. CASE conn = c
    BY <1>0, <1>6, <2>1, <2>2, ShownKept
  <2>3. CASE conn # c
    BY <1>0, <1>7, <2>1, <2>3, ShownKept
  <2> QED  BY <2>2, <2>3
<1> QED  BY <1>0, <1>1, <1>6, <1>7, <1>8, ShownKept DEF FeedInv

LEMMA StepFeedInv ==
  TypeOK /\ RelayInv /\ NoHandlerYet /\ FeedInv /\ [Next]_vars => FeedInv'
<1> SUFFICES ASSUME TypeOK, RelayInv, NoHandlerYet, FeedInv, [Next]_vars PROVE FeedInv'
  OBVIOUS
<1>0. TypeOK' /\ RelayInv' /\ Position \in Nat /\ conn \in Conns
  BY StepTypes, StepRelay, PositionType DEF TypeOK
<1>1. CASE UNCHANGED <<published, relayed, wire, queue, stage, link, sock, conn, shown>>
  BY <1>0, <1>1, FeedStill DEF Position
<1>2. CASE Publish
  <2>0. relayed \in Seq(Events) /\ published \in Nat /\ published' = published + 1
    BY <1>2, BoundsAssumption DEF Publish, TypeOK
  <2>1. CASE transport = "in-process"
    <3>1. relayed = <<>> /\ UNCHANGED relayed /\ Len(relayed) = 0
      BY <1>2, <2>1 DEF Publish, RelayInv
    <3>2. Position + 1 = published + 1 /\ Position' = Position + 1 /\ Position + 1 \in Events
      BY <1>2, <2>0, <3>1, BoundsAssumption DEF Publish, Position, Events
    <3> QED  BY <1>2, <2>1, <3>2, FeedFanOut DEF Publish, network, page
  <2>2. CASE transport # "in-process"
    <3>1. Position' >= Position
      <4>1. CASE relay = "up"
        <5>1. relayed' = Append(relayed, published + 1) /\ published + 1 \in Events
          BY <1>2, <2>0, <2>2, <4>1, BoundsAssumption DEF Publish, Events
        <5>2. Len(relayed') = Len(relayed) + 1
          BY <2>0, <5>1, AppendFacts
        <5> QED  BY <1>0, <2>0, <5>2 DEF Position
      <4>2. CASE relay # "up"
        <5>1. relayed' = relayed
          BY <1>2, <2>2, <4>2 DEF Publish
        <5> QED  BY <2>0, <5>1 DEF Position
      <4> QED  BY <4>1, <4>2
    <3> QED  BY <1>0, <1>2, <2>2, <3>1, FeedStill DEF Publish, network, page
  <2> QED  BY <2>1, <2>2
<1>3. CASE RelayDeliver
  <2>0. relayed \in Seq(Events) /\ published \in Nat /\ relayed # <<>>
    BY <1>3 DEF RelayDeliver, TypeOK
  <2>1. /\ Head(relayed) = relayed[1] /\ Len(relayed) > 0 /\ Head(relayed) \in Events
        /\ Len(Tail(relayed)) = Len(relayed) - 1
    BY <2>0, TailFacts
  <2>2. relayed[1] = Position + 1
    BY <2>0, <2>1 DEF RelayInv, Position
  <2>3. Position' = Position + 1
    BY <1>3, <2>0, <2>1 DEF RelayDeliver, Position
  <2> QED  BY <1>3, <2>1, <2>2, <2>3, FeedFanOut DEF RelayDeliver, network, page
<1>4. CASE RelayDies
  <2>1. Position' >= Position
    <3>1. Len(relayed') = 0 /\ published' = published /\ relayed \in Seq(Events) /\ published \in Nat
      BY <1>4 DEF RelayDies, TypeOK
    <3> QED  BY <3>1 DEF Position
  <2> QED  BY <1>0, <1>4, <2>1, FeedStill DEF RelayDies, handlers, network, page
<1>5. CASE Accept
  <2>1. /\ wire[conn] = <<>> /\ queue[conn] = <<>>
        /\ UNCHANGED <<published, relayed, wire, queue, link, conn, shown>>
        /\ stage' = [stage EXCEPT ![conn] = "subscribed"]
    BY <1>0, <1>5 DEF Accept, NoHandlerYet, FeedInv, CleanStart, network
  <2>2. ASSUME NEW c \in Conns PROVE InOrder(c)' /\ CleanStart(c)'
    <3>1. ~Listening(c)' => ~Listening(c)
      BY <2>1 DEF Listening, TypeOK
    <3> QED  BY <2>1, <3>1 DEF FeedInv, InOrder, CleanStart, Position
  <2>3. Above(wire'[conn'], LastShown') /\ Above(queue'[conn'], LastShown')
    BY <2>1, Empty
  <2> QED  BY <2>1, <2>2, <2>3, ShownKept DEF FeedInv, Position
<1>6. ASSUME NEW c \in Conns, SendConnected(c) PROVE FeedInv'
  <2>1. UNCHANGED <<published, relayed, wire, link, sock, conn, shown>>
    BY <1>6 DEF SendConnected, broadcaster, network, page
  <2>2. CASE link[c] = "closed"
    <3>1. End(c)
      BY <1>6, <2>2 DEF SendConnected
    <3>2. Position' >= Position
      BY <1>0, <2>1 DEF Position
    <3> QED  BY <1>0, <2>1, <2>2, <3>1, <3>2, FeedEnd
  <2>3. CASE link[c] # "closed"
    <3>1. UNCHANGED queue /\ \A d \in Conns : ~Listening(d)' => ~Listening(d)
      BY <1>6, <2>3 DEF SendConnected, Listening, TypeOK
    <3> QED  BY <2>1, <3>1, ShownKept DEF FeedInv, InOrder, CleanStart, Position
  <2> QED  BY <2>2, <2>3
<1>7. ASSUME NEW c \in Conns, Disconnect(c) PROVE FeedInv'
  <2>1. /\ UNCHANGED <<published, wire, link, sock, conn, shown>>
        /\ link[c] = "closed" /\ End(c)
    BY <1>7 DEF Disconnect, network, page
  <2>2. relayed' = relayed \/ relayed' = <<>>
    BY <1>7 DEF Disconnect, Unsubscribe
  <2>3. Position' >= Position
    <3>1. relayed \in Seq(Events) /\ published \in Nat /\ Len(<<>>) = 0
      BY DEF TypeOK
    <3>2. Len(relayed') <= Len(relayed)
      BY <2>2, <3>1
    <3> QED  BY <2>1, <2>2, <3>1, <3>2 DEF Position
  <2> QED  BY <1>0, <2>1, <2>3, FeedEnd
<1>8. ASSUME NEW c \in Conns, Cut(c) PROVE FeedInv'
  <2>1. /\ UNCHANGED <<published, relayed, queue, stage, sock, conn, shown>>
        /\ wire' = [wire EXCEPT ![c] = <<>>] /\ link' = [link EXCEPT ![c] = "cut"]
    BY <1>8 DEF Cut, broadcaster, handlers, page
  <2>2. wire'[c] = <<>> /\ \A d \in Conns \ {c} : wire'[d] = wire[d] /\ link'[d] = link[d]
    BY <2>1 DEF TypeOK
  <2>3. ASSUME NEW d \in Conns PROVE InOrder(d)' /\ CleanStart(d)'
    <3>1. CASE d = c
      BY <2>1, <2>2, <3>1, Empty DEF FeedInv, InOrder, CleanStart, Listening, Position
    <3>2. CASE d # c
      BY <2>1, <2>2, <3>2 DEF FeedInv, InOrder, CleanStart, Listening, Position
    <3> QED  BY <3>1, <3>2
  <2>4. sock' = "open" => Above(wire'[conn'], LastShown') /\ Above(queue'[conn'], LastShown')
    BY <1>0, <2>1, <2>2, Empty, ShownKept DEF FeedInv
  <2> QED  BY <2>1, <2>3, <2>4, ShownKept DEF FeedInv, Position
<1>9. ASSUME NEW c \in Conns, ServerNotices(c) PROVE FeedInv'
  <2>1. /\ UNCHANGED <<published, relayed, wire, queue, stage, sock, conn, shown>>
        /\ \A d \in Conns : link'[d] # "up" => link[d] # "up"
    BY <1>9 DEF ServerNotices, broadcaster, handlers, page, TypeOK
  <2> QED  BY <2>1, ShownKept DEF FeedInv, InOrder, CleanStart, Listening, Position
<1>10. CASE Refuse \/ AttemptFails
  <2>1. /\ UNCHANGED <<published, relayed, wire, queue, stage, conn, shown>>
        /\ sock' = "waiting" /\ wire[conn] = <<>>
        /\ \A d \in Conns \ {conn} : link'[d] = link[d]
    BY <1>0, <1>10 DEF Refuse, AttemptFails, NoHandlerYet, FeedInv, CleanStart, TypeOK,
                       broadcaster, handlers
  <2> QED  BY <2>1, ShownKept DEF FeedInv, InOrder, CleanStart, Listening, Position
<1>11. CASE Receive
  <2>0. /\ UNCHANGED <<published, relayed, queue, stage, link, sock, conn>>
        /\ sock = "open" /\ wire[conn] \in Seq(Events) /\ wire[conn] # <<>>
        /\ wire' = [wire EXCEPT ![conn] = Tail(wire[conn])]
        /\ shown' = Append(shown, Head(wire[conn]))
    BY <1>11 DEF Receive, TypeOK, broadcaster, handlers
  <2>8. LastShown' = Head(wire[conn])
    BY <2>0, TailFacts, ShownNext
  <2>1. InOrder(conn) /\ CleanStart(conn) /\ queue[conn] \in Seq(Events)
    BY <1>0 DEF FeedInv, TypeOK
  <2>2. /\ Rising(Tail(wire[conn])) /\ Above(Tail(wire[conn]), Head(wire[conn]))
        /\ Head(wire[conn]) <= Position /\ UpTo(Tail(wire[conn]), Position)
    BY <1>0, <2>0, <2>1, Taken DEF InOrder
  <2>3. /\ Len(Tail(wire[conn])) = Len(wire[conn]) - 1 /\ Len(wire[conn]) > 0
        /\ Len(wire[conn]) \in Nat /\ Head(wire[conn]) = wire[conn][1]
        /\ \A i \in 1..(Len(wire[conn]) - 1) : Tail(wire[conn])[i] = wire[conn][i + 1]
    BY <2>0, TailFacts
  <2>4. Above(queue[conn], Head(wire[conn]))
    <3>1. \A j \in 1..Len(queue[conn]) : /\ wire[conn][1] < queue[conn][j]
                                        /\ queue[conn][j] \in Nat /\ wire[conn][1] \in Nat
      BY <2>0, <2>1, <2>3, Numbers DEF InOrder
    <3> QED  BY <2>3, <3>1 DEF Above
  <2>5. wire'[conn] = Tail(wire[conn]) /\ \A d \in Conns \ {conn} : wire'[d] = wire[d]
    BY <2>0 DEF TypeOK
  <2>6. \A i \in 1..Len(Tail(wire[conn])) : \A j \in 1..Len(queue[conn]) :
          Tail(wire[conn])[i] < queue[conn][j]
    <3>1. \A i \in 1..Len(Tail(wire[conn])) : i + 1 \in 1..Len(wire[conn])
      BY <2>3
    <3> QED  BY <2>1, <2>3, <3>1 DEF InOrder
  <2>7. ASSUME NEW d \in Conns PROVE InOrder(d)' /\ CleanStart(d)'
    <3>1. CASE d = conn
      <4>1. link[conn] = "up" /\ Listening(conn)
        BY <2>0, <2>1 DEF CleanStart
      <4> QED  BY <2>0, <2>1, <2>2, <2>5, <2>6, <3>1, <4>1
                  DEF InOrder, CleanStart, Listening, Position
    <3>2. CASE d # conn
      BY <2>0, <2>5, <3>2 DEF FeedInv, InOrder, CleanStart, Listening, Position
    <3> QED  BY <3>1, <3>2
  <2> QED  BY <2>0, <2>2, <2>4, <2>5, <2>7, <2>8 DEF FeedInv, Position
<1>12. CASE PageNotices
  BY <1>12, ShownKept DEF PageNotices, FeedInv, InOrder, CleanStart, Listening, Position,
               broadcaster, handlers, network
<1>13. CASE Retry
  <2>1. /\ UNCHANGED <<published, relayed, wire, queue, stage, shown>> /\ sock' = "connecting"
        /\ \A d \in Conns : link'[d] # "up" => link[d] # "up"
    BY <1>13 DEF Retry, broadcaster, handlers, TypeOK
  <2> QED  BY <2>1, ShownKept DEF FeedInv, InOrder, CleanStart, Listening, Position
<1>14. CASE Leave
  <2>1. /\ UNCHANGED <<published, relayed, queue, stage, conn, shown>> /\ sock' = "left"
        /\ wire' = [wire EXCEPT ![conn] = <<>>]
        /\ \A d \in Conns \ {conn} : link'[d] = link[d]
    BY <1>14 DEF Leave, broadcaster, handlers, TypeOK
  <2>2. wire'[conn] = <<>> /\ \A d \in Conns \ {conn} : wire'[d] = wire[d]
    BY <1>0, <2>1 DEF TypeOK
  <2>3. ASSUME NEW d \in Conns PROVE InOrder(d)' /\ CleanStart(d)'
    <3>1. CASE d = conn
      BY <2>1, <2>2, <3>1, Empty DEF FeedInv, InOrder, CleanStart, Listening, Position
    <3>2. CASE d # conn
      BY <2>1, <2>2, <3>2 DEF FeedInv, InOrder, CleanStart, Listening, Position
    <3> QED  BY <3>1, <3>2
  <2> QED  BY <2>1, <2>3, ShownKept DEF FeedInv, Position
<1>15. CASE RelaySubscribed \/ TokenExpires
  BY <1>1, <1>15 DEF RelaySubscribed, TokenExpires, broadcaster, handlers, network, page
<1>16. CASE UNCHANGED vars
  BY <1>1, <1>16 DEF vars, broadcaster, handlers, network, page
<1>17. \A c \in Conns : Pump(c) => FeedInv'
  BY FeedPump
<1> QED  BY <1>2, <1>3, <1>4, <1>5, <1>6, <1>7, <1>8, <1>9, <1>10, <1>11, <1>12, <1>13,
            <1>14, <1>15, <1>16, <1>17 DEF Next

LEMMA InitRefines == Init => Feed!Init
  BY DEF Init, Feed!Init

LEMMA StepRefines ==
  TypeOK /\ RelayInv /\ FeedInv /\ [Next]_vars => [Feed!Next]_Feed!vars
<1> SUFFICES ASSUME TypeOK, RelayInv, FeedInv, [Next]_vars PROVE [Feed!Next]_Feed!vars
  OBVIOUS
<1>1. CASE UNCHANGED <<published, shown>> /\ sock # "left" /\ sock' # "left"
  BY <1>1 DEF Feed!vars
<1>2. CASE UNCHANGED <<published, shown, sock>>
  BY <1>2 DEF Feed!vars
<1>3. CASE Publish
  BY <1>3 DEF Publish, Feed!Next, Feed!Publish, page
<1>4. CASE Receive
  <2>1. /\ UNCHANGED <<published, sock>> /\ sock = "open"
        /\ shown' = Append(shown, Head(wire[conn])) /\ wire[conn] \in Seq(Events) /\ wire[conn] # <<>> /\ relayed \in Seq(Events)
        /\ published \in Nat
    BY <1>4 DEF Receive, TypeOK
  <2>2. Rising(wire[conn]) /\ UpTo(wire[conn], Position) /\ Above(wire[conn], LastShown)
    BY <2>1 DEF FeedInv, InOrder, TypeOK
  <2>3. Head(wire[conn]) \in Events
    BY <2>1, TailFacts
  <2>4. Head(wire[conn]) \in Nat /\ Head(wire[conn]) <= Position /\ Head(wire[conn]) > LastShown
    BY <2>1, <2>2, <2>3, EventsAreNaturals, PositionType, Taken
  <2>5. Position <= published
    BY <2>1 DEF Position
  <2>6. Head(wire[conn]) \in (LastShown + 1)..published
    BY <2>1, <2>4, <2>5, PositionType
  <2>7. LastShown = Feed!Latest
    BY DEF LastShown, Feed!Latest
  <2> QED  BY <2>1, <2>6, <2>7 DEF Feed!Next, Feed!Show
<1>5. CASE Leave
  BY <1>5 DEF Leave, Feed!Next, Feed!Leave
<1>6. CASE Accept \/ Refuse \/ AttemptFails \/ PageNotices \/ Retry
  BY <1>1, <1>6 DEF Accept, Refuse, AttemptFails, PageNotices, Retry
<1>7. CASE RelaySubscribed \/ RelayDeliver \/ RelayDies \/ TokenExpires
  BY <1>2, <1>7 DEF RelaySubscribed, RelayDeliver, RelayDies, TokenExpires, page
<1>8. CASE \E c \in Conns : SendConnected(c) \/ Pump(c) \/ Disconnect(c) \/ Cut(c)
                             \/ ServerNotices(c)
  BY <1>2, <1>8 DEF SendConnected, Pump, Disconnect, Cut, ServerNotices, page
<1>9. CASE UNCHANGED vars
  BY <1>2, <1>9 DEF vars, page
<1> QED  BY <1>3, <1>4, <1>5, <1>6, <1>7, <1>8, <1>9 DEF Next

\* What reaches the page refines the feed: in the order published, nothing
\* twice, nothing after it has left, across every reconnection.
THEOREM ImplementsFeed == Spec => FeedSpec
<1>1. Init => TypeOK /\ RelayInv /\ NoHandlerYet /\ FeedInv
  BY InitTypes, InitRelay, InitNoHandler, InitFeed
<1>2. TypeOK /\ RelayInv /\ NoHandlerYet /\ FeedInv /\ [Next]_vars
        => (TypeOK /\ RelayInv /\ NoHandlerYet /\ FeedInv)'
  BY StepTypes, StepRelay, StepNoHandler, StepFeedInv
<1> QED  BY <1>1, <1>2, InitRefines, StepRefines, PTL DEF Spec, FeedSpec, Feed!Spec

-----------------------------------------------------------------------------
(* No holes                                                                *)

\* What is on the open socket's wire, then in its queue, are the events after
\* base, up to where the relay is.
Gapless ==
  /\ \A i \in 1..Len(wire[conn]) : wire[conn][i] = base + i
  /\ \A i \in 1..Len(queue[conn]) : queue[conn][i] = base + Len(wire[conn]) + i
  /\ base + Len(wire[conn]) + Len(queue[conn]) = Position

\* Until Redis has confirmed the subscription, nothing is on its way.
GaplessInv ==
  sock = "open" /\ link[conn] = "up" =>
    /\ Listening(conn)
    /\ ~lossy /\ Carried => Gapless
    /\ ~lossy /\ relay = "starting" => wire[conn] = <<>> /\ queue[conn] = <<>>

LEMMA InitGapless == Init => GaplessInv
  BY DEF Init, GaplessInv

LEMMA GaplessTypes ==
  ASSUME TypeOK
  PROVE  /\ conn \in Conns /\ queue[conn] \in Seq(Events) /\ wire[conn] \in Seq(Events)
         /\ Len(queue[conn]) \in Nat /\ Len(wire[conn]) \in Nat
         /\ relayed \in Seq(Events) /\ Len(relayed) \in Nat
         /\ published \in Nat /\ base \in Nat
  BY BoundsAssumption DEF TypeOK

LEMMA GaplessNumbers ==
  ASSUME TypeOK
  PROVE  Len(queue[conn]) \in Nat /\ Len(wire[conn]) \in Nat /\ base \in Nat
  BY GaplessTypes

\* Nothing that the invariant speaks of has changed for the open socket.
LEMMA GaplessStill ==
  ASSUME GaplessInv, UNCHANGED <<conn, base, lossy, transport>>, Position' = Position,
         relay' = relay,
         sock' = "open" /\ link'[conn] = "up" =>
           /\ sock = "open" /\ link[conn] = "up"
           /\ wire'[conn] = wire[conn] /\ queue'[conn] = queue[conn]
           /\ Listening(conn) => Listening(conn)'
  PROVE  GaplessInv'
<1> SUFFICES ASSUME sock' = "open", link'[conn] = "up"
             PROVE  /\ Listening(conn)'
                    /\ ~lossy /\ Carried => Gapless'
                    /\ ~lossy /\ relay = "starting" => wire[conn] = <<>> /\ queue[conn] = <<>>
  BY DEF GaplessInv, Carried
<1>1. Gapless => Gapless'
  BY DEF Gapless
<1> QED  BY <1>1 DEF GaplessInv

\* The next event is fanned out: it is appended, or the socket is known to have
\* lost it.
LEMMA GaplessFanOut ==
  ASSUME TypeOK, RelayInv, GaplessInv, Position + 1 \in Events,
         FanOut(Position + 1), Position' = Position + 1, relay # "starting",
         UNCHANGED <<wire, stage, link, sock, conn, base, transport, relay>>
  PROVE  GaplessInv'
<1> SUFFICES ASSUME sock = "open", link[conn] = "up"
             PROVE  /\ Listening(conn)'
                    /\ ~lossy' /\ Carried => Gapless'
  BY DEF GaplessInv, Carried
<1>1. Listening(conn) /\ Listening(conn)'
  BY DEF GaplessInv, Listening
<1>2. ASSUME ~lossy', Carried PROVE Gapless'
  <2>1. ~lossy /\ ~(Len(queue[conn]) >= QueueSize)
    BY <1>2 DEF FanOut
  <2>2. Len(queue[conn]) < QueueSize
    BY <2>1, GaplessTypes, BoundsAssumption
  <2>3. queue'[conn] = Append(queue[conn], Position + 1)
    BY <1>1, <2>2, GaplessTypes DEF FanOut
  <2>4. /\ Len(queue'[conn]) = Len(queue[conn]) + 1
        /\ \A i \in 1..Len(queue[conn]) : queue'[conn][i] = queue[conn][i]
        /\ queue'[conn][Len(queue[conn]) + 1] = Position + 1
    BY <2>3, GaplessTypes, AppendFacts
  <2>5. Gapless
    BY <1>2, <2>1 DEF GaplessInv
  <2>6. Position \in Nat /\ base + Len(wire[conn]) + Len(queue[conn]) = Position
    BY <2>5, PositionType DEF Gapless
  <2>7. base + Len(wire[conn]) + (Len(queue[conn]) + 1) = Position + 1
    BY <2>6, GaplessNumbers
  <2>8. ASSUME NEW i \in 1..(Len(queue[conn]) + 1)
        PROVE  queue'[conn][i] = base + Len(wire[conn]) + i
    <3>1. CASE i = Len(queue[conn]) + 1
      <4>1. queue'[conn][i] = Position + 1
        BY <2>4, <3>1
      <4> QED  BY <2>7, <3>1, <4>1
    <3>2. CASE i # Len(queue[conn]) + 1
      <4>1. i \in 1..Len(queue[conn])
        BY <3>2, GaplessTypes
      <4> QED  BY <2>4, <2>5, <4>1 DEF Gapless
    <3> QED  BY <3>1, <3>2
  <2> QED  BY <2>4, <2>5, <2>7, <2>8 DEF Gapless
<1> QED  BY <1>1, <1>2

LEMMA GaplessPump ==
  ASSUME TypeOK, GaplessInv, NEW c \in Conns, Pump(c)
  PROVE  GaplessInv'
<1>0. UNCHANGED <<published, relayed, transport, relay, stage, link, sock, conn, base, lossy>>
  BY DEF Pump, broadcaster, history, page
<1>1. CASE c # conn
  <2>1. wire'[conn] = wire[conn] /\ queue'[conn] = queue[conn]
    BY <1>1 DEF Pump, TypeOK
  <2> QED  BY <1>0, <2>1, GaplessStill DEF Position, Listening
<1>2. CASE c = conn
  <2> SUFFICES ASSUME sock = "open", link[conn] = "up"
               PROVE  /\ ~lossy /\ Carried => Gapless'
                      /\ ~(~lossy /\ relay = "starting")
    BY <1>0 DEF GaplessInv, Carried, Listening
  <2>1. ~(~lossy /\ relay = "starting")
    BY <1>2 DEF GaplessInv, Pump
  <2>2. ASSUME ~lossy, Carried PROVE Gapless'
    <3>1. Gapless
      BY <2>2 DEF GaplessInv
    <3>2. queue[conn] # <<>> /\ queue'[conn] = Tail(queue[conn])
          /\ wire'[conn] = Append(wire[conn], Head(queue[conn]))
      BY <1>2 DEF Pump, TypeOK
    <3>3. /\ Len(queue[conn]) > 0 /\ Len(queue'[conn]) = Len(queue[conn]) - 1
          /\ \A i \in 1..(Len(queue[conn]) - 1) : queue'[conn][i] = queue[conn][i + 1]
          /\ Head(queue[conn]) = queue[conn][1] /\ Head(queue[conn]) \in Events
      BY <3>2, GaplessTypes, TailFacts
    <3>4. /\ Len(wire'[conn]) = Len(wire[conn]) + 1
          /\ \A i \in 1..Len(wire[conn]) : wire'[conn][i] = wire[conn][i]
          /\ wire'[conn][Len(wire[conn]) + 1] = Head(queue[conn])
      BY <3>2, <3>3, GaplessTypes, AppendFacts
    <3>5. Head(queue[conn]) = base + Len(wire[conn]) + 1
      BY <3>1, <3>3, GaplessTypes DEF Gapless
    <3>6. ASSUME NEW i \in 1..Len(wire'[conn]) PROVE wire'[conn][i] = base + i
      <4>1. CASE i = Len(wire[conn]) + 1
        BY <3>4, <3>5, <4>1, GaplessNumbers
      <4>2. CASE i # Len(wire[conn]) + 1
        <5>1. i \in 1..Len(wire[conn])
          BY <3>4, <4>2, GaplessTypes
        <5> QED  BY <3>1, <3>4, <5>1 DEF Gapless
      <4> QED  BY <4>1, <4>2
    <3>7. ASSUME NEW i \in 1..Len(queue'[conn])
          PROVE  queue'[conn][i] = base + Len(wire'[conn]) + i
      <4>1. i + 1 \in 1..Len(queue[conn]) /\ i \in 1..(Len(queue[conn]) - 1)
        BY <3>3, GaplessTypes
      <4>2. queue[conn][i + 1] = base + Len(wire[conn]) + (i + 1)
        BY <3>1, <4>1 DEF Gapless
      <4>3. queue'[conn][i] = base + Len(wire[conn]) + (i + 1)
        BY <3>3, <4>1, <4>2
      <4>4. base \in Nat /\ Len(wire[conn]) \in Nat /\ i \in Nat
        BY GaplessNumbers
      <4>5. base + Len(wire[conn]) + (i + 1) = base + (Len(wire[conn]) + 1) + i
        BY <4>4, Shifted
      <4> QED  BY <3>4, <4>3, <4>5
    <3>8. base + Len(wire'[conn]) + Len(queue'[conn]) = Position
      <4>1. base + Len(wire[conn]) + Len(queue[conn]) = Position
        BY <3>1 DEF Gapless
      <4> QED  BY <3>3, <3>4, <4>1, GaplessNumbers
    <3>9. Position' = Position
      BY <1>0 DEF Position
    <3> QED  BY <1>0, <3>6, <3>7, <3>8, <3>9 DEF Gapless
  <2> QED  BY <2>1, <2>2
<1> QED  BY <1>1, <1>2

LEMMA GaplessReceive ==
  ASSUME TypeOK, GaplessInv, Receive
  PROVE  GaplessInv'
<1>0. UNCHANGED <<published, relayed, transport, relay, stage, queue, link, sock, conn, lossy>>
  BY DEF Receive, broadcaster, handlers
<1> SUFFICES ASSUME sock = "open", link[conn] = "up"
             PROVE  /\ ~lossy /\ Carried => Gapless'
                    /\ ~(~lossy /\ relay = "starting")
  BY <1>0 DEF GaplessInv, Carried, Listening
<1>1. ~(~lossy /\ relay = "starting")
  BY DEF GaplessInv, Receive
<1>2. ASSUME ~lossy, Carried PROVE Gapless'
  <2>1. Gapless
    BY <1>2 DEF GaplessInv
  <2>2. wire[conn] # <<>> /\ wire'[conn] = Tail(wire[conn]) /\ base' = Head(wire[conn])
    BY DEF Receive, TypeOK
  <2>3. /\ Len(wire[conn]) > 0 /\ Len(wire'[conn]) = Len(wire[conn]) - 1
        /\ \A i \in 1..(Len(wire[conn]) - 1) : wire'[conn][i] = wire[conn][i + 1]
        /\ Head(wire[conn]) = wire[conn][1]
    BY <2>2, GaplessTypes, TailFacts
  <2>4. base' = base + 1
    BY <2>1, <2>2, <2>3, GaplessTypes DEF Gapless
  <2>5. ASSUME NEW i \in 1..Len(wire'[conn]) PROVE wire'[conn][i] = base' + i
    <3>1. i + 1 \in 1..Len(wire[conn]) /\ i \in 1..(Len(wire[conn]) - 1)
      BY <2>3, GaplessTypes
    <3>2. wire'[conn][i] = base + (i + 1)
      BY <2>1, <2>3, <3>1 DEF Gapless
    <3> QED  BY <2>4, <3>2, GaplessNumbers
  <2>6. ASSUME NEW i \in 1..Len(queue[conn])
        PROVE  queue[conn][i] = base' + Len(wire'[conn]) + i
    <3>1. queue[conn][i] = base + Len(wire[conn]) + i
      BY <2>1 DEF Gapless
    <3>2. base \in Nat /\ Len(wire[conn]) \in Nat /\ i \in Nat
      BY GaplessNumbers
    <3>3. base + Len(wire[conn]) + i = (base + 1) + (Len(wire[conn]) - 1) + i
      BY <2>3, <3>2, Shifted
    <3> QED  BY <2>3, <2>4, <3>1, <3>3
  <2>7. base' + Len(wire'[conn]) + Len(queue[conn]) = Position
    <3>1. base + Len(wire[conn]) + Len(queue[conn]) = Position
      BY <2>1 DEF Gapless
    <3>2. base \in Nat /\ Len(wire[conn]) \in Nat /\ Len(queue[conn]) \in Nat
      BY GaplessNumbers
    <3>3. base + Len(wire[conn]) + Len(queue[conn])
            = (base + 1) + (Len(wire[conn]) - 1) + Len(queue[conn])
      BY <2>3, <3>2, Shifted
    <3> QED  BY <2>3, <2>4, <3>1, <3>3
  <2>8. Position' = Position
    BY <1>0 DEF Position
  <2> QED  BY <1>0, <2>5, <2>6, <2>7, <2>8 DEF Gapless
<1> QED  BY <1>1, <1>2

\* A socket whose room has just been subscribed to has nothing on its way, and
\* is in step with the relay.
LEMMA GaplessFromEmpty ==
  ASSUME TypeOK', wire'[conn'] = <<>>, queue'[conn'] = <<>>, base' = Position'
  PROVE  Gapless'
<1>1. Len(<<>>) = 0 /\ base' \in Nat
  BY BoundsAssumption DEF TypeOK
<1> QED  BY <1>1 DEF Gapless

LEMMA StepGapless ==
  TypeOK /\ RelayInv /\ NoHandlerYet /\ FeedInv /\ GaplessInv /\ [Next]_vars => GaplessInv'
<1> SUFFICES ASSUME TypeOK, RelayInv, NoHandlerYet, FeedInv, GaplessInv, [Next]_vars
             PROVE  GaplessInv'
  OBVIOUS
<1>0. TypeOK' /\ RelayInv' /\ conn \in Conns
  BY StepTypes, StepRelay DEF TypeOK
<1>1. CASE Publish
  <2>0. relayed \in Seq(Events) /\ published \in Nat /\ published + 1 \in Events
    BY <1>1, BoundsAssumption DEF Publish, TypeOK, Events
  <2>1. CASE transport = "in-process"
    <3>1. relayed = <<>> /\ UNCHANGED relayed /\ Len(relayed) = 0 /\ relay = "none"
      BY <1>1, <2>1 DEF Publish, RelayInv
    <3>2. Position + 1 = published + 1 /\ Position' = Position + 1
      BY <1>1, <2>0, <3>1 DEF Publish, Position
    <3> QED  BY <1>1, <2>0, <2>1, <3>1, <3>2, GaplessFanOut DEF Publish, network, page
  <2>2. CASE transport # "in-process" /\ relay = "up"
    <3>1. relayed' = Append(relayed, published + 1)
      BY <1>1, <2>2 DEF Publish
    <3>2. Len(relayed') = Len(relayed) + 1
      BY <2>0, <3>1, AppendFacts
    <3>3. Position' = Position
      BY <1>1, <2>0, <3>2 DEF Publish, Position
    <3> QED  BY <1>1, <2>2, <3>3, GaplessStill DEF Publish, network, page, Listening
  <2>3. CASE transport # "in-process" /\ relay # "up"
    BY <1>1, <2>3 DEF Publish, network, page, GaplessInv, Carried, Listening
  <2> QED  BY <2>1, <2>2, <2>3
<1>2. CASE RelaySubscribed
  <2>0. /\ relay = "starting" /\ base' = IF sock = "open" THEN published ELSE base
        /\ UNCHANGED <<published, relayed, stage, queue, wire, link, sock, conn, lossy>>
    BY <1>2 DEF RelaySubscribed, handlers, network, page
  <2>1. relayed' = <<>> /\ Len(relayed') = 0 /\ published \in Nat
    BY <2>0 DEF RelayInv, TypeOK
  <2>2. Position' = published
    BY <2>0, <2>1 DEF Position
  <2>3. relay' # "starting"
    BY <1>2 DEF RelaySubscribed
  <2> SUFFICES ASSUME sock = "open", link[conn] = "up"
               PROVE  Listening(conn) /\ (~lossy => Gapless')
    BY <2>0, <2>3 DEF GaplessInv, Listening
  <2>4. ASSUME ~lossy PROVE wire'[conn'] = <<>> /\ queue'[conn'] = <<>> /\ base' = Position'
    BY <2>0, <2>2, <2>4 DEF GaplessInv
  <2> QED  BY <1>0, <2>4, GaplessFromEmpty DEF GaplessInv
<1>3. CASE RelayDeliver
  <2>0. relayed \in Seq(Events) /\ published \in Nat /\ relayed # <<>>
    BY <1>3 DEF RelayDeliver, TypeOK
  <2>1. /\ Head(relayed) = relayed[1] /\ Len(relayed) > 0 /\ Head(relayed) \in Events
        /\ Len(Tail(relayed)) = Len(relayed) - 1
    BY <2>0, TailFacts
  <2>2. relayed[1] = Position + 1
    BY <2>0, <2>1 DEF RelayInv, Position
  <2>3. Position' = Position + 1
    BY <1>3, <2>0, <2>1 DEF RelayDeliver, Position
  <2> QED  BY <1>3, <2>1, <2>2, <2>3, GaplessFanOut DEF RelayDeliver, network, page
<1>4. CASE RelayDies
  BY <1>4 DEF RelayDies, handlers, network, page, GaplessInv, Listening
<1>5. CASE Accept
  <2>1. /\ wire'[conn'] = <<>> /\ queue'[conn'] = <<>> /\ base' = Position'
        /\ stage'[conn'] = "subscribed"
    BY <1>0, <1>5 DEF Accept, NoHandlerYet, FeedInv, CleanStart, network, Position, TypeOK
  <2>2. Gapless'
    BY <1>0, <2>1, GaplessFromEmpty
  <2> QED  BY <2>1, <2>2 DEF GaplessInv, Listening
<1>6. ASSUME NEW c \in Conns, SendConnected(c) PROVE GaplessInv'
  <2>1. UNCHANGED <<published, relayed, transport, relay, wire, link, sock, conn, base, lossy>>
    BY <1>6 DEF SendConnected, broadcaster, history, network, page
  <2>2. link[conn] = "up" => queue'[conn] = queue[conn] /\ (Listening(conn) => Listening(conn)')
    <3>1. CASE link[c] = "closed"
      <4>1. End(c)
        BY <1>6, <3>1 DEF SendConnected
      <4>2. link[conn] = "up" => conn # c
        BY <3>1
      <4>3. c # conn => stage'[conn] = stage[conn] /\ queue'[conn] = queue[conn]
        BY <1>0, <4>1 DEF End, TypeOK
      <4> QED  BY <2>1, <3>1, <4>2, <4>3 DEF Listening
    <3>2. CASE link[c] # "closed"
      <4>1. queue' = queue /\ stage' = [stage EXCEPT ![c] = "pumping"]
        BY <1>6, <3>2 DEF SendConnected
      <4>2. stage'[conn] = "pumping" \/ stage'[conn] = stage[conn]
        BY <1>0, <4>1 DEF TypeOK
      <4> QED  BY <2>1, <4>1, <4>2 DEF Listening
    <3> QED  BY <3>1, <3>2
  <2> QED  BY <2>1, <2>2, GaplessStill DEF Position
<1>7. ASSUME NEW c \in Conns, Disconnect(c) PROVE GaplessInv'
  <2>1. /\ UNCHANGED <<published, transport, wire, link, sock, conn, base, lossy>>
        /\ link[c] = "closed" /\ End(c)
    BY <1>7 DEF Disconnect, history, network, page
  <2>2. CASE sock = "open" /\ link[conn] = "up"
    <3>1. conn # c /\ Listening(conn)
      BY <2>1, <2>2 DEF GaplessInv
    <3>2. UNCHANGED <<relay, relayed>>
      BY <1>0, <1>7, <3>1 DEF Disconnect, Unsubscribe
    <3>3. queue'[conn] = queue[conn] /\ stage'[conn] = stage[conn]
      BY <1>0, <2>1, <3>1 DEF End, TypeOK
    <3> QED  BY <2>1, <3>2, <3>3, GaplessStill DEF Position, Listening
  <2>3. CASE ~(sock = "open" /\ link[conn] = "up")
    BY <2>1, <2>3 DEF GaplessInv
  <2> QED  BY <2>2, <2>3
<1>8. ASSUME NEW c \in Conns, Cut(c) \/ ServerNotices(c) PROVE GaplessInv'
  <2>1. UNCHANGED <<published, relayed, transport, relay, stage, queue, sock, conn, base, lossy>>
    BY <1>8 DEF Cut, ServerNotices, broadcaster, handlers, history, page
  <2>2. link'[conn] = "up" => link[conn] = "up" /\ wire'[conn] = wire[conn]
    BY <1>0, <1>8 DEF Cut, ServerNotices, TypeOK
  <2> QED  BY <2>1, <2>2, GaplessStill DEF Position, Listening
<1>9. CASE Refuse \/ AttemptFails \/ PageNotices \/ Retry \/ Leave
  BY <1>9 DEF Refuse, AttemptFails, PageNotices, Retry, Leave, GaplessInv
<1>10. CASE TokenExpires \/ UNCHANGED vars
  <2>1. UNCHANGED <<published, relayed, transport, relay, stage, queue, wire, link, sock, conn,
                    base, lossy>>
    BY <1>10 DEF TokenExpires, vars, broadcaster, handlers, history, network, page
  <2> QED  BY <2>1, GaplessStill DEF Position, Listening
<1> QED  BY <1>1, <1>2, <1>3, <1>4, <1>5, <1>6, <1>7, <1>8, <1>9, <1>10, GaplessPump,
            GaplessReceive DEF Next

LEMMA NoHolesFollow == TypeOK /\ RelayInv /\ GaplessInv => NoHoles
<1> SUFFICES ASSUME TypeOK, RelayInv, GaplessInv, sock = "open", link[conn] = "up",
                    Carried, ~lossy
             PROVE  Coming(conn) = [i \in 1..(published - base) |-> base + i]
  BY DEF NoHoles
<1> DEFINE w == wire[conn]
           q == queue[conn]
<1>1. Gapless
  BY DEF GaplessInv
<1>2. /\ \A i \in 1..Len(w) : w[i] = base + i
      /\ \A i \in 1..Len(q) : q[i] = base + Len(w) + i
      /\ base + Len(w) + Len(q) = published - Len(relayed)
  BY <1>1 DEF Gapless, Position
<1>3. \A i \in 1..Len(relayed) : relayed[i] = published - Len(relayed) + i
  BY DEF RelayInv
<1>4. /\ w \in Seq(Events) /\ q \in Seq(Events) /\ relayed \in Seq(Events)
      /\ Len(w) \in Nat /\ Len(q) \in Nat /\ Len(relayed) \in Nat
      /\ published \in Nat /\ base \in Nat
  BY GaplessTypes
<1> HIDE DEF w, q
<1>5. w \o q \o relayed = [i \in 1..(Len(w) + Len(q) + Len(relayed)) |-> base + i]
  <2> DEFINE h == w \o q
  <2>1. h \in Seq(Events) /\ Len(h) = Len(w) + Len(q)
    BY <1>4
  <2>2. ASSUME NEW i \in 1..(Len(w) + Len(q)) PROVE h[i] = base + i
    <3>1. h[i] = IF i <= Len(w) THEN w[i] ELSE q[i - Len(w)]
      BY <1>4, ConcatProperties
    <3>2. CASE i <= Len(w)
      BY <1>2, <1>4, <3>1, <3>2
    <3>3. CASE ~(i <= Len(w))
      <4>1. i - Len(w) \in 1..Len(q) /\ h[i] = q[i - Len(w)]
        BY <1>4, <3>1, <3>3
      <4>2. q[i - Len(w)] = base + Len(w) + (i - Len(w))
        BY <1>2, <4>1
      <4> QED  BY <1>4, <4>1, <4>2
    <3> QED  BY <3>2, <3>3
  <2>3. Len(h) \in Nat
    BY <1>4, <2>1
  <2> HIDE DEF h
  <2>4. h \o relayed = [i \in 1..(Len(h) + Len(relayed)) |-> (h \o relayed)[i]]
    BY <1>4, <2>1, JoinFacts
  <2>5. ASSUME NEW i \in 1..(Len(h) + Len(relayed))
        PROVE  (h \o relayed)[i] = base + i
    <3>0. (h \o relayed)[i] = IF i <= Len(h) THEN h[i] ELSE relayed[i - Len(h)]
      BY <1>4, <2>1, ConcatProperties
    <3>1. CASE i <= Len(h)
      BY <1>4, <2>1, <2>2, <2>3, <3>0, <3>1
    <3>2. CASE ~(i <= Len(h))
      <4>1. i - Len(h) \in 1..Len(relayed)
        BY <1>4, <2>3, <3>2
      <4>2. relayed[i - Len(h)] = published - Len(relayed) + (i - Len(h))
        BY <1>3, <4>1
      <4>3. published - Len(relayed) = base + Len(h)
        BY <1>2, <1>4, <2>1
      <4> QED  BY <1>4, <2>3, <3>0, <3>2, <4>2, <4>3
    <3> QED  BY <3>1, <3>2
  <2>6. h \o relayed = [i \in 1..(Len(h) + Len(relayed)) |-> base + i]
    BY <2>4, <2>5
  <2> QED  BY <2>1, <2>6 DEF h
<1>6. Len(w) + Len(q) + Len(relayed) = published - base
  BY <1>2, <1>4
<1> QED  BY <1>5, <1>6 DEF w, q, Coming

\* Until its queue overflows or the relay dies, everything published since the
\* room was subscribed to is on its way to an open socket, in order and without
\* a gap, for any queue size and any number of sockets.
THEOREM NothingIsSkipped == Spec => []NoHoles
<1>1. Init => TypeOK /\ RelayInv /\ NoHandlerYet /\ FeedInv /\ GaplessInv
  BY InitTypes, InitRelay, InitNoHandler, InitFeed, InitGapless
<1>2. TypeOK /\ RelayInv /\ NoHandlerYet /\ FeedInv /\ GaplessInv /\ [Next]_vars
        => (TypeOK /\ RelayInv /\ NoHandlerYet /\ FeedInv /\ GaplessInv)'
  BY StepTypes, StepRelay, StepNoHandler, StepFeedInv, StepGapless
<1> QED  BY <1>1, <1>2, NoHolesFollow, PTL DEF Spec

-----------------------------------------------------------------------------
(* Events come through                                                     *)

\* e is on its way to an open page, and nothing has gone wrong.
Underway(e) ==
  /\ sock = "open" /\ link[conn] = "up" /\ ~lossy
  /\ \E i \in DOMAIN Coming(conn) : Coming(conn)[i] = e

Through(e) == LastShown >= e \/ sock # "open" \/ link[conn] # "up" \/ lossy

\* The steps up to e's being shown: each event up to e is to be relayed, pumped
\* and received, and the handler may have its connected frame to send first.
Lesser(a, b) == IF a <= b THEN a ELSE b

Steps(ahead, sent, queued, first) ==
  3 * ahead - Lesser(sent, ahead) - Lesser(sent + queued, ahead) + first

First == IF stage[conn] = "subscribed" THEN 1 ELSE 0

StepsTo(e) == Steps(e - base, Len(wire[conn]), Len(queue[conn]), First)

\* The step that is next for what is first on its way, and what it takes for
\* one to be possible.
Carries ==
  \/ Receive \/ SendConnected(conn)
  \/ wire[conn] = <<>> /\ Pump(conn)
  \/ wire[conn] = <<>> /\ queue[conn] = <<>> /\ RelayDeliver

CanBeCarried ==
  \/ wire[conn] # <<>>
  \/ stage[conn] = "subscribed"
  \/ stage[conn] = "pumping" /\ sender[conn] = "running" /\ queue[conn] # <<>>
  \/ relay = "up" /\ relayed # <<>>

Nearer(e) ==
  Underway(e) =>
    \/ Through(e)'
    \/ /\ Underway(e)' /\ StepsTo(e)' <= StepsTo(e)
       /\ Carries => StepsTo(e)' < StepsTo(e)

\* More queued, or the connected frame sent: not further, and nearer where it is
\* what was waited for.
LEMMA StepsQueued ==
  ASSUME NEW a \in Nat, NEW w \in Nat, NEW q \in Nat, NEW f \in Nat,
         NEW q2 \in Nat, NEW f2 \in Nat, q <= q2, f2 <= f
  PROVE  /\ Steps(a, w, q2, f2) <= Steps(a, w, q, f)
         /\ f2 < f => Steps(a, w, q2, f2) < Steps(a, w, q, f)
         /\ w = 0 /\ q = 0 /\ q2 > 0 /\ a > 0 => Steps(a, w, q2, f2) < Steps(a, w, q, f)
  BY DEF Steps, Lesser

LEMMA StepsPumped ==
  ASSUME NEW a \in Nat, NEW w \in Nat, NEW q \in Nat, NEW f \in Nat, q > 0
  PROVE  /\ Steps(a, w + 1, q - 1, f) <= Steps(a, w, q, f)
         /\ w = 0 /\ a > 0 => Steps(a, w + 1, q - 1, f) < Steps(a, w, q, f)
  BY DEF Steps, Lesser

LEMMA StepsReceived ==
  ASSUME NEW a \in Nat, NEW w \in Nat, NEW q \in Nat, NEW f \in Nat, w > 0, a > 0
  PROVE  Steps(a - 1, w - 1, q, f) < Steps(a, w, q, f)
  BY DEF Steps, Lesser

LEMMA StepsNat ==
  ASSUME NEW a \in Nat, NEW w \in Nat, NEW q \in Nat, NEW f \in Nat
  PROVE  Steps(a, w, q, f) \in Nat
  BY DEF Steps, Lesser

\* A relay that is dead has failed the open socket, and a sender that is dead
\* has found its link closed.
DeathsInv ==
  /\ sock = "open" /\ relay = "dead" => lossy
  /\ \A c \in Conns : sender[c] = "failed" => link[c] = "closed"

LEMMA InitDeaths == Init => DeathsInv
  BY DEF Init, DeathsInv

LEMMA StepDeaths ==
  TypeOK /\ RelayInv /\ LeakInv /\ DeathsInv /\ [Next]_vars => DeathsInv'
<1> SUFFICES ASSUME TypeOK, RelayInv, LeakInv, DeathsInv, [Next]_vars PROVE DeathsInv'
  OBVIOUS
<1>0. /\ sender \in [Conns -> {"running", "failed"}] /\ link \in [Conns -> {"up", "cut", "closed"}]
      /\ conn \in Conns
  BY DEF TypeOK
<1>1. CASE UNCHANGED <<relay, sender, link, sock>> /\ (lossy => lossy')
  BY <1>1 DEF DeathsInv
<1>2. CASE Publish \/ RelayDeliver
  <2>1. UNCHANGED <<relay, sender, link, sock>>
    BY <1>2 DEF Publish, RelayDeliver, network, page
  <2>2. lossy => lossy'
    BY <1>2, Zenon DEF Publish, RelayDeliver, FanOut
  <2> QED  BY <1>1, <2>1, <2>2
<1>3. CASE Receive \/ TokenExpires \/ UNCHANGED vars
  <2>1. UNCHANGED <<relay, sender, link, sock, lossy>>
    BY <1>3 DEF Receive, TokenExpires, vars, broadcaster, handlers, history, network, page
  <2> QED  BY <1>1, <2>1
<1>9. CASE RelaySubscribed \/ Accept
  <2>1. relay' # "dead" /\ UNCHANGED <<sender, link>>
    BY <1>9, TransportsAssumption DEF RelaySubscribed, Accept, RelayInv, TypeOK, handlers, network
  <2> QED  BY <2>1 DEF DeathsInv
<1>10. CASE RelayDies
  <2>1. UNCHANGED <<sender, link, sock>>
    BY <1>10 DEF RelayDies, handlers, network, page
  <2>2. sock = "open" => lossy'
    BY <1>10, Zenon DEF RelayDies
  <2> QED  BY <2>1, <2>2 DEF DeathsInv
<1>4. CASE Refuse \/ AttemptFails \/ PageNotices \/ Leave
  <2>1. UNCHANGED sender /\ sock' # "open"
        /\ (UNCHANGED link \/ link' = [link EXCEPT ![conn] = "closed"])
    BY <1>4 DEF Refuse, AttemptFails, PageNotices, Leave, handlers, network
  <2> QED  BY <1>0, <2>1 DEF DeathsInv
<1>5. CASE Retry
  <2>1. PICK c \in Conns : ~Listening(c) /\ link' = [link EXCEPT ![c] = "up"]
    BY <1>5 DEF Retry
  <2>2. sender[c] = "running"
    BY <2>1 DEF LeakInv, Listening
  <2> QED  BY <1>0, <1>5, <2>1, <2>2 DEF Retry, handlers, DeathsInv
<1>6. ASSUME NEW c \in Conns, SendConnected(c) \/ Disconnect(c) PROVE DeathsInv'
  <2>1. /\ UNCHANGED <<link, sock, lossy>> /\ (relay' = relay \/ relay' = "none")
        /\ (UNCHANGED sender \/ sender' = [sender EXCEPT ![c] = "running"])
    BY <1>6 DEF SendConnected, Disconnect, End, Unsubscribe, broadcaster, history, network, page
  <2> QED  BY <1>0, <2>1 DEF DeathsInv
<1>7. ASSUME NEW c \in Conns, Pump(c) PROVE DeathsInv'
  <2>1. /\ UNCHANGED <<link, sock, lossy, relay>>
        /\ UNCHANGED sender \/ (link[c] = "closed" /\ sender' = [sender EXCEPT ![c] = "failed"])
    BY <1>7 DEF Pump, broadcaster, history, page
  <2> QED  BY <1>0, <2>1 DEF DeathsInv
<1>8. ASSUME NEW c \in Conns, Cut(c) \/ ServerNotices(c) PROVE DeathsInv'
  <2>1. /\ UNCHANGED <<sender, sock, lossy, relay>> /\ link[c] # "closed"
        /\ \E l : link' = [link EXCEPT ![c] = l]
    BY <1>8 DEF Cut, ServerNotices, broadcaster, handlers, history, page
  <2> QED  BY <1>0, <2>1 DEF DeathsInv
<1> QED  BY <1>2, <1>3, <1>4, <1>5, <1>6, <1>7, <1>8, <1>9, <1>10 DEF Next

\* A socket that events are under way to is served: what it is to bring is
\* what was published after base.
Served ==
  /\ sock = "open" /\ link[conn] = "up" /\ ~lossy
  /\ Listening(conn) /\ Carried
  /\ base + Len(wire[conn]) + Len(queue[conn]) + Len(relayed) = published

UnderwayKnown ==
  /\ \A e \in Events : Underway(e) <=> Served /\ base < e /\ e <= published
  /\ sock = "open" /\ link[conn] = "up" /\ ~lossy /\ Carried => Served

LEMMA UnderwayIs ==
  TypeOK /\ RelayInv /\ RelayFollowsListeners /\ GaplessInv /\ DeathsInv => UnderwayKnown
<1> SUFFICES ASSUME TypeOK, RelayInv, RelayFollowsListeners, GaplessInv, DeathsInv,
                    sock = "open", link[conn] = "up", ~lossy
             PROVE  /\ \A e \in Events : (\E i \in DOMAIN Coming(conn) : Coming(conn)[i] = e)
                                           <=> Served /\ base < e /\ e <= published
                    /\ Carried => Served
  BY DEF Underway, Served, UnderwayKnown
<1>1. /\ conn \in Conns /\ Len(queue[conn]) \in Nat /\ Len(wire[conn]) \in Nat
      /\ relayed \in Seq(Events) /\ Len(relayed) \in Nat /\ published \in Nat /\ base \in Nat
  BY GaplessTypes
<1>2. Events \subseteq Nat
  BY EventsAreNaturals
<1>3. Listening(conn)
  BY DEF GaplessInv
<1>4. CASE Carried
  <2>1. Coming(conn) = [i \in 1..(published - base) |-> base + i]
    BY <1>4, NoHolesFollow DEF NoHoles
  <2>2. Gapless
    BY <1>4 DEF GaplessInv
  <2>3. base + Len(wire[conn]) + Len(queue[conn]) + Len(relayed) = published
    <3> DEFINE w == Len(wire[conn])
               q == Len(queue[conn])
               r == Len(relayed)
    <3>1. base + w + q = published - r
      BY <2>2 DEF Gapless, Position
    <3>2. w \in Nat /\ q \in Nat /\ r \in Nat
      BY <1>1
    <3>3. base \in Nat /\ published \in Nat
      BY <1>1
    <3> HIDE DEF w, q, r
    <3>4. base + w + q + r = published
      BY <3>1, <3>2, <3>3
    <3> QED  BY <3>4 DEF w, q, r
  <2>4. Served
    BY <1>3, <1>4, <2>3 DEF Served
  <2>5. ASSUME NEW e \in Nat
        PROVE  (\E i \in 1..(published - base) : base + i = e) <=> base < e /\ e <= published
    <3>1. base < e /\ e <= published => e - base \in 1..(published - base) /\ base + (e - base) = e
      BY <1>1
    <3>2. \A i \in 1..(published - base) : base < base + i /\ base + i <= published
      BY <1>1
    <3> QED  BY <3>1, <3>2
  <2>6. \A e : (\E i \in DOMAIN Coming(conn) : Coming(conn)[i] = e)
                 <=> \E i \in 1..(published - base) : base + i = e
    BY <2>1
  <2> QED  BY <1>2, <2>4, <2>5, <2>6
<1>5. CASE ~Carried
  <2>1. transport = "redis" /\ relay # "up"
    BY <1>5, TransportsAssumption DEF Carried, TypeOK
  <2>2. relay # "none"
    BY <1>1, <1>3, <2>1 DEF RelayFollowsListeners
  <2>3. relay # "dead"
    BY DEF DeathsInv
  <2>4. relay = "starting"
    BY <2>1, <2>2, <2>3 DEF TypeOK
  <2>5. wire[conn] = <<>> /\ queue[conn] = <<>> /\ relayed = <<>>
    BY <2>1, <2>4 DEF GaplessInv, RelayInv
  <2>6. DOMAIN Coming(conn) = {}
    BY <2>5 DEF Coming
  <2> QED  BY <1>5, <2>6 DEF Served
<1> QED  BY <1>4, <1>5

\* What a step can do to the socket that is open before it and after it: queue
\* more for it, pump or have the page receive one event, or none of these.
SocketKept ==
  /\ UNCHANGED <<conn, base>> /\ wire'[conn] = wire[conn]
  /\ Len(queue'[conn]) >= Len(queue[conn])
  /\ stage'[conn] \in {stage[conn], "pumping"}

SocketPumped ==
  /\ UNCHANGED <<conn, base>> /\ stage'[conn] = stage[conn]
  /\ Len(queue[conn]) > 0 /\ Len(queue'[conn]) = Len(queue[conn]) - 1
  /\ Len(wire'[conn]) = Len(wire[conn]) + 1

SocketReceived ==
  /\ UNCHANGED conn /\ stage'[conn] = stage[conn] /\ queue'[conn] = queue[conn]
  /\ Len(wire[conn]) > 0 /\ Len(wire'[conn]) = Len(wire[conn]) - 1
  /\ base' = base + 1 /\ LastShown' = base'

StaysOpen == sock' = "open" /\ link'[conn'] = "up" /\ ~lossy'

LEMMA KeptServed ==
  ASSUME TypeOK, Served, [Next]_vars, StaysOpen
  PROVE  UNCHANGED <<conn, transport>> /\ published <= published' /\ Carried'
<1>0. published \in Nat /\ conn \in Conns
  BY GaplessTypes
<1>1. UNCHANGED <<conn, transport>>
  BY DEF Served, StaysOpen, Next, Publish, RelaySubscribed, RelayDeliver, RelayDies, Accept, Refuse,
         SendConnected, Pump, Disconnect, Cut, ServerNotices, AttemptFails, Receive, PageNotices,
         Retry, Leave, TokenExpires, vars, broadcaster, page
<1>2. published' = published \/ published' = published + 1
  BY DEF Next, Publish, RelaySubscribed, RelayDeliver, RelayDies, Accept, Refuse,
         SendConnected, Pump, Disconnect, Cut, ServerNotices, AttemptFails, Receive, PageNotices,
         Retry, Leave, TokenExpires, vars
<1>3. relay = "up" => relay' = "up"
  <2> SUFFICES ASSUME relay = "up" PROVE relay' = "up"
    OBVIOUS
  <2>1. CASE RelayDies
    BY <2>1, Zenon DEF RelayDies, Served, StaysOpen
  <2>2. ASSUME NEW c \in Conns, Disconnect(c) PROVE relay' = "up"
    <3>1. c # conn
      BY <2>2 DEF Disconnect, Served
    <3> QED  BY <1>0, <2>2, <3>1 DEF Disconnect, Unsubscribe, Served
  <2> QED  BY <2>1, <2>2 DEF Next, Publish, RelaySubscribed, RelayDeliver, Accept, Refuse,
              SendConnected, Pump, Cut, ServerNotices, AttemptFails, Receive, PageNotices,
              Retry, Leave, TokenExpires, vars, broadcaster
<1> QED  BY <1>0, <1>1, <1>2, <1>3 DEF Served, Carried

LEMMA FanOutKeeps ==
  ASSUME TypeOK, NEW e \in Events, FanOut(e), UNCHANGED <<conn, base, wire, stage>>
  PROVE  SocketKept
<1>1. queue'[conn] = queue[conn] \/ queue'[conn] = Append(queue[conn], e)
  BY GaplessTypes DEF FanOut
<1>2. Len(Append(queue[conn], e)) = Len(queue[conn]) + 1
  BY GaplessTypes, AppendFacts
<1> QED  BY <1>1, <1>2, GaplessNumbers DEF SocketKept

LEMMA ReceivedOne ==
  ASSUME TypeOK, TypeOK', GaplessInv, Served, Receive
  PROVE  SocketReceived
<1>1. wire[conn] # <<>> /\ wire'[conn] = Tail(wire[conn]) /\ base' = Head(wire[conn])
      /\ UNCHANGED <<conn, stage, queue>>
  BY DEF Receive, TypeOK, handlers
<1>2. /\ Len(wire[conn]) > 0 /\ Len(wire'[conn]) = Len(wire[conn]) - 1
      /\ Head(wire[conn]) = wire[conn][1] /\ Head(wire[conn]) \in Events
  BY <1>1, GaplessTypes, TailFacts
<1>3. base' = base + 1
  <2>1. Gapless
    BY DEF GaplessInv, Served
  <2>2. 1 \in 1..Len(wire[conn])
    BY <1>2, GaplessNumbers
  <2> QED  BY <1>1, <1>2, <2>1, <2>2 DEF Gapless
<1>4. LastShown' = base'
  BY <1>1, <1>2, ShownNext DEF Receive, TypeOK
<1> QED  BY <1>1, <1>2, <1>3, <1>4 DEF SocketReceived

LEMMA PumpedOne ==
  ASSUME TypeOK, Served, Pump(conn)
  PROVE  SocketPumped
<1>1. /\ UNCHANGED <<conn, base, stage>> /\ queue[conn] # <<>>
      /\ queue'[conn] = Tail(queue[conn])
      /\ wire'[conn] = Append(wire[conn], Head(queue[conn]))
  BY DEF Pump, Served, TypeOK, history, page
<1>2. /\ Len(queue[conn]) > 0 /\ Len(queue'[conn]) = Len(queue[conn]) - 1
      /\ Head(queue[conn]) \in Events
  BY <1>1, GaplessTypes, TailFacts
<1>3. Len(wire'[conn]) = Len(wire[conn]) + 1
  BY <1>1, <1>2, GaplessTypes, AppendFacts
<1> QED  BY <1>1, <1>2, <1>3 DEF SocketPumped

LEMMA SocketSteps ==
  ASSUME TypeOK, TypeOK', RelayInv, GaplessInv, Served, [Next]_vars, StaysOpen
  PROVE  SocketKept \/ SocketPumped \/ SocketReceived
<1>0. conn \in Conns /\ Len(queue[conn]) \in Nat
  BY GaplessTypes
<1>1. CASE UNCHANGED <<conn, base>> /\ wire'[conn] = wire[conn] /\ queue'[conn] = queue[conn]
           /\ stage'[conn] \in {stage[conn], "pumping"}
  BY <1>0, <1>1 DEF SocketKept
<1>2. CASE Publish
  <2>1. UNCHANGED <<conn, base, wire, stage>> /\ published + 1 \in Events
    BY <1>2, BoundsAssumption DEF Publish, TypeOK, Events, network, page
  <2>2. CASE transport = "in-process"
    BY <1>2, <2>1, <2>2, FanOutKeeps DEF Publish
  <2>3. CASE transport # "in-process"
    BY <1>1, <1>2, <2>1, <2>3 DEF Publish
  <2> QED  BY <2>2, <2>3
<1>3. CASE RelayDeliver
  <2>1. UNCHANGED <<conn, base, wire, stage>> /\ Head(relayed) \in Events
    BY <1>3, TailFacts DEF RelayDeliver, TypeOK, network, page
  <2> QED  BY <1>3, <2>1, FanOutKeeps DEF RelayDeliver
<1>4. ~RelaySubscribed
  <2>1. relay = "starting" => transport # "in-process"
    BY DEF RelayInv
  <2> QED  BY <2>1 DEF RelaySubscribed, Served, Carried
<1>5. ~RelayDies
  BY Zenon DEF RelayDies, Served, StaysOpen
<1>6. ~(Accept \/ Refuse \/ AttemptFails \/ PageNotices \/ Retry \/ Leave)
  BY DEF Accept, Refuse, AttemptFails, PageNotices, Retry, Leave, Served, StaysOpen
<1>7. ASSUME NEW c \in Conns, SendConnected(c)
      PROVE  SocketKept \/ SocketPumped \/ SocketReceived
  <2>1. UNCHANGED <<conn, base, wire>>
    BY <1>7 DEF SendConnected, history, network, page
  <2>2. CASE link[c] = "closed"
    <3>1. c # conn /\ End(c)
      BY <1>7, <2>2 DEF SendConnected, Served
    <3> QED  BY <1>0, <1>1, <2>1, <3>1 DEF End, TypeOK
  <2>3. CASE link[c] # "closed"
    <3>1. queue' = queue /\ stage' = [stage EXCEPT ![c] = "pumping"]
      BY <1>7, <2>3 DEF SendConnected
    <3>2. stage'[conn] = "pumping" \/ stage'[conn] = stage[conn]
      BY <1>0, <3>1 DEF TypeOK
    <3> QED  BY <1>1, <2>1, <3>1, <3>2
  <2> QED  BY <2>2, <2>3
<1>8. ASSUME NEW c \in Conns, Pump(c)
      PROVE  SocketKept \/ SocketPumped \/ SocketReceived
  <2>1. CASE c # conn
    <3>1. UNCHANGED <<conn, base, stage>> /\ wire'[conn] = wire[conn] /\ queue'[conn] = queue[conn]
      BY <1>0, <1>8, <2>1 DEF Pump, TypeOK, history, page
    <3> QED  BY <1>1, <3>1
  <2>2. CASE c = conn
    BY <1>8, <2>2, PumpedOne
  <2> QED  BY <2>1, <2>2
<1>9. ASSUME NEW c \in Conns, Disconnect(c)
      PROVE  SocketKept \/ SocketPumped \/ SocketReceived
  <2>1. UNCHANGED <<conn, base, wire>> /\ c # conn /\ End(c)
    BY <1>9 DEF Disconnect, Served, history, network, page
  <2> QED  BY <1>0, <1>1, <2>1 DEF End, TypeOK
<1>10. ASSUME NEW c \in Conns, Cut(c)
       PROVE  SocketKept \/ SocketPumped \/ SocketReceived
  <2>1. UNCHANGED <<conn, base, queue, stage>> /\ link' = [link EXCEPT ![c] = "cut"]
    BY <1>10 DEF Cut, handlers, history, page
  <2>2. c # conn
    BY <1>0, <2>1 DEF StaysOpen, TypeOK
  <2>3. wire'[conn] = wire[conn]
    BY <1>0, <1>10, <2>2 DEF Cut, TypeOK
  <2> QED  BY <1>1, <2>1, <2>3
<1>11. ASSUME NEW c \in Conns, ServerNotices(c)
       PROVE  SocketKept \/ SocketPumped \/ SocketReceived
  BY <1>1, <1>11 DEF ServerNotices, handlers, history, page
<1>12. CASE TokenExpires \/ UNCHANGED vars
  BY <1>1, <1>12 DEF TokenExpires, vars, handlers, history, network, page
<1>13. CASE Receive
  BY <1>13, ReceivedOne
<1> QED  BY <1>2, <1>3, <1>4, <1>5, <1>6, <1>7, <1>8, <1>9, <1>10, <1>11, <1>12, <1>13 DEF Next

\* An event that is on its way is the next one or a later one: something has to
\* be done for it, and can be.
LEMMA UnderwayPossible ==
  ASSUME TypeOK, RelayInv, DeathsInv, UnderwayKnown, NEW e \in Events, Underway(e)
  PROVE  CanBeCarried /\ StepsTo(e) \in Nat
<1>0. /\ Len(queue[conn]) \in Nat /\ Len(wire[conn]) \in Nat /\ base \in Nat /\ e \in Nat
      /\ conn \in Conns /\ published \in Nat
  BY GaplessTypes, EventsAreNaturals
<1>1. Served /\ base < e /\ e <= published
  BY DEF UnderwayKnown
<1>2. First \in Nat /\ e - base \in Nat
  BY <1>0, <1>1 DEF First
<1>3. StepsTo(e) \in Nat
  BY <1>0, <1>2, StepsNat DEF StepsTo
<1>4. sender[conn] = "running"
  BY <1>0, <1>1 DEF DeathsInv, Served, TypeOK
<1>5. stage[conn] \in {"subscribed", "pumping"}
  BY <1>0, <1>1 DEF Served, Listening, TypeOK
<1>6. ASSUME wire[conn] = <<>>, queue[conn] = <<>> PROVE relay = "up" /\ relayed # <<>>
  <2>1. Len(wire[conn]) = 0 /\ Len(queue[conn]) = 0
    BY <1>6
  <2>2. base + Len(relayed) = published
    BY <1>0, <1>1, <2>1 DEF Served
  <2>3. relayed # <<>>
    BY <1>0, <1>1, <2>2
  <2> QED  BY <2>3 DEF RelayInv
<1> QED  BY <1>3, <1>4, <1>5, <1>6 DEF CanBeCarried

LEMMA FirstFalls ==
  ASSUME stage'[conn'] \in {stage[conn], "pumping"}
  PROVE  First \in Nat /\ First' \in Nat /\ First' <= First
  BY DEF First

\* No step takes an event further from the page, and the step that is next for
\* it brings it nearer.
LEMMA NearerStep ==
  ASSUME TypeOK, TypeOK', RelayInv, GaplessInv, UnderwayKnown, UnderwayKnown', [Next]_vars,
         NEW e \in Events, Underway(e), ~Through(e)'
  PROVE  /\ Underway(e)' /\ StepsTo(e)' <= StepsTo(e)
         /\ Carries => StepsTo(e)' < StepsTo(e)
<1> DEFINE w == Len(wire[conn])
           q == Len(queue[conn])
           a == e - base
<1>0. /\ w \in Nat /\ q \in Nat /\ base \in Nat /\ e \in Nat /\ conn \in Conns
      /\ published \in Nat
  BY GaplessTypes, EventsAreNaturals
<1>1. Served /\ base < e /\ e <= published
  BY DEF UnderwayKnown
<1>2. StaysOpen /\ ~(LastShown' >= e)
  BY DEF Through, StaysOpen
<1>3. /\ conn' = conn /\ published <= published' /\ Carried'
      /\ SocketKept \/ SocketPumped \/ SocketReceived
  BY <1>1, <1>2, KeptServed, SocketSteps
<1>4. /\ Len(queue'[conn]) \in Nat /\ Len(wire'[conn]) \in Nat /\ base' \in Nat
      /\ published' \in Nat
  BY <1>0, <1>3, BoundsAssumption DEF TypeOK
<1>5. Served'
  BY <1>2, <1>3 DEF UnderwayKnown, StaysOpen
<1>6. base' < e
  BY <1>0, <1>1, <1>2, <1>3, <1>4 DEF SocketKept, SocketPumped, SocketReceived
<1>7. Underway(e)'
  BY <1>0, <1>1, <1>3, <1>4, <1>5, <1>6 DEF UnderwayKnown
<1>8. a \in Nat /\ a > 0
  BY <1>0, <1>1
<1>9. StepsTo(e)' = Steps(e - base', Len(wire'[conn]), Len(queue'[conn]), First')
  BY <1>3 DEF StepsTo
<1>10. StepsTo(e) = Steps(a, w, q, First)
  BY DEF StepsTo
<1>11. First \in Nat /\ First' \in Nat /\ First' <= First
  BY <1>3, FirstFalls DEF SocketKept, SocketPumped, SocketReceived
<1> SUFFICES /\ StepsTo(e)' <= StepsTo(e)
             /\ Carries => StepsTo(e)' < StepsTo(e)
  BY <1>7
<1>12. CASE SocketReceived
  <2>1. /\ w > 0 /\ First' = First /\ Len(wire'[conn]) = w - 1 /\ Len(queue'[conn]) = q
        /\ base' = base + 1
    BY <1>3, <1>12 DEF SocketReceived, First
  <2>2. e - base' = a - 1
    BY <1>0, <2>1
  <2>3. StepsTo(e)' = Steps(a - 1, w - 1, q, First)
    BY <1>9, <2>1, <2>2
  <2>4. Steps(a - 1, w - 1, q, First) < Steps(a, w, q, First)
    BY <1>0, <1>8, <1>11, <2>1, StepsReceived
  <2>5. Steps(a, w, q, First) \in Nat /\ Steps(a - 1, w - 1, q, First) \in Nat
    <3>1. a - 1 \in Nat /\ w - 1 \in Nat
      BY <1>0, <1>8, <2>1
    <3> HIDE DEF a, w, q
    <3> QED  BY <1>0, <1>8, <1>11, <3>1, StepsNat
  <2> QED  BY ONLY <1>10, <2>3, <2>4, <2>5
<1>13. CASE SocketPumped
  <2>1. /\ q > 0 /\ First' = First /\ Len(wire'[conn]) = w + 1 /\ Len(queue'[conn]) = q - 1
        /\ base' = base
    BY <1>3, <1>13 DEF SocketPumped, First
  <2>2. StepsTo(e)' = Steps(a, w + 1, q - 1, First)
    BY <1>9, <2>1
  <2>3. /\ StepsTo(e)' <= StepsTo(e)
        /\ w = 0 => StepsTo(e)' < StepsTo(e)
    <3> HIDE DEF a, w, q
    <3>1. /\ Steps(a, w + 1, q - 1, First) <= Steps(a, w, q, First)
          /\ w = 0 /\ a > 0 => Steps(a, w + 1, q - 1, First) < Steps(a, w, q, First)
      BY <1>0, <1>8, <1>11, <2>1, StepsPumped
    <3> QED  BY <1>8, <1>10, <2>2, <3>1
  <2>4. ASSUME Carries PROVE w = 0
    <3>1. ~Receive
      BY <1>0, <1>13 DEF SocketPumped, Receive, handlers
    <3>2. ~SendConnected(conn)
      BY <1>0, <1>13 DEF SocketPumped, SendConnected, network
    <3> QED  BY <2>4, <3>1, <3>2 DEF Carries
  <2> QED  BY <2>3, <2>4
<1>14. CASE SocketKept
  <2>1. /\ Len(wire'[conn]) = w /\ Len(queue'[conn]) >= q /\ base' = base
    BY <1>14 DEF SocketKept
  <2>2. StepsTo(e)' = Steps(a, w, Len(queue'[conn]), First')
    BY <1>9, <2>1
  <2>3. /\ StepsTo(e)' <= StepsTo(e)
        /\ First' < First => StepsTo(e)' < StepsTo(e)
        /\ w = 0 /\ q = 0 /\ Len(queue'[conn]) > 0 => StepsTo(e)' < StepsTo(e)
    <3> DEFINE q2 == Len(queue'[conn])
    <3>1. q2 \in Nat /\ q <= q2
      BY <1>4, <2>1
    <3> HIDE DEF a, w, q, q2
    <3>2. /\ Steps(a, w, q2, First') <= Steps(a, w, q, First)
          /\ First' < First => Steps(a, w, q2, First') < Steps(a, w, q, First)
          /\ w = 0 /\ q = 0 /\ q2 > 0 /\ a > 0 =>
               Steps(a, w, q2, First') < Steps(a, w, q, First)
      BY <1>0, <1>8, <1>11, <3>1, StepsQueued
    <3> QED  BY <1>8, <1>10, <2>2, <3>2 DEF q2
  <2>4. CASE Receive
    <3>1. SocketReceived
      BY <1>1, <2>4, ReceivedOne
    <3> QED  BY <1>0, <2>1, <3>1 DEF SocketReceived
  <2>5. CASE Pump(conn)
    <3>1. SocketPumped
      BY <1>1, <2>5, PumpedOne
    <3> QED  BY <1>0, <2>1, <3>1 DEF SocketPumped
  <2>6. CASE SendConnected(conn)
    <3>1. stage[conn] = "subscribed" /\ stage'[conn'] = "pumping"
      BY <1>0, <1>1, <1>3, <2>6 DEF SendConnected, Served, TypeOK
    <3>2. First = 1 /\ First' = 0
      BY <3>1 DEF First
    <3> QED  BY <2>3, <3>2
  <2>7. CASE wire[conn] = <<>> /\ queue[conn] = <<>> /\ RelayDeliver
    <3>1. w = 0 /\ q = 0
      BY <2>7
    <3>2. Listening(conn) /\ Len(queue[conn]) < QueueSize
      BY <1>1, <3>1, BoundsAssumption DEF Served
    <3>3. queue'[conn] = Append(queue[conn], Head(relayed)) /\ Head(relayed) \in Events
      BY <1>0, <2>7, <3>2, TailFacts DEF RelayDeliver, FanOut, TypeOK
    <3>4. Len(queue'[conn]) = Len(queue[conn]) + 1
      BY <3>3, GaplessTypes, AppendFacts
    <3>5. Len(queue'[conn]) > 0
      BY <3>1, <3>4
    <3> QED  BY <2>3, <3>1, <3>5
  <2> QED  BY <2>3, <2>4, <2>5, <2>6, <2>7 DEF Carries
<1> QED  BY <1>3, <1>12, <1>13, <1>14

\* While an event is on its way, what is next for it can be done.
NeverStuck == \A e \in Events : Underway(e) => CanBeCarried /\ StepsTo(e) \in Nat

\* The part of Delivers that does not depend on fairness: an event on its way to
\* an open page can always be carried on, is some number of steps from being
\* shown that no step of anybody raises, and that each step the event loop owes
\* it brings down, until it is shown or the socket, its link, its queue or its
\* relay has failed.
THEOREM EventsComeThrough ==
  Spec => []NeverStuck /\ [][\A e \in Events : Nearer(e)]_vars
<1> DEFINE Inv == /\ TypeOK /\ RelayInv /\ RelayFollowsListeners /\ NoHandlerYet /\ FeedInv
                  /\ LeakInv /\ GaplessInv /\ DeathsInv
<1>1. Init => Inv
  BY InitTypes, InitRelay, InitFollows, InitNoHandler, InitFeed, InitLeaks, InitGapless, InitDeaths
<1>2. Inv /\ [Next]_vars => Inv'
  BY StepTypes, StepRelay, StepFollows, StepNoHandler, StepFeedInv, StepLeaks, StepGapless,
     StepDeaths
<1>3. Inv => UnderwayKnown
  BY UnderwayIs
<1>4. Inv /\ UnderwayKnown => NeverStuck
  BY UnderwayPossible DEF NeverStuck
<1>5. Inv /\ Inv' /\ UnderwayKnown /\ UnderwayKnown' /\ [Next]_vars => \A e \in Events : Nearer(e)
  <2> SUFFICES ASSUME Inv, Inv', UnderwayKnown, UnderwayKnown', [Next]_vars, NEW e \in Events,
                      Underway(e), ~Through(e)'
               PROVE  /\ Underway(e)' /\ StepsTo(e)' <= StepsTo(e)
                      /\ Carries => StepsTo(e)' < StepsTo(e)
    BY DEF Nearer
  <2> QED  BY NearerStep
<1> QED  BY <1>1, <1>2, <1>3, <1>4, <1>5, PTL DEF Spec

-----------------------------------------------------------------------------
(* Handlers that were lost                                                 *)

\* Whatever was cut, refused or left: a page never has two live connections, and
\* none while it waits for its timer.
OneLiveLink ==
  \A c \in Conns : link[c] = "up" => c = conn /\ sock \in {"connecting", "open"}

\* A handler whose connection is gone, and what it has yet to go through before
\* receive_text can tell it so.
Lost(c) == Listening(c) /\ link[c] # "up"

ToEnd(c) ==
  (IF link[c] = "cut" THEN 1 ELSE 0) + (IF stage[c] = "subscribed" THEN 1 ELSE 0)

NearerEnd(c) ==
  Lost(c) =>
    \/ ~Listening(c)'
    \/ /\ Lost(c)' /\ ToEnd(c)' <= ToEnd(c) /\ ~Disconnect(c)
       /\ ServerNotices(c) \/ SendConnected(c) => ToEnd(c)' < ToEnd(c)

LEMMA InitOneLink == Init => OneLiveLink
  BY DEF Init, OneLiveLink

LEMMA StepOneLink == TypeOK /\ OneLiveLink /\ [Next]_vars => OneLiveLink'
<1> SUFFICES ASSUME TypeOK, OneLiveLink, [Next]_vars PROVE OneLiveLink'
  OBVIOUS
<1>0. link \in [Conns -> {"up", "cut", "closed"}] /\ conn \in Conns
  BY DEF TypeOK
<1>1. CASE UNCHANGED <<link, conn, sock>>
  BY <1>1 DEF OneLiveLink
<1>2. CASE Publish \/ RelaySubscribed \/ RelayDeliver \/ RelayDies \/ Receive \/ TokenExpires
           \/ UNCHANGED vars
  BY <1>1, <1>2 DEF Publish, RelaySubscribed, RelayDeliver, RelayDies, Receive, TokenExpires, vars,
                    network, page
<1>3. CASE Accept
  BY <1>3 DEF Accept, OneLiveLink, network
<1>4. CASE Refuse \/ AttemptFails
  <2>1. link' = [link EXCEPT ![conn] = "closed"]
    BY <1>4 DEF Refuse, AttemptFails
  <2> QED  BY <1>0, <2>1 DEF OneLiveLink
<1>5. CASE PageNotices
  BY <1>5 DEF PageNotices, OneLiveLink, network
<1>6. CASE Retry
  BY <1>0, <1>6 DEF Retry, OneLiveLink
<1>7. CASE Leave
  <2>1. link' = IF link[conn] = "up" THEN [link EXCEPT ![conn] = "closed"] ELSE link
    BY <1>7 DEF Leave
  <2>2. link'[conn] # "up"
    BY <1>0, <2>1
  <2>3. \A c \in Conns : link'[c] = "up" => link[c] = "up"
    BY <1>0, <2>1
  <2> QED  BY <2>2, <2>3 DEF OneLiveLink
<1>8. ASSUME NEW c \in Conns, SendConnected(c) \/ Pump(c) \/ Disconnect(c) PROVE OneLiveLink'
  BY <1>1, <1>8 DEF SendConnected, Pump, Disconnect, network, page
<1>9. ASSUME NEW c \in Conns, Cut(c) \/ ServerNotices(c) PROVE OneLiveLink'
  <2>1. UNCHANGED <<conn, sock>> /\ \A d \in Conns : link'[d] = "up" => link[d] = "up"
    BY <1>0, <1>9 DEF Cut, ServerNotices, page
  <2> QED  BY <2>1 DEF OneLiveLink
<1> QED  BY <1>2, <1>3, <1>4, <1>5, <1>6, <1>7, <1>8, <1>9 DEF Next

\* What a step can do to a handler that is lost.
LEMMA LostStep ==
  ASSUME TypeOK, NoHandlerYet, [Next]_vars, NEW c \in Conns, Lost(c)
  PROVE  NearerEnd(c)
<1>0. /\ link \in [Conns -> {"up", "cut", "closed"}] /\ conn \in Conns
      /\ stage \in [Conns -> {"free", "subscribed", "pumping"}]
      /\ stage[c] # "free" /\ link[c] # "up"
  BY DEF TypeOK, Lost, Listening
<1>1. CASE /\ stage'[c] = stage[c] \/ stage'[c] = "pumping"
           /\ link'[c] = link[c] \/ link'[c] = "closed"
           /\ ~ServerNotices(c) /\ ~SendConnected(c) /\ ~Disconnect(c)
  BY <1>0, <1>1 DEF NearerEnd, Lost, Listening, ToEnd
<1>2. CASE ServerNotices(c)
  <2>1. link[c] = "cut" /\ link'[c] = "closed" /\ stage'[c] = stage[c]
    BY <1>0, <1>2 DEF ServerNotices, handlers
  <2>2. ~Disconnect(c)
    BY <2>1 DEF Disconnect
  <2> QED  BY <1>0, <2>1, <2>2 DEF NearerEnd, Lost, Listening, ToEnd
<1>3. CASE SendConnected(c)
  <2>1. stage[c] = "subscribed" /\ link'[c] = link[c]
    BY <1>3 DEF SendConnected, network
  <2>2. CASE link[c] = "closed"
    BY <1>0, <1>3, <2>2 DEF SendConnected, End, NearerEnd, Listening
  <2>3. CASE link[c] # "closed"
    <3>1. stage'[c] = "pumping" /\ ~Disconnect(c)
      BY <1>0, <1>3, <2>1, <2>3 DEF SendConnected, Disconnect
    <3> QED  BY <1>0, <2>1, <3>1 DEF NearerEnd, Lost, Listening, ToEnd
  <2> QED  BY <2>2, <2>3
<1>4. CASE Disconnect(c)
  BY <1>0, <1>4 DEF Disconnect, End, NearerEnd, Listening
<1>5. CASE ~ServerNotices(c) /\ ~SendConnected(c) /\ ~Disconnect(c)
  <2>1. stage'[c] = stage[c] \/ stage'[c] = "pumping"
    <3>1. CASE Accept
      <4>1. c # conn
        BY <1>0, <3>1 DEF Accept, NoHandlerYet, Listening
      <4> QED  BY <1>0, <3>1, <4>1 DEF Accept
    <3>2. ASSUME NEW d \in Conns, SendConnected(d) \/ Disconnect(d) PROVE stage'[c] = stage[c]
      BY <1>0, <1>5, <3>2 DEF SendConnected, Disconnect, End
    <3> QED  BY <3>1, <3>2 DEF Next, Publish, RelaySubscribed, RelayDeliver, RelayDies, Refuse, Pump,
                Cut, ServerNotices, AttemptFails, Receive, PageNotices, Retry, Leave, TokenExpires,
                vars, handlers
  <2>2. link'[c] = link[c] \/ link'[c] = "closed"
    <3>1. ASSUME NEW d \in Conns, Cut(d) \/ ServerNotices(d) PROVE link'[c] = link[c]
      BY <1>0, <1>5, <3>1 DEF Cut, ServerNotices
    <3>2. CASE Retry
      BY <1>0, <3>2 DEF Retry, Listening
    <3>3. CASE Refuse \/ AttemptFails \/ Leave
      BY <1>0, <3>3 DEF Refuse, AttemptFails, Leave
    <3> QED  BY <3>1, <3>2, <3>3 DEF Next, Publish, RelaySubscribed, RelayDeliver, RelayDies, Accept,
                SendConnected, Pump, Disconnect, Receive, PageNotices, TokenExpires, vars, network
  <2> QED  BY <1>1, <1>5, <2>1, <2>2
<1> QED  BY <1>2, <1>3, <1>4, <1>5

\* The part of ReconnectsWhileFresh that does not depend on fairness: a page that
\* waits has no live connection, so whatever handlers there are have lost
\* theirs, and each of those is a number of steps from its end that no step
\* raises, what the server owes it brings down, and no reconnection revives.
THEOREM LostHandlersEnd ==
  Spec => []OneLiveLink /\ [][\A c \in Conns : NearerEnd(c)]_vars
<1>1. Init => TypeOK /\ RelayInv /\ NoHandlerYet /\ OneLiveLink
  BY InitTypes, InitRelay, InitNoHandler, InitOneLink
<1>2. TypeOK /\ RelayInv /\ NoHandlerYet /\ OneLiveLink /\ [Next]_vars
        => (TypeOK /\ RelayInv /\ NoHandlerYet /\ OneLiveLink)'
  BY StepTypes, StepRelay, StepNoHandler, StepOneLink
<1>3. TypeOK /\ NoHandlerYet /\ [Next]_vars => \A c \in Conns : NearerEnd(c)
  BY LostStep DEF NearerEnd
<1> QED  BY <1>1, <1>2, <1>3, PTL DEF Spec
=============================================================================
