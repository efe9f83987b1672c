------------------------------ MODULE Sockets ------------------------------
(***************************************************************************)
(* The events of one room on their way to one page: the broadcaster        *)
(* (realtime.py), the socket handlers (room_socket in api/rooms.py) and    *)
(* the reconnecting socket of the browser (openRoomSocket in api.ts).      *)
(*                                                                         *)
(* A page has one socket at a time; handlers of sockets it has lost may    *)
(* still be running on the server, which has not noticed.  Handlers, their *)
(* sender tasks and the Redis pump take turns on one event loop.           *)
(***************************************************************************)
EXTENDS Naturals, Sequences, FiniteSets

CONSTANTS
  Transports,   \* the broadcasters to start with: "in-process", "redis"
  Conns,        \* bound: handlers running at once
  QueueSize,    \* maxsize of a socket's asyncio.Queue
  MaxEvents,    \* bound: events published
  MaxLeaks      \* bound: lost queues are counted up to this many

ASSUME TransportsAssumption == Transports \subseteq {"in-process", "redis"}
ASSUME ConnsAssumption == Conns # {} /\ IsFiniteSet(Conns)
ASSUME BoundsAssumption ==
  QueueSize \in Nat \ {0} /\ MaxEvents \in Nat /\ MaxLeaks \in Nat \ {0}

VARIABLES
  transport,   \* what get_broadcaster chose
  published,   \* events are numbered from 1 as they are published
  relay,       \* RedisBroadcaster._tasks: the room's _pump
  relayed,     \* what Redis has sent it
  stage,       \* room_socket: not running, subscribed, or pumping
  sender,      \* the pump task of a handler
  queue,       \* its asyncio.Queue
  leaked,      \* queues left in _rooms that nobody reads
  failed,      \* history: sends that raised
  base,        \* history: the last event the open socket has brought, or missed by coming late
  lossy,       \* history: its queue has overflowed, or its relay has died
  link,        \* TCP: up; cut, which the server has not noticed; or closed
  wire,        \* frames on their way to the page
  sock,        \* the page's socket
  conn,        \* the handler it is or was connected to
  shown,       \* history: the events the page has handled
  fresh        \* the access token in the socket's URL has not expired

broadcaster == <<transport, relay, relayed>>
handlers == <<stage, sender, queue, leaked, failed>>
history == <<base, lossy>>
network == <<link, wire>>
page == <<sock, conn, shown, fresh>>
vars == <<published, broadcaster, handlers, history, network, page>>

Events == 1..MaxEvents

\* A handler's queue is in _rooms from subscribe to the end of room_socket.
Listening(c) == stage[c] # "free"

TypeOK ==
  /\ transport \in Transports
  /\ published \in 0..MaxEvents
  /\ relay \in {"none", "starting", "up", "dead"}
  /\ relayed \in Seq(Events)
  /\ stage \in [Conns -> {"free", "subscribed", "pumping"}]
  /\ sender \in [Conns -> {"running", "failed"}]
  /\ queue \in [Conns -> Seq(Events)]
  /\ \A c \in Conns : Len(queue[c]) <= QueueSize
  /\ leaked \in 0..MaxLeaks /\ failed \in 0..MaxLeaks
  /\ base \in 0..MaxEvents
  /\ lossy \in BOOLEAN
  /\ link \in [Conns -> {"up", "cut", "closed"}]
  /\ wire \in [Conns -> Seq(Events)]
  /\ sock \in {"connecting", "open", "waiting", "left"}
  /\ conn \in Conns
  /\ shown \in Seq(Events)
  /\ fresh \in BOOLEAN

\* The page has just been opened, on a server nobody else is connected to.
Init ==
  /\ transport \in Transports
  /\ published = 0
  /\ relay = "none"
  /\ relayed = <<>>
  /\ stage = [c \in Conns |-> "free"]
  /\ sender = [c \in Conns |-> "running"]
  /\ queue = [c \in Conns |-> <<>>]
  /\ leaked = 0 /\ failed = 0
  /\ base = 0
  /\ lossy = FALSE
  /\ conn \in Conns
  /\ link = [c \in Conns |-> IF c = conn THEN "up" ELSE "closed"]
  /\ wire = [c \in Conns |-> <<>>]
  /\ sock = "connecting"
  /\ shown = <<>>
  /\ fresh = TRUE

OneMore(n) == IF n < MaxLeaks THEN n + 1 ELSE n

-----------------------------------------------------------------------------
(* The broadcaster                                                         *)

\* Mutant: the queue has no maxsize.
FanOutUnbounded(e) ==
  /\ queue' = [c \in Conns |-> IF Listening(c) THEN Append(queue[c], e) ELSE queue[c]]
  /\ UNCHANGED lossy

\* Mutant: a handler subscribes after it has sent the connected frame.
FanOutToPumping(e) ==
  /\ queue' = [c \in Conns |->
                IF stage[c] = "pumping" /\ Len(queue[c]) < QueueSize
                THEN Append(queue[c], e) ELSE queue[c]]
  /\ lossy' = (lossy \/ (sock = "open" /\ Len(queue[conn]) >= QueueSize))

\* InProcessBroadcaster.publish: put_nowait on every queue; a full queue
\* keeps what it has and drops the new event.
FanOut(e) ==
  /\ queue' = [c \in Conns |->
                IF Listening(c) /\ Len(queue[c]) < QueueSize
                THEN Append(queue[c], e) ELSE queue[c]]
  /\ lossy' = (lossy \/ (sock = "open" /\ Len(queue[conn]) >= QueueSize))

Publish ==
  /\ published < MaxEvents
  /\ published' = published + 1
  /\ IF transport = "in-process"
     THEN FanOut(published + 1) /\ UNCHANGED relayed
     ELSE /\ relayed' = IF relay = "up" THEN Append(relayed, published + 1) ELSE relayed
          /\ UNCHANGED <<queue, lossy>>
  /\ UNCHANGED <<transport, relay, stage, sender, leaked, failed, base, network, page>>

\* Redis confirms the subscription; what was published before is not sent.
RelaySubscribed ==
  /\ relay = "starting"
  /\ relay' = "up"
  /\ base' = IF sock = "open" THEN published ELSE base
  /\ UNCHANGED <<published, transport, relayed, handlers, lossy, network, page>>

RelayDeliver ==
  /\ relay = "up"
  /\ relayed # <<>>
  /\ FanOut(Head(relayed))
  /\ relayed' = Tail(relayed)
  /\ UNCHANGED <<published, transport, relay, stage, sender, leaked, failed, base,
                 network, page>>

\* The Redis connection is lost: listen() raises and the task is done.
RelayDies ==
  /\ relay \in {"starting", "up"}
  /\ relay' = "dead"
  /\ relayed' = <<>>
  /\ lossy' = (lossy \/ sock = "open")
  /\ UNCHANGED <<published, transport, handlers, base, network, page>>

-----------------------------------------------------------------------------
(* room_socket                                                             *)

\* The handshake: accept, then subscribe, which starts the room's relay if
\* none is running.  Nothing else runs between them.
Accept ==
  /\ sock = "connecting"
  /\ fresh
  /\ stage' = [stage EXCEPT ![conn] = "subscribed"]
  /\ base' = published - Len(relayed)
  /\ lossy' = FALSE
  /\ relay' = IF transport = "redis" /\ relay \in {"none", "dead"} THEN "starting" ELSE relay
  /\ sock' = "open"
  /\ UNCHANGED <<published, transport, relayed, sender, queue, leaked, failed, network,
                 conn, shown, fresh>>

\* 4401: closed before it was accepted.
Refuse ==
  /\ sock = "connecting"
  /\ ~fresh
  /\ sock' = "waiting"
  /\ link' = [link EXCEPT ![conn] = "closed"]
  /\ UNCHANGED <<published, broadcaster, handlers, history, wire, conn, shown, fresh>>

\* room_socket is over: its locals are gone, and c can be the next one.
End(c) ==
  /\ stage' = [stage EXCEPT ![c] = "free"]
  /\ sender' = [sender EXCEPT ![c] = "running"]
  /\ queue' = [queue EXCEPT ![c] = <<>>]

\* Mutant: the sender is not started.
SendConnectedOnly(c) ==
  /\ stage[c] = "subscribed"
  /\ stage' = [stage EXCEPT ![c] = "pumping"]
  /\ sender' = [sender EXCEPT ![c] = "failed"]
  /\ UNCHANGED <<published, broadcaster, queue, leaked, failed, history, network, page>>

\* The connected frame is sent before the sender exists and outside the try: if
\* it raises, the queue stays subscribed.
SendConnected(c) ==
  /\ stage[c] = "subscribed"
  /\ IF link[c] = "closed"
     THEN /\ End(c)
          /\ leaked' = OneMore(leaked)
          /\ failed' = OneMore(failed)
     ELSE /\ stage' = [stage EXCEPT ![c] = "pumping"]
          /\ UNCHANGED <<sender, queue, leaked, failed>>
  /\ UNCHANGED <<published, broadcaster, history, network, page>>

\* Mutant: the event stays in the queue.
PumpKeeping(c) ==
  /\ stage[c] = "pumping"
  /\ sender[c] = "running"
  /\ queue[c] # <<>>
  /\ link[c] = "up"
  /\ Len(wire[c]) < MaxEvents
  /\ wire' = [wire EXCEPT ![c] = Append(@, Head(queue[c]))]
  /\ UNCHANGED <<published, broadcaster, handlers, history, link, page>>

\* One turn of pump(): a send on a closed socket ends the task with its error;
\* on a link only cut, the frame goes nowhere.
Pump(c) ==
  /\ stage[c] = "pumping"
  /\ sender[c] = "running"
  /\ queue[c] # <<>>
  /\ queue' = [queue EXCEPT ![c] = Tail(@)]
  /\ IF link[c] = "closed"
     THEN /\ sender' = [sender EXCEPT ![c] = "failed"]
          /\ failed' = OneMore(failed)
          /\ UNCHANGED wire
     ELSE /\ wire' = IF link[c] = "up" THEN [wire EXCEPT ![c] = Append(@, Head(queue[c]))]
                                       ELSE wire
          /\ UNCHANGED <<sender, failed>>
  /\ UNCHANGED <<published, broadcaster, stage, leaked, history, link, page>>

\* Mutant: the relay is cancelled whoever is left.
UnsubscribeAll(c) == stage[c] # "free" /\ relay' = "none" /\ relayed' = <<>>

\* unsubscribe: the last queue to go cancels the relay.
Unsubscribe(c) ==
  IF leaked > 0 \/ \E d \in Conns \ {c} : Listening(d)
  THEN UNCHANGED <<relay, relayed>>
  ELSE relay' = "none" /\ relayed' = <<>>

\* Mutant: unsubscribe is forgotten.
DisconnectKeeping(c) ==
  /\ stage[c] = "pumping"
  /\ link[c] = "closed"
  /\ End(c)
  /\ leaked' = OneMore(leaked)
  /\ UNCHANGED <<published, broadcaster, failed, history, network, page>>

\* receive_text raises WebSocketDisconnect.  The finally clause awaits the
\* sender: an error it died of is raised again, and unsubscribe is not reached.
Disconnect(c) ==
  /\ stage[c] = "pumping"
  /\ link[c] = "closed"
  /\ End(c)
  /\ IF sender[c] = "failed"
     THEN leaked' = OneMore(leaked) /\ UNCHANGED <<relay, relayed>>
     ELSE Unsubscribe(c) /\ UNCHANGED leaked
  /\ UNCHANGED <<published, transport, failed, history, network, page>>

-----------------------------------------------------------------------------
(* The network                                                             *)

\* What was on the wire is lost.
Cut(c) ==
  /\ link[c] = "up"
  /\ Listening(c)
  /\ link' = [link EXCEPT ![c] = "cut"]
  /\ wire' = [wire EXCEPT ![c] = <<>>]
  /\ UNCHANGED <<published, broadcaster, handlers, history, page>>

\* A ping goes unanswered.
ServerNotices(c) ==
  /\ link[c] = "cut"
  /\ link' = [link EXCEPT ![c] = "closed"]
  /\ UNCHANGED <<published, broadcaster, handlers, history, wire, page>>

\* The server cannot be reached.
AttemptFails ==
  /\ sock = "connecting"
  /\ sock' = "waiting"
  /\ link' = [link EXCEPT ![conn] = "closed"]
  /\ UNCHANGED <<published, broadcaster, handlers, history, wire, conn, shown, fresh>>

-----------------------------------------------------------------------------
(* openRoomSocket                                                          *)

\* What the history variables say is of the open socket only.
ForgetSocket == base' = 0 /\ lossy' = FALSE

Receive ==
  /\ sock = "open"
  /\ wire[conn] # <<>>
  /\ base' = Head(wire[conn])
  /\ shown' = Append(shown, Head(wire[conn]))
  /\ wire' = [wire EXCEPT ![conn] = Tail(@)]
  /\ UNCHANGED <<published, broadcaster, handlers, lossy, link, sock, conn, fresh>>

\* onclose.
PageNotices ==
  /\ sock = "open"
  /\ link[conn] # "up"
  /\ sock' = "waiting"
  /\ ForgetSocket
  /\ UNCHANGED <<published, broadcaster, handlers, network, conn, shown, fresh>>

\* Mutant: a page that has heard nothing yet gives up.
RetryAfterEvents ==
  /\ sock = "waiting"
  /\ shown # <<>>
  /\ \E c \in Conns :
       /\ ~Listening(c)
       /\ conn' = c
       /\ link' = [link EXCEPT ![c] = "up"]
  /\ sock' = "connecting"
  /\ UNCHANGED <<published, broadcaster, handlers, history, wire, shown, fresh>>

\* The backoff timer, with the URL and token the page was opened with.
Retry ==
  /\ sock = "waiting"
  /\ \E c \in Conns :
       /\ ~Listening(c)
       /\ conn' = c
       /\ link' = [link EXCEPT ![c] = "up"]
  /\ sock' = "connecting"
  /\ UNCHANGED <<published, broadcaster, handlers, history, wire, shown, fresh>>

\* The page is closed, or another room is opened.
Leave ==
  /\ sock # "left"
  /\ sock' = "left"
  /\ link' = IF link[conn] = "up" THEN [link EXCEPT ![conn] = "closed"] ELSE link
  /\ wire' = [wire EXCEPT ![conn] = <<>>]
  /\ ForgetSocket
  /\ UNCHANGED <<published, broadcaster, handlers, conn, shown, fresh>>

TokenExpires ==
  /\ fresh
  /\ fresh' = FALSE
  /\ UNCHANGED <<published, broadcaster, handlers, history, network, sock, conn, shown>>

Next ==
  \/ Publish
  \/ RelaySubscribed \/ RelayDeliver \/ RelayDies
  \/ Accept \/ Refuse
  \/ \E c \in Conns : SendConnected(c) \/ Pump(c) \/ Disconnect(c)
  \/ \E c \in Conns : Cut(c) \/ ServerNotices(c)
  \/ AttemptFails
  \/ Receive \/ PageNotices \/ Retry \/ Leave
  \/ TokenExpires

\* The event loop turns, a dead link is noticed at both ends, the timer fires,
\* and a page that keeps trying is let through now and then.
Fairness ==
  /\ WF_vars(RelaySubscribed) /\ WF_vars(RelayDeliver)
  /\ \A c \in Conns : /\ WF_vars(SendConnected(c)) /\ WF_vars(Pump(c))
                      /\ WF_vars(Disconnect(c)) /\ WF_vars(ServerNotices(c))
  /\ WF_vars(Receive) /\ WF_vars(PageNotices) /\ WF_vars(Retry) /\ WF_vars(Refuse)
  /\ SF_vars(Accept)

Spec == Init /\ [][Next]_vars /\ Fairness

-----------------------------------------------------------------------------
(* Properties                                                              *)

LastShown == IF shown = <<>> THEN 0 ELSE shown[Len(shown)]

\* Across reconnections, queues that outlive their page and relays that come
\* and go, the page sees events in the order published and none twice.
Feed == INSTANCE RoomFeed WITH sent <- published, heard <- shown, here <- sock # "left"

FeedSpec == Feed!Spec

\* What is still to come on a connection.
Coming(c) == wire[c] \o queue[c] \o relayed

Carried == transport = "in-process" \/ relay = "up"

\* InProcessBroadcaster, RedisBroadcaster: "Correct whenever there is exactly
\* one API process", "Correct when there is more than one".  An open socket has
\* everything published since its room was subscribed to, in order and without
\* a gap, until its queue overflows or the relay dies.
NoHoles ==
  sock = "open" /\ link[conn] = "up" /\ Carried /\ ~lossy =>
    Coming(conn) = [i \in 1..(published - base) |-> base + i]

\* "One subscriber task per room per process": it is there exactly as long as
\* _rooms has a queue for the room, whoever comes and goes meanwhile.
RelayFollowsListeners ==
  transport = "redis" => (relay = "none" <=> leaked = 0 /\ \A c \in Conns : ~Listening(c))

\* room_socket leaves its queue behind only where a send has raised.
LeaksAreFailedSends == leaked <= failed

\* An event on its way to an open page is shown to it, unless the connection
\* or the relay is lost first.
Delivers ==
  \A e \in Events :
    (sock = "open" /\ \E i \in DOMAIN Coming(conn) : Coming(conn)[i] = e)
      ~> (LastShown >= e \/ sock # "open" \/ lossy)

\* openRoomSocket: one failure does not "leave the room permanently static" as
\* long as the token it started with is good.
ReconnectsWhileFresh == (sock = "waiting") ~> (sock \in {"open", "left"} \/ ~fresh)

\* docs/architecture.md: "A dropped socket reconnects".
Reconnects == (sock = "waiting") ~> (sock \in {"open", "left"})
=============================================================================
