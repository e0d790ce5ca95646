-------------------------------- MODULE Feed --------------------------------
(***************************************************************************)
(* The live feed: the server's event bus, the task that serves one         *)
(* WebSocket, and the two clients that may be at its other end, the TUI    *)
(* with its event loop and the web dashboard with its rings.               *)
(*                                                                         *)
(* A behaviour has one client, chosen at the start: clients share nothing  *)
(* but the bus, which never waits for any of them.  Every channel has one  *)
(* receiver here, so a channel is what its receiver has yet to read, and   *)
(* whether some of it was overwritten first.                               *)
(***************************************************************************)
EXTENDS Naturals, Sequences, FiniteSets, SequencesExt

CONSTANTS
  Key,          \* the kind/entity pairs of events
  BusCap,       \* capacity of the server's broadcast channel (1024)
  WireCap,      \* bound: frames a socket takes before a send has to wait
  EnvelopeCap,  \* capacity of the TUI's channel of envelopes (1024)
  StatusCap,    \* capacity of the TUI's channel of status changes (64)
  RingMax,      \* RING_MAX of the web client (500)
  FailLimit,    \* failed connects in a row that make the status Error (5)
  MaxEvents, MaxBreaks, MaxOutages  \* bounds: events, lost connections, server stops

ASSUME FeedAssumption ==
  /\ {BusCap, WireCap, EnvelopeCap, StatusCap, RingMax, FailLimit} \subseteq Nat \ {0}
  /\ {MaxEvents, MaxBreaks, MaxOutages} \subseteq Nat

VARIABLES
  who,       \* which client this is: never changes
  events,    \* the keys of the events sent on the bus so far; an event is its index
  up,        \* the server accepts connections
  open,      \* the client has a connection that stands
  handler,   \* client_loop of that connection
  rx,        \* its receiver on the bus
  wire,      \* frames sent and not yet read by the client; 0 is the hello
  from,      \* history: how many events had been sent when the hello was
  lost,      \* history: events a channel, a cut or the lack of a reader has dropped
  breaks, outages,
  task, attempt, failures, status, untold,  \* the TUI's WsBus::run
  app, shown, statusRx, envRx, batch,       \* the TUI's event loop
  told,      \* history: a status was announced since the event loop subscribed
  ws, timer, started, sockets, rings, count,  \* the web client
  seen       \* the messages the client has acted on, in order; 0 is a hello

net == <<open, handler, rx, wire, from>>
bounds == <<breaks, outages>>
tuiVars == <<task, attempt, failures, status, untold, app, shown, statusRx, envRx, batch, told>>
webVars == <<ws, timer, started, sockets, rings, count>>
vars == <<who, events, up, net, lost, bounds, tuiVars, webVars, seen>>

Event == 1..MaxEvents
AnyKey == CHOOSE k \in Key : TRUE
Status == {"Connecting", "Connected", "Reconnecting", "Error"}
Empty == [unread |-> <<>>, lagged |-> FALSE]
IsEmpty(ch) == ch = Empty

(* tokio's broadcast as one receiver sees it: a full channel loses the     *)
(* oldest message, and the next recv says Lagged before it goes on.        *)
Push(cap, ch, m) ==
  IF Len(ch.unread) < cap THEN [ch EXCEPT !.unread = Append(@, m)]
  ELSE [unread |-> Append(Tail(ch.unread), m), lagged |-> TRUE]

Overwritten(cap, ch) == IF Len(ch.unread) < cap THEN {} ELSE {Head(ch.unread)}

Init ==
  /\ who \in {"tui", "web"}
  /\ events = <<>> /\ up = TRUE /\ lost = {} /\ breaks = 0 /\ outages = 0 /\ seen = <<>>
  /\ open = FALSE /\ handler = "none" /\ rx = Empty /\ wire = <<>> /\ from = 0
  /\ task = "off" /\ attempt = 0 /\ failures = 0 /\ status = "Connecting" /\ untold = FALSE
  /\ app = "off" /\ shown = "Connecting" /\ statusRx = Empty /\ envRx = Empty
  /\ batch = <<>> /\ told = FALSE
  /\ ws = "null" /\ timer = FALSE /\ started = FALSE /\ sockets = 0
  /\ rings = [k \in Key |-> <<>>] /\ count = [k \in Key |-> 0]

-----------------------------------------------------------------------------
(* The server.                                                             *)

Subscribed == open /\ handler \in {"greeting", "streaming"}

(* Broadcaster::send: never waits, and no subscriber is no error.          *)
Publish(k) ==
  /\ Len(events) < MaxEvents
  /\ who = "tui" => k = AnyKey   \* what QueryCache does with a key is not repeated here
  /\ events' = Append(events, k)
  /\ IF Subscribed
     THEN /\ rx' = Push(BusCap, rx, Len(events'))
          /\ lost' = lost \cup Overwritten(BusCap, rx)
     ELSE UNCHANGED <<rx, lost>>
  /\ UNCHANGED <<who, up, open, handler, wire, from, bounds, tuiVars, webVars, seen>>

(* client_loop subscribes, says hello, then forwards what the bus gives.   *)
Subscribe ==
  /\ open /\ handler = "upgraded"
  /\ handler' = "greeting" /\ rx' = Empty
  /\ UNCHANGED <<wire, from>>

SendHello ==
  /\ open /\ handler = "greeting"
  /\ handler' = "streaming" /\ wire' = Append(wire, 0) /\ from' = Len(events)
  /\ UNCHANGED rx

Forward ==
  /\ open /\ handler = "streaming" /\ Len(wire) < WireCap
  /\ ~rx.lagged /\ rx.unread # <<>>
  /\ wire' = Append(wire, Head(rx.unread)) /\ rx' = [rx EXCEPT !.unread = Tail(@)]
  /\ UNCHANGED <<handler, from>>

(* Mistake: an overrun ends the loop while the socket stays.               *)
LagEndsLoop ==
  /\ open /\ handler = "streaming" /\ rx.lagged
  /\ handler' = "none" /\ UNCHANGED <<rx, wire, from>>

(* An overrun is only logged: the client is not told.                      *)
Lag ==
  /\ open /\ handler = "streaming" /\ rx.lagged
  /\ rx' = [rx EXCEPT !.lagged = FALSE]
  /\ UNCHANGED <<handler, wire, from>>

Serves == Forward \/ Lag

ClientLoop == Subscribe \/ SendHello \/ Serves

Serve ==
  /\ ClientLoop
  /\ UNCHANGED <<who, events, up, open, lost, bounds, tuiVars, webVars, seen>>

(* The connection goes: frames on their way may be lost, and what the      *)
(* handler had not read it never will.                                     *)
Cut ==
  /\ open' = FALSE /\ handler' = "none" /\ rx' = Empty /\ UNCHANGED from
  /\ \E n \in 0..Len(wire) :
       /\ wire' = SubSeq(wire, 1, n)
       /\ lost' = lost \cup (ToSet(SubSeq(wire, n + 1, Len(wire))) \ {0}) \cup ToSet(rx.unread)

Break ==
  /\ open /\ breaks < MaxBreaks /\ breaks' = breaks + 1 /\ Cut
  /\ UNCHANGED <<who, events, up, outages, tuiVars, webVars, seen>>

Stop ==
  /\ up /\ outages < MaxOutages /\ outages' = outages + 1 /\ up' = FALSE
  /\ IF open THEN Cut ELSE UNCHANGED <<net, lost>>
  /\ UNCHANGED <<who, events, breaks, tuiVars, webVars, seen>>

Restart ==
  /\ ~up /\ up' = TRUE
  /\ UNCHANGED <<who, events, net, lost, bounds, tuiVars, webVars, seen>>

(* What a successful connect starts at the server. *)
Accept ==
  /\ up /\ open' = TRUE /\ handler' = "upgraded" /\ rx' = Empty
  /\ wire' = <<>> /\ from' = Len(events)

-----------------------------------------------------------------------------
(* The TUI's WsBus.  set_status writes the status, then announces it.      *)

loopVars == <<app, shown, batch>>
quiet == <<events, up, who, bounds, webVars, seen>>

Start ==
  /\ who = "tui" /\ task = "off" /\ task' = "attempt"
  /\ UNCHANGED <<quiet, net, lost, attempt, failures, status, untold, loopVars, statusRx, envRx, told>>

SetStatus(s) == status' = s /\ untold' = TRUE

Tell ==
  /\ untold /\ untold' = FALSE
  /\ IF app \in {"off", "made"} THEN UNCHANGED <<statusRx, told>>
     ELSE statusRx' = Push(StatusCap, statusRx, status) /\ told' = TRUE
  /\ UNCHANGED <<quiet, net, lost, task, attempt, failures, status, loopVars, envRx>>

Attempt ==
  /\ task = "attempt" /\ ~untold /\ task' = "connect"
  /\ SetStatus(CASE attempt = 0 -> "Connecting"
                 [] attempt # 0 /\ failures >= FailLimit -> "Error"
                 [] OTHER -> "Reconnecting")
  /\ UNCHANGED <<quiet, net, lost, attempt, failures, loopVars, statusRx, envRx, told>>

ConnectOk ==
  /\ task = "connect" /\ ~untold /\ Accept
  /\ SetStatus("Connected") /\ attempt' = 0 /\ failures' = 0 /\ task' = "read"
  /\ UNCHANGED <<quiet, lost, loopVars, statusRx, envRx, told>>

(* Counters saturate here at FailLimit: beyond it they change nothing.     *)
Saturated(n) == IF n < FailLimit THEN n + 1 ELSE n

ConnectFailed ==
  /\ task = "connect" /\ ~untold /\ ~up
  /\ failures' = Saturated(failures) /\ attempt' = Saturated(attempt) /\ task' = "sleep"
  /\ UNCHANGED <<quiet, net, lost, status, untold, loopVars, statusRx, envRx, told>>

Read ==
  /\ task = "read" /\ ~untold /\ wire # <<>> /\ wire' = Tail(wire)
  /\ IF app \in {"off", "made"}
     THEN lost' = lost \cup ({Head(wire)} \ {0}) /\ UNCHANGED envRx
     ELSE /\ envRx' = Push(EnvelopeCap, envRx, Head(wire))
          /\ lost' = lost \cup (Overwritten(EnvelopeCap, envRx) \ {0})
  /\ UNCHANGED <<quiet, open, handler, rx, from, task, attempt, failures, status, untold,
                 loopVars, statusRx, told>>

Ended ==
  /\ task = "read" /\ ~untold /\ wire = <<>> /\ ~open
  /\ task' = "sleep" /\ attempt' = Saturated(attempt)
  /\ UNCHANGED <<quiet, net, lost, failures, status, untold, loopVars, statusRx, envRx, told>>

Wake ==
  /\ task = "sleep" /\ task' = "attempt"
  /\ UNCHANGED <<quiet, net, lost, attempt, failures, status, untold, loopVars, statusRx, envRx, told>>

Run == Tell \/ Attempt \/ ConnectOk \/ ConnectFailed \/ Read \/ Ended \/ Wake

-----------------------------------------------------------------------------
(* The TUI's event loop: wait for one message, then take all there are of  *)
(* each kind before drawing.                                               *)

busVars == <<task, attempt, failures, status, untold>>

(* App::new reads the status; event_loop subscribes to changes later.      *)
AppNew ==
  /\ who = "tui" /\ app = "off" /\ task # "off"
  /\ app' = "made" /\ shown' = status
  /\ UNCHANGED <<quiet, net, lost, busVars, batch, statusRx, envRx, told>>

EventLoop ==
  /\ app = "made" /\ app' = "select" /\ statusRx' = Empty /\ envRx' = Empty
  /\ UNCHANGED <<quiet, net, lost, busVars, shown, batch, told>>

RecvEnvelope ==
  /\ app \in {"select", "drain"} /\ ~IsEmpty(envRx) /\ app' = "drain"
  /\ IF envRx.lagged THEN envRx' = [envRx EXCEPT !.lagged = FALSE] /\ UNCHANGED batch
     ELSE /\ batch' = Append(batch, Head(envRx.unread))
          /\ envRx' = [envRx EXCEPT !.unread = Tail(@)]
  /\ UNCHANGED <<quiet, net, lost, busVars, shown, statusRx, told>>

(* Mistake: an overrun makes the receiver start afresh, without a look at  *)
(* the status.                                                             *)
StatusForgotten ==
  IF statusRx.lagged THEN statusRx' = Empty /\ UNCHANGED shown
  ELSE shown' = Head(statusRx.unread) /\ statusRx' = [statusRx EXCEPT !.unread = Tail(@)]

(* A lagged receiver looks at the status itself, and goes on with what is  *)
(* left.                                                                   *)
StatusTaken ==
  IF statusRx.lagged THEN shown' = status /\ statusRx' = [statusRx EXCEPT !.lagged = FALSE]
  ELSE shown' = Head(statusRx.unread) /\ statusRx' = [statusRx EXCEPT !.unread = Tail(@)]

RecvStatus ==
  /\ app \in {"select", "status"} /\ ~IsEmpty(statusRx) /\ StatusTaken
  /\ app' = IF app = "select" THEN "drain" ELSE app
  /\ UNCHANGED <<quiet, net, lost, busVars, batch, envRx, told>>

(* Mistake: the batch is kept for the next time round.                     *)
DrainedAgain ==
  /\ app = "drain" /\ IsEmpty(envRx) /\ app' = "status"
  /\ seen' = seen \o batch /\ UNCHANGED batch
  /\ UNCHANGED <<events, up, who, bounds, webVars, net, lost, busVars, shown, statusRx, envRx, told>>

(* The batch is acted on as a whole: on_ws_envelopes. *)
Drained ==
  /\ app = "drain" /\ IsEmpty(envRx) /\ app' = "status"
  /\ seen' = seen \o batch /\ batch' = <<>>
  /\ UNCHANGED <<events, up, who, bounds, webVars, net, lost, busVars, shown, statusRx, envRx, told>>

StatusDrained ==
  /\ app = "status" /\ IsEmpty(statusRx) /\ app' = "select"
  /\ UNCHANGED <<quiet, net, lost, busVars, shown, batch, statusRx, envRx, told>>

Loop == AppNew \/ EventLoop \/ RecvEnvelope \/ RecvStatus \/ Drained \/ StatusDrained

-----------------------------------------------------------------------------
(* The web client: one socket, one timer, and a ring for each kind of      *)
(* event.                                                                  *)

webQuiet == <<who, events, up, bounds, tuiVars>>

Connect == ws' = "opening" /\ sockets' = sockets + 1

(* ensureStarted, of whichever hook is mounted first. *)
EnsureStarted ==
  /\ who = "web" /\ ~started /\ started' = TRUE /\ Connect
  /\ UNCHANGED <<webQuiet, net, lost, timer, rings, count, seen>>

OnOpen ==
  /\ ws = "opening" /\ ~open /\ Accept /\ ws' = "open"
  /\ UNCHANGED <<webQuiet, lost, timer, started, sockets, rings, count, seen>>

(* onclose, also of a socket that never opened: onerror only closes.       *)
OnClose ==
  /\ \/ ws = "open" /\ ~open /\ wire = <<>>
     \/ ws = "opening" /\ ~up
  /\ ws' = "null" /\ sockets' = sockets - 1 /\ timer' = TRUE
  /\ UNCHANGED <<webQuiet, net, lost, started, rings, count, seen>>

OnTimer ==
  /\ timer /\ timer' = FALSE /\ Connect
  /\ UNCHANGED <<webQuiet, net, lost, started, rings, count, seen>>

Unshift(ring, e) == SubSeq(<<e>> \o ring, 1, IF Len(ring) < RingMax THEN Len(ring) + 1 ELSE RingMax)

OnMessage ==
  /\ ws = "open" /\ wire # <<>> /\ wire' = Tail(wire)
  /\ LET e == Head(wire) IN
       /\ seen' = Append(seen, e)
       /\ IF e = 0 THEN UNCHANGED <<rings, count>>
          ELSE /\ rings' = [rings EXCEPT ![events[e]] = Unshift(@, e)]
               /\ count' = [count EXCEPT ![events[e]] = @ + 1]
  /\ UNCHANGED <<webQuiet, open, handler, rx, from, lost, ws, timer, started, sockets>>

Web == EnsureStarted \/ OnOpen \/ OnClose \/ OnTimer \/ OnMessage

-----------------------------------------------------------------------------
Next ==
  \/ \E k \in Key : Publish(k)
  \/ Serve \/ Break \/ Stop \/ Restart
  \/ Start \/ Run \/ Loop
  \/ Web

(* The tasks are scheduled, and the server is not off for good; nothing is *)
(* assumed of events, of breaks or of stops.                               *)
Spec == Init /\ [][Next]_vars
        /\ WF_vars(Serve) /\ WF_vars(Restart)
        /\ WF_vars(Start) /\ WF_vars(Run) /\ WF_vars(Loop) /\ WF_vars(Web)

-----------------------------------------------------------------------------
(* Properties.                                                             *)

Message == {0} \cup Event
Channel(cap, m) == [unread : BoundedSeq(m, cap), lagged : BOOLEAN]

ServerTypes ==
  /\ who \in {"tui", "web"} /\ events \in BoundedSeq(Key, MaxEvents) /\ up \in BOOLEAN
  /\ open \in BOOLEAN /\ handler \in {"none", "upgraded", "greeting", "streaming"}
  /\ rx \in Channel(BusCap, Event) /\ wire \in BoundedSeq(Message, WireCap)
  /\ from \in 0..MaxEvents /\ lost \subseteq Event
  /\ breaks \in 0..MaxBreaks /\ outages \in 0..MaxOutages

BusTypes ==
  /\ task \in {"off", "attempt", "connect", "read", "sleep"}
  /\ attempt \in 0..FailLimit /\ failures \in 0..FailLimit
  /\ status \in Status /\ untold \in BOOLEAN

LoopTypes ==
  /\ app \in {"off", "made", "select", "drain", "status"} /\ shown \in Status /\ told \in BOOLEAN
  /\ statusRx \in Channel(StatusCap, Status) /\ envRx \in Channel(EnvelopeCap, Message)
  /\ batch \in Seq(Message) /\ seen \in Seq(Message)

WebTypes ==
  /\ ws \in {"null", "opening", "open"} /\ timer \in BOOLEAN /\ started \in BOOLEAN
  /\ sockets \in 0..1
  /\ rings \in [Key -> BoundedSeq(Event, RingMax)] /\ count \in [Key -> 0..MaxEvents]

TypeOK == ServerTypes /\ BusTypes /\ LoopTypes /\ WebTypes

(* What was acted on and what is still to come, from one end of the feed   *)
(* to the other.                                                           *)
Stream == seen \o batch \o envRx.unread \o wire \o rx.unread

Ordered(q) ==
  \A i, j \in 1..Len(q) : i < j /\ q[i] # 0 /\ q[j] # 0 => q[i] < q[j]

(* A client acts on events in the order they were sent and on none twice,  *)
(* whatever was lost and however often it had to connect again; and what   *)
(* it has yet to be handed follows, in order too.                          *)
InOrder == Ordered(Stream) /\ ToSet(Stream) \subseteq 0..Len(events)

(* From the hello on, no event goes missing unnoticed: each one sent since *)
(* is on its way, was acted on, or fell to an overrun, a cut or a reader   *)
(* that was not there yet.                                                 *)
NoSilentGap ==
  open /\ handler = "streaming" => (from + 1)..Len(events) \subseteq ToSet(Stream) \cup lost

(* When the event loop waits with no change of status on its way, the dot  *)
(* shows the bus's status, if one was announced since it subscribed.       *)
StatusFollows ==
  app = "select" /\ IsEmpty(statusRx) /\ told /\ ~untold => shown = status

(* The web client never holds two sockets, nor one while a timer is about  *)
(* to open another.                                                        *)
OneSocket == sockets <= 1 /\ ~(timer /\ sockets # 0) /\ (ws = "null" <=> sockets = 0)

(* A ring holds the newest events of its kind that arrived, newest first,  *)
(* and its count says how many there were in all.                          *)
Arrived(k) == {e \in ToSet(seen) \ {0} : events[e] = k}

RingExact(k) ==
  /\ count[k] = Cardinality(Arrived(k))
  /\ Len(rings[k]) = IF count[k] < RingMax THEN count[k] ELSE RingMax
  /\ ToSet(rings[k]) \subseteq Arrived(k)
  /\ \A i, j \in 1..Len(rings[k]) : i < j => rings[k][j] < rings[k][i]
  /\ \A e \in Arrived(k) \ ToSet(rings[k]), f \in ToSet(rings[k]) : e < f

RingsExact == who = "web" => \A k \in Key : RingExact(k)

(* What arrives is all there is, in order, but for what is known lost.     *)
ArrivesWhole == TypeOK /\ InOrder /\ NoSilentGap /\ RingsExact

(* A client is connected once at most, and shows whether it is.            *)
OneConnection == StatusFollows /\ OneSocket

(* Why they hold.  A client is of one kind; nothing waits for a loop that  *)
(* has not begun, nor in a socket whose handler has yet to speak; the last *)
(* change of status on its way is the status; and the web client has a     *)
(* socket, or a timer, or has not started.                                 *)
OneKind ==
  IF who = "web" THEN task = "off" /\ app = "off" /\ batch = <<>>
  ELSE ~started /\ ws = "null" /\ ~timer

NotBegun ==
  /\ app \in {"off", "made"} => envRx.unread = <<>> /\ ~told
  /\ handler \in {"upgraded", "greeting"} => wire = <<>>

StatusComes ==
  told /\ ~untold =>
    status = IF statusRx.unread = <<>> THEN shown ELSE Last(statusRx.unread)

SocketOrTimer ==
  /\ ws = "null" <=> sockets = 0
  /\ timer => sockets = 0
  /\ ~started => sockets = 0 /\ ~timer

Flows == ArrivesWhole /\ OneKind /\ NotBegun /\ StatusComes /\ SocketOrTimer

(* An event the handler has received is in the end acted on or lost to a   *)
(* named cause: no message waits for ever in a channel.                    *)
Delivered ==
  \A e \in Event : e \in ToSet(rx.unread) ~> e \in ToSet(seen) \cup lost

(* Once started, a client that loses its connection gets another one.      *)
Reconnects == ((task # "off" \/ started) /\ ~open) ~> open

(* The feed never comes to rest with something left to do.                 *)
KeepsFlowing == Delivered /\ Reconnects
=============================================================================
