---------------------------- MODULE EventStream ----------------------------
(***************************************************************************)
(* The event stream: the daemon's socket handler (http.rs, handle_socket   *)
(* to live_loop), the broadcast it follows (runtime.rs, emit), and the     *)
(* reconnecting client of apps/ui/src/daemon/client.ts, subscribe and      *)
(* subscribeAll.  One subscriber: of one run, or of all; the one of all is *)
(* the app (App.tsx), which folds what it gets into its view (fold.ts).    *)
(***************************************************************************)
EXTENDS Naturals, Sequences, FiniteSets

CONSTANTS
    None,
    Runs,
    Subscriptions, \* what the subscriber may ask for: a run, or None for all,
                   \* and a seq to start from, 0 for all
    Capacity,    \* EVENT_BUS_CAPACITY
    MaxRetries,  \* SUBSCRIBE_MAX_RETRIES
    MaxFrames,   \* bound: frames a socket buffers
    MaxEvents,   \* bound: events of one run
    MaxDrops     \* bound: lost connections and dead daemons

(* None is no value of its own: no run, no seq, no event, no receiver. *)
ASSUME NoneAssumption ==
    None \notin Runs \cup Nat \cup [run : Runs, seq : Nat]
                \cup [queue : Seq([run : Runs, seq : Nat]), lagged : BOOLEAN]
ASSUME SubscriberAssumption ==
    Subscriptions \subseteq [run : Runs, from : Nat] \cup {[run |-> None, from |-> 0]}
ASSUME StreamBoundsAssumption ==
    /\ Capacity \in Nat \ {0} /\ MaxFrames \in Nat \ {0} /\ MaxRetries \in Nat
    /\ MaxEvents \in Nat /\ MaxDrops \in Nat

VARIABLES
    log,      \* run |-> how many events its Log has; their seqs are 0, 1, ...
    unsent,   \* the event that is in the Log and not broadcast yet, or None
    rx,       \* the handler's receiver, or None
    server,   \* the handler of the current connection
    wire,     \* frames sent and not received
    client,
    shown,    \* run |-> seqs of the events in the app's view of it
    \* observers: nothing in the code reads them
    stream,   \* run |-> seqs received: ever, or in this connection (see Anew)
    drops     \* connections lost and daemons dead so far

vars == <<log, unsent, rx, server, wire, client, shown, stream, drops>>

Option(S) == S \cup {None}
Seqs == 0 .. MaxEvents
EventFrame(r, n) == [op |-> "event", run |-> r, seq |-> n]
CaughtUpFrame(r, n) == [op |-> "caught_up", run |-> r, seq |-> n]

NoReceiver == None
Receiver == [queue |-> <<>>, lagged |-> FALSE]

Gone == [pc |-> "gone", only |-> None, from |-> 0, runs |-> {}, todo |-> <<>>,
         last_sent |-> [r \in Runs |-> None]]

Init ==
    /\ log = [r \in Runs |-> 0]
    /\ unsent = None
    /\ rx = NoReceiver /\ server = Gone /\ wire = <<>>
    /\ \E s \in Subscriptions :
         client = [asked |-> s, pc |-> "connecting", resume |-> s.from, observed |-> None, attempt |-> 0]
    /\ shown = [r \in Runs |-> <<>>]
    /\ stream = [r \in Runs |-> <<>>]
    /\ drops = 0

-----------------------------------------------------------------------------
(* emit: the event is in the Log before it is on the bus.  The runtime is
   locked meanwhile, so there is one such event at a time. *)

AppendEvent(r) ==
    /\ unsent = None
    /\ log[r] < MaxEvents
    /\ log' = [log EXCEPT ![r] = @ + 1]
    /\ unsent' = [run |-> r, seq |-> log[r]]
    /\ UNCHANGED <<rx, server, wire, client, stream, shown, drops>>

(* A receiver that is `Capacity` events behind loses the oldest one, and will
   be told so; the handler reads nothing else from it then. *)
Broadcast ==
    /\ unsent # None
    /\ unsent' = None
    /\ rx' = IF rx = NoReceiver THEN rx
             ELSE IF rx.lagged \/ Len(rx.queue) = Capacity
                  THEN [queue |-> <<>>, lagged |-> TRUE]
                  ELSE [rx EXCEPT !.queue = Append(@, unsent)]
    /\ UNCHANGED <<log, server, wire, client, stream, shown, drops>>

-----------------------------------------------------------------------------
(* The handler.  It subscribes to the bus, then reads the backlog, so that no
   event falls between the two; what comes twice it leaves out. *)

HangUp == server' = Gone /\ rx' = NoReceiver

SubscribeToBus ==
    /\ server.pc = "accepted"
    /\ rx' = Receiver
    /\ server' = IF server.only = None THEN [server EXCEPT !.pc = "list"]
                 ELSE [server EXCEPT !.pc = "backlog", !.runs = {server.only}]
    /\ UNCHANGED <<log, unsent, wire, client, stream, shown, drops>>

ListRuns ==
    /\ server.pc = "list"
    /\ server' = [server EXCEPT !.pc = "backlog", !.runs = {r \in Runs : log[r] > 0}]
    /\ UNCHANGED <<log, unsent, rx, wire, client, stream, shown, drops>>

(* One query for the events of one run, then the frame that ends them. *)
BacklogOf(r, from) == [i \in 1 .. (IF log[r] > from THEN log[r] - from ELSE 0) |-> EventFrame(r, from + i - 1)]

LastOf(r, from) == IF log[r] > from THEN log[r] - 1 ELSE IF from = 0 THEN 0 ELSE from - 1

(* Faulty variant (see README, "Sensitivity"): the end is announced first. *)
ReadBacklogEndFirst(r) ==
    /\ server.pc = "backlog" /\ server.todo = <<>>
    /\ r \in server.runs
    /\ server' = [server EXCEPT
         !.runs = @ \ {r},
         !.todo = <<CaughtUpFrame(r, LastOf(r, server.from))>> \o BacklogOf(r, server.from)]
    /\ UNCHANGED <<log, unsent, rx, wire, client, stream, shown, drops>>

ReadBacklog(r) ==
    /\ server.pc = "backlog" /\ server.todo = <<>>
    /\ r \in server.runs
    /\ server' = [server EXCEPT
         !.runs = @ \ {r},
         !.todo = Append(BacklogOf(r, server.from), CaughtUpFrame(r, LastOf(r, server.from)))]
    /\ UNCHANGED <<log, unsent, rx, wire, client, stream, shown, drops>>

SendFrame ==
    /\ server.todo # <<>>
    /\ Len(wire) < MaxFrames
    /\ LET frame == Head(server.todo) IN
         /\ wire' = Append(wire, frame)
         /\ server' = [server EXCEPT
              !.todo = Tail(@),
              !.last_sent = IF frame.op = "event" THEN [@ EXCEPT ![frame.run] = frame.seq] ELSE @]
    /\ UNCHANGED <<log, unsent, rx, client, stream, shown, drops>>

(* Faulty variant: the bus is followed from the end of the backlog. *)
GoLiveResubscribed ==
    /\ server.pc = "backlog" /\ server.todo = <<>> /\ server.runs = {}
    /\ server' = [server EXCEPT !.pc = "live"]
    /\ rx' = Receiver
    /\ UNCHANGED <<log, unsent, wire, client, stream, shown, drops>>

GoLive ==
    /\ server.pc = "backlog" /\ server.todo = <<>> /\ server.runs = {}
    /\ server' = [server EXCEPT !.pc = "live"]
    /\ UNCHANGED <<log, unsent, rx, wire, client, stream, shown, drops>>

(* What live_loop passes on. *)
Wanted(event) ==
    /\ event.seq >= server.from
    /\ server.only \in {None, event.run}
    /\ server.last_sent[event.run] # None => event.seq > server.last_sent[event.run]

LiveEvent ==
    /\ server.pc = "live" /\ server.todo = <<>>
    /\ ~rx.lagged /\ rx.queue # <<>>
    /\ LET event == Head(rx.queue) IN
         server' = IF Wanted(event)
                   THEN [server EXCEPT !.todo = <<EventFrame(event.run, event.seq)>>]
                   ELSE server
    /\ rx' = [rx EXCEPT !.queue = Tail(@)]
    /\ UNCHANGED <<log, unsent, wire, client, stream, shown, drops>>

(* Faulty variant: it goes on with what comes next. *)
LiveLaggedIgnored ==
    /\ server.pc = "live" /\ server.todo = <<>>
    /\ rx.lagged
    /\ rx' = [rx EXCEPT !.lagged = FALSE]
    /\ UNCHANGED <<log, unsent, server, wire, client, stream, shown, drops>>

(* A handler that was left behind ends the connection. *)
LiveLagged ==
    /\ server.pc = "live" /\ server.todo = <<>>
    /\ rx.lagged
    /\ HangUp
    /\ UNCHANGED <<log, unsent, wire, client, stream, shown, drops>>

(* The connection is lost, or a query of the handler fails. *)
Drop ==
    /\ server.pc # "gone" /\ drops < MaxDrops
    /\ drops' = drops + 1
    /\ HangUp
    /\ UNCHANGED <<log, unsent, wire, client, stream, shown>>

(* The daemon dies, perhaps between the Log and the bus. *)
Crash ==
    /\ unsent # None /\ drops < MaxDrops
    /\ drops' = drops + 1
    /\ unsent' = None
    /\ HangUp
    /\ UNCHANGED <<log, wire, client, stream, shown>>

-----------------------------------------------------------------------------
(* The client.  Frames that were sent before a connection broke may still
   arrive, or not. *)

(* ws.onclose: wait for another attempt, or give up. *)
AfterClose(c) ==
    IF c.attempt >= MaxRetries THEN [c EXCEPT !.pc = "gave_up"]
    ELSE [c EXCEPT !.pc = "waiting", !.attempt = @ + 1]

FollowsAll == client.asked.run = None

(* What is counted anew with a connection: subscribeAll() starts over. *)
Anew == IF FollowsAll THEN [r \in Runs |-> <<>>] ELSE stream

Open ==
    /\ client.pc = "connecting"
    /\ client' = [client EXCEPT !.pc = "open", !.attempt = 0]
    /\ server' = [Gone EXCEPT !.pc = "accepted", !.only = client.asked.run, !.from = client.resume]
    /\ stream' = Anew
    /\ UNCHANGED <<log, unsent, rx, wire, shown, drops>>

ConnectFails ==
    /\ client.pc = "connecting"
    /\ client' = AfterClose(client)
    /\ UNCHANGED <<log, unsent, rx, server, wire, stream, shown, drops>>

(* applyEvent (fold.ts): what a run's view has already is left out, and its
   events are kept by seq. *)

(* sort((a, b) => a.seq - b.seq): the place of each is after all that are less
   and all that are equal and come before it. *)
Place(seqs, i) ==
    Cardinality({j \in DOMAIN seqs : seqs[j] < seqs[i] \/ (seqs[j] = seqs[i] /\ j <= i)})

BySeq(seqs) == [k \in DOMAIN seqs |-> seqs[CHOOSE i \in DOMAIN seqs : Place(seqs, i) = k]]

(* Faulty variant: what comes again is folded again. *)
FoldedAgain(view, n) == BySeq(Append(view, n))

Folded(view, n) ==
    IF \E i \in DOMAIN view : view[i] = n THEN view ELSE BySeq(Append(view, n))

OnMessage ==
    /\ client.pc = "open" /\ wire # <<>>
    /\ wire' = Tail(wire)
    /\ LET frame == Head(wire) IN
         IF frame.op = "event"
         THEN /\ stream' = [stream EXCEPT ![frame.run] = Append(@, frame.seq)]
              /\ IF FollowsAll
                 THEN /\ shown' = [shown EXCEPT ![frame.run] = Folded(@, frame.seq)]
                      /\ UNCHANGED client
                 ELSE /\ client' = [client EXCEPT !.observed = frame.seq]
                      /\ UNCHANGED shown
         ELSE UNCHANGED <<stream, shown, client>>
    /\ UNCHANGED <<log, unsent, rx, server, drops>>

OnClose ==
    /\ client.pc = "open" /\ server.pc = "gone"
    /\ client' = AfterClose(client)
    /\ wire' = <<>>
    /\ UNCHANGED <<log, unsent, rx, server, stream, shown, drops>>

(* Faulty variant: one event too far: the last one seen, again. *)
NextFromSeqInclusive ==
    IF FollowsAll THEN 0 ELSE IF client.observed = None THEN client.asked.from ELSE client.observed

(* nextFromSeq *)
NextFromSeq ==
    IF FollowsAll THEN 0 ELSE IF client.observed = None THEN client.asked.from ELSE client.observed + 1

Reconnect ==
    /\ client.pc = "waiting"
    /\ client' = [client EXCEPT !.pc = "connecting", !.resume = NextFromSeq]
    /\ UNCHANGED <<log, unsent, rx, server, wire, stream, shown, drops>>

Unsubscribe ==
    /\ client.pc \in {"connecting", "open", "waiting"}
    /\ client' = [client EXCEPT !.pc = "stopped"]
    /\ HangUp
    /\ wire' = <<>>
    /\ UNCHANGED <<log, unsent, stream, shown, drops>>

(* The app gets another client: other settings, or a click on "reconnect".  The
   effect of the old one is cleaned up, the view begins empty, and (when hello
   has answered) the new one subscribes.  Counted as a lost connection. *)
ChangeClient ==
    /\ FollowsAll /\ drops < MaxDrops
    /\ drops' = drops + 1
    /\ HangUp /\ wire' = <<>>
    /\ client' = [client EXCEPT !.pc = "connecting", !.attempt = 0]
    /\ shown' = [r \in Runs |-> <<>>]
    /\ stream' = Anew
    /\ UNCHANGED <<log, unsent>>

-----------------------------------------------------------------------------
Handler ==
    \/ SubscribeToBus \/ ListRuns \/ (\E r \in Runs : ReadBacklog(r)) \/ SendFrame
    \/ GoLive \/ LiveEvent \/ LiveLagged

Client == OnMessage \/ OnClose \/ Reconnect

Next ==
    \/ \E r \in Runs : AppendEvent(r)
    \/ Broadcast
    \/ Handler
    \/ Drop \/ Crash
    \/ Open \/ ConnectFails
    \/ Client
    \/ Unsubscribe \/ ChangeClient

Spec == Init /\ [][Next]_vars

(* Tasks of the daemon are polled, a connection attempt ends one way or the
   other, timers fire, and what arrives is handled. *)
Fairness ==
    /\ WF_vars(Broadcast)
    /\ WF_vars(Handler)
    /\ WF_vars(Open \/ ConnectFails)
    /\ WF_vars(OnMessage)
    /\ WF_vars(OnClose)
    /\ WF_vars(Reconnect)

FairSpec == Spec /\ Fairness

-----------------------------------------------------------------------------
(* Safety: a subscriber gets the events of a run from the one it asked for on,
   each once, in their order, with none left out: over all reconnections when
   it follows one run, in every connection when it follows all ("先订广播再读
   backlog", http.rs:308; "resuming from the last seq actually observed",
   client.ts:115). *)
NothingMissedNothingTwice ==
    \A r \in Runs : stream[r] = [i \in 1 .. Len(stream[r]) |-> client.asked.from + i - 1]

(* Safety: the app's view holds the events of a run from the first on, each
   once, and all that this connection brought, although every reconnection
   brings them all again from 0 (fold.ts:233; client.ts:390). *)
ViewFoldsOnce ==
    FollowsAll => \A r \in Runs :
        /\ shown[r] = [i \in 1 .. Len(shown[r]) |-> i - 1]
        /\ Len(stream[r]) <= Len(shown[r]) /\ Len(shown[r]) <= log[r]

(* Refinement: whatever connections are lost, whatever the bus and the sockets
   drop, the subscriber is a reader that moves along the Logs: each step brings
   it the next event of a run, or none, and nothing takes one back but a new
   connection of the app ("never from the start, and never by polling",
   client.ts:117). *)
Sub == INSTANCE Subscription WITH asked <- client.asked, got <- stream, view <- shown
MovesAlongTheLog == Sub!Spec

(* Safety: when the end of a backlog is announced with a seq, everything up to
   it was received or is on its way before the announcement.  (A run without
   events is announced as 0, like one with one event.) *)
CaughtUpMeansIt ==
    \A i \in DOMAIN wire :
      wire[i].op = "caught_up" /\ wire[i].seq > 0 =>
        \A n \in client.asked.from .. wire[i].seq :
          \/ \E k \in DOMAIN stream[wire[i].run] : stream[wire[i].run][k] = n
          \/ \E j \in 1 .. i - 1 : wire[j] = EventFrame(wire[i].run, n)

(* Liveness: an event that is in the Log reaches the subscriber, unless the
   client gave up or was told to stop. *)
EveryEventArrives ==
    \A r \in Runs, n \in 0 .. MaxEvents - 1 :
      n < log[r] /\ n >= client.asked.from /\ client.asked.run \in {None, r}
                   ~> \/ \E k \in DOMAIN stream[r] : stream[r][k] = n
                      \/ client.pc \in {"gave_up", "stopped"}

=============================================================================
