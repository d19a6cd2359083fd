------------------------- MODULE EventStreamProofs -------------------------
(***************************************************************************)
(* A subscriber gets every event once and in order, and is told the truth  *)
(* about the end of a backlog: for any number of runs and events, any      *)
(* capacity of the bus and of the socket, any reconnections, lost          *)
(* connections and deaths of the daemon.                                   *)
(*                                                                         *)
(* The invariant follows an event of a run from the Log to the client.     *)
(* What the client has ends before Due(r); from there on the Pipe, sent or *)
(* about to be sent, goes on without a gap; and what is in the Log and not *)
(* in the Pipe waits on the bus, once the backlog of the run was read.     *)
(* The view folds what arrives: a sort by seq of what has no repetition.   *)
(***************************************************************************)
EXTENDS EventStream, SequenceTheorems, FiniteSetTheorems, TLAPS

Events == [run : Runs, seq : Nat]
Frames == [op : {"event", "caught_up"}, run : Runs, seq : Nat]

StreamTypes ==
    /\ log \in [Runs -> Nat]
    /\ unsent \in Option(Events)
    /\ rx \in Option([queue : Seq(Events), lagged : BOOLEAN])
    /\ server \in [pc : {"gone", "accepted", "list", "backlog", "live"},
                   only : Option(Runs), from : Nat, runs : SUBSET Runs, todo : Seq(Frames),
                   last_sent : [Runs -> Option(Nat)]]
    /\ wire \in Seq(Frames)
    /\ client \in [asked : Subscriptions,
                   pc : {"connecting", "open", "waiting", "gave_up", "stopped"},
                   resume : Nat, observed : Option(Nat), attempt : Nat]
    /\ stream \in [Runs -> Seq(Nat)]

(* The seq the client is due, and the frames on their way to it. *)
Due(r) == client.asked.from + Len(stream[r])
Pipe == wire \o server.todo
InPipe(r, n) == \E i \in 1 .. Len(Pipe) : Pipe[i] = EventFrame(r, n)
InWire(r, n) == \E i \in 1 .. Len(wire) : wire[i] = EventFrame(r, n)
OnBus(r, n) ==
    \/ \E j \in 1 .. Len(rx.queue) : rx.queue[j] = [run |-> r, seq |-> n]
    \/ unsent = [run |-> r, seq |-> n]
Asked(r) == client.asked.run \in {None, r}

(* The two ends of a connection. *)
Connected ==
    /\ client.pc # "open" => wire = <<>> /\ server.pc = "gone"
    /\ server.pc = "gone" => server.todo = <<>> /\ rx = None
    /\ server.pc # "gone" => server.only = client.asked.run /\ (\A r \in server.runs : Asked(r))
    /\ server.pc \in {"list", "backlog", "live"} => rx # None
    /\ server.pc \in {"accepted", "list"} => wire = <<>> /\ server.todo = <<>>
    /\ server.pc = "list" => FollowsAll
    /\ server.pc = "live" => server.runs = {}
    /\ FollowsAll => client.resume = 0
    /\ ~FollowsAll =>
         /\ client.observed = IF stream[client.asked.run] = <<>> THEN None
                              ELSE Due(client.asked.run) - 1
         /\ client.pc = "connecting" => client.resume = Due(client.asked.run)

(* What the client has, and what it never gets. *)
Received ==
    \A r \in Runs :
      /\ \A i \in 1 .. Len(stream[r]) : stream[r][i] = client.asked.from + i - 1
      /\ ~Asked(r) => stream[r] = <<>> /\ \A n \in Nat : ~InPipe(r, n)

(* The frames on their way go on from there, each after its predecessor. *)
InOrder ==
    \A i \in 1 .. Len(Pipe) : Pipe[i].op = "event" =>
      /\ Pipe[i].seq >= Due(Pipe[i].run)
      /\ Pipe[i].seq # Due(Pipe[i].run) =>
           \E j \in 1 .. i - 1 : Pipe[j] = EventFrame(Pipe[i].run, Pipe[i].seq - 1)
      /\ \A j \in 1 .. i - 1 :
           Pipe[j].op = "event" /\ Pipe[j].run = Pipe[i].run => Pipe[j].seq < Pipe[i].seq

(* What the handler believes to have sent. *)
SentSoFar ==
    server.pc # "gone" => \A r \in Runs :
      /\ Asked(r) => server.from <= Due(r)
      /\ server.last_sent[r] = None =>
           /\ \A n \in Nat : ~InWire(r, n)
           /\ Asked(r) => Due(r) = server.from
      /\ server.last_sent[r] # None =>
           /\ Due(r) <= server.last_sent[r] + 1
           /\ \A n \in Nat : InWire(r, n) => n <= server.last_sent[r]
           /\ \A n \in Nat : Due(r) <= n /\ n <= server.last_sent[r] => InWire(r, n)

(* A run whose backlog is not read has nothing on its way. *)
Unread(r) == server.pc \in {"accepted", "list"} \/ (server.pc = "backlog" /\ r \in server.runs)
NothingUnread ==
    \A r \in Runs : Unread(r) => server.last_sent[r] = None /\ \A n \in Nat : ~InPipe(r, n)

(* What follows is on the bus, in order, for a handler that was not left
   behind. *)
Following == rx # None /\ ~rx.lagged
BusInOrder ==
    /\ unsent # None => log[unsent.run] = unsent.seq + 1
    /\ Following => \A j \in 1 .. Len(rx.queue) :
         /\ rx.queue[j].seq < log[rx.queue[j].run]
         /\ unsent # None /\ unsent.run = rx.queue[j].run => rx.queue[j].seq < unsent.seq
         /\ \A i \in 1 .. j - 1 : rx.queue[i].run = rx.queue[j].run => rx.queue[i].seq < rx.queue[j].seq
NothingLost ==
    Following => \A r \in Runs :
      server.pc \in {"backlog", "live"} /\ r \notin server.runs /\ Asked(r) =>
        \A n \in Nat : Due(r) <= n /\ n < log[r] => InPipe(r, n) \/ OnBus(r, n)

(* The end of a backlog comes after the backlog. *)
Announced ==
    \A i \in 1 .. Len(Pipe) : Pipe[i].op = "caught_up" =>
      \A n \in Nat : n <= Pipe[i].seq /\ Due(Pipe[i].run) <= n /\ Pipe[i].seq > 0 =>
        \E j \in 1 .. i - 1 : Pipe[j] = EventFrame(Pipe[i].run, n)

StreamInv ==
    /\ StreamTypes /\ Connected /\ Received /\ InOrder
    /\ SentSoFar /\ NothingUnread /\ BusInOrder /\ NothingLost /\ Announced

-----------------------------------------------------------------------------
(* None is told from every value by the assumption on it. *)
LEMMA NoneIsNothing ==
    /\ None \notin Runs /\ None \notin Nat /\ None \notin Events
    /\ None \notin [queue : Seq(Events), lagged : BOOLEAN]
  BY NoneAssumption DEF Events

(* The frames of an event and of the end of a backlog. *)
LEMMA FrameTypes ==
    ASSUME NEW r \in Runs, NEW n \in Nat
    PROVE  /\ EventFrame(r, n) \in Frames /\ CaughtUpFrame(r, n) \in Frames
           /\ EventFrame(r, n).op = "event" /\ CaughtUpFrame(r, n).op = "caught_up"
           /\ EventFrame(r, n).run = r /\ CaughtUpFrame(r, n).run = r
           /\ EventFrame(r, n).seq = n /\ CaughtUpFrame(r, n).seq = n
  BY DEF EventFrame, CaughtUpFrame, Frames

(* A frame of an event is known by its run and seq. *)
LEMMA FrameIs ==
    ASSUME NEW f \in Frames, f.op = "event"
    PROVE  f = EventFrame(f.run, f.seq) /\ f.run \in Runs /\ f.seq \in Nat
  BY DEF EventFrame, Frames

(* The pipe is the frames sent, then those to send. *)
LEMMA PipeIs ==
    ASSUME StreamTypes
    PROVE  /\ Pipe \in Seq(Frames) /\ Len(wire) \in Nat /\ Len(server.todo) \in Nat
           /\ Len(Pipe) = Len(wire) + Len(server.todo)
           /\ \A i \in 1 .. Len(Pipe) : Pipe[i] \in Frames
           /\ \A i \in 1 .. Len(wire) : Pipe[i] = wire[i]
           /\ \A i \in 1 .. Len(server.todo) : Pipe[Len(wire) + i] = server.todo[i]
<1>1. wire \in Seq(Frames) /\ server.todo \in Seq(Frames)
  BY DEF StreamTypes
<1>2. /\ Len(wire) \in Nat /\ Len(server.todo) \in Nat
  BY <1>1, LenProperties
<1>3. /\ Pipe \in Seq(Frames) /\ Len(Pipe) = Len(wire) + Len(server.todo)
      /\ \A i \in 1 .. Len(wire) + Len(server.todo) :
           Pipe[i] = IF i <= Len(wire) THEN wire[i] ELSE server.todo[i - Len(wire)]
  BY <1>1, ConcatProperties DEF Pipe
<1>4. \A i \in 1 .. Len(Pipe) : Pipe[i] \in Frames
  BY <1>3, ElementOfSeq
<1>5. ASSUME NEW i \in 1 .. Len(server.todo) PROVE Pipe[Len(wire) + i] = server.todo[i]
  <2>1. /\ Len(wire) + i \in 1 .. Len(wire) + Len(server.todo)
        /\ ~(Len(wire) + i <= Len(wire)) /\ Len(wire) + i - Len(wire) = i
    BY <1>2
  <2> QED BY <1>3, <2>1
<1>6. \A i \in 1 .. Len(wire) : Pipe[i] = wire[i]
  BY <1>2, <1>3
<1> HIDE DEF Pipe
<1> QED
  BY <1>2, <1>3, <1>4, <1>5, <1>6

(* The same of the pipe after a step. *)
LEMMA NextPipeIs ==
    ASSUME StreamTypes'
    PROVE  /\ Len(wire') \in Nat /\ Len(server'.todo) \in Nat
           /\ Len(Pipe') = Len(wire') + Len(server'.todo)
           /\ \A i \in 1 .. Len(wire') : Pipe'[i] = wire'[i]
           /\ \A i \in 1 .. Len(server'.todo) : Pipe'[Len(wire') + i] = server'.todo[i]
<1>1. wire' \in Seq(Frames) /\ server'.todo \in Seq(Frames)
  BY DEF StreamTypes
<1>2. /\ Len(wire') \in Nat /\ Len(server'.todo) \in Nat
  BY <1>1, LenProperties
<1>3. /\ Len(Pipe') = Len(wire') + Len(server'.todo)
      /\ \A i \in 1 .. Len(wire') + Len(server'.todo) :
           Pipe'[i] = IF i <= Len(wire') THEN wire'[i] ELSE server'.todo[i - Len(wire')]
  BY <1>1, ConcatProperties DEF Pipe
<1>4. ASSUME NEW i \in 1 .. Len(server'.todo) PROVE Pipe'[Len(wire') + i] = server'.todo[i]
  <2>1. /\ Len(wire') + i \in 1 .. Len(wire') + Len(server'.todo)
        /\ ~(Len(wire') + i <= Len(wire')) /\ Len(wire') + i - Len(wire') = i
    BY <1>2
  <2> QED BY <1>3, <2>1
<1>5. \A i \in 1 .. Len(wire') : Pipe'[i] = wire'[i]
  BY <1>2, <1>3
<1> QED
  BY <1>2, <1>3, <1>4, <1>5

(* A backlog is the events of the run from the seq asked for on. *)
LEMMA BacklogIs ==
    ASSUME NEW r \in Runs, NEW from \in Nat, StreamTypes
    PROVE  /\ BacklogOf(r, from) \in Seq(Frames) /\ LastOf(r, from) \in Nat
           /\ Len(BacklogOf(r, from)) = IF log[r] > from THEN log[r] - from ELSE 0
           /\ \A i \in 1 .. Len(BacklogOf(r, from)) :
                BacklogOf(r, from)[i] = EventFrame(r, from + i - 1)
<1> DEFINE size == IF log[r] > from THEN log[r] - from ELSE 0
<1>1. log[r] \in Nat /\ size \in Nat
  BY DEF StreamTypes
<1>2. \A i \in 1 .. size : from + i - 1 \in Nat
  BY <1>1
<1>3. BacklogOf(r, from) = [i \in 1 .. size |-> EventFrame(r, from + i - 1)]
  BY DEF BacklogOf
<1>4. BacklogOf(r, from) \in Seq(Frames) /\ Len(BacklogOf(r, from)) = size
  <2> HIDE DEF size
  <2>1. \A i \in 1 .. size : EventFrame(r, from + i - 1) \in Frames
    BY <1>2, FrameTypes
  <2> QED BY <1>1, <1>3, <2>1
<1>5. LastOf(r, from) \in Nat
  BY <1>1 DEF LastOf
<1> QED
  BY <1>3, <1>4, <1>5

(* What the client asked for and was shown. *)
LEMMA AskedTypes ==
    ASSUME StreamTypes
    PROVE  client.asked.from \in Nat /\ \A r \in Runs : stream[r] \in Seq(Nat)
<1>1. client.asked \in Subscriptions /\ stream \in [Runs -> Seq(Nat)]
  BY DEF StreamTypes
<1>2. client.asked.from \in Nat
  BY <1>1, SubscriberAssumption
<1> QED
  BY <1>1, <1>2

-----------------------------------------------------------------------------
(* Types. *)

(* What the client waits for is one of its states. *)
LEMMA ClientTypes ==
    ASSUME StreamTypes, OnClose \/ ConnectFails \/ Reconnect \/ Open \/ Unsubscribe \/ ChangeClient
    PROVE  client' \in [asked : Subscriptions,
                        pc : {"connecting", "open", "waiting", "gave_up", "stopped"},
                        resume : Nat, observed : Option(Nat), attempt : Nat]
<1>1. client.asked.from \in Nat
  BY SubscriberAssumption DEF StreamTypes
<1>2. NextFromSeq \in Nat
  BY <1>1, NoneIsNothing DEF NextFromSeq, StreamTypes, Option
<1>3. AfterClose(client) \in [asked : Subscriptions,
                        pc : {"connecting", "open", "waiting", "gave_up", "stopped"},
                        resume : Nat, observed : Option(Nat), attempt : Nat]
  <2>1. client.attempt + 1 \in Nat
    BY DEF StreamTypes
  <2>2. CASE client.attempt >= MaxRetries
    BY <2>2 DEF AfterClose, StreamTypes
  <2>3. CASE ~(client.attempt >= MaxRetries)
    BY <2>1, <2>3 DEF AfterClose, StreamTypes
  <2> QED BY <2>2, <2>3
<1>4. CASE OnClose \/ ConnectFails
  BY <1>3, <1>4 DEF OnClose, ConnectFails
<1>5. CASE Reconnect
  BY <1>2, <1>5 DEF Reconnect, StreamTypes
<1>6. CASE Open
  BY <1>6 DEF Open, StreamTypes
<1>7. CASE Unsubscribe
  BY <1>7 DEF Unsubscribe, StreamTypes
<1>8. CASE ChangeClient
  BY <1>8 DEF ChangeClient, StreamTypes
<1> QED
  BY <1>4, <1>5, <1>6, <1>7, <1>8

(* Nothing of a connection is left when it is over. *)
LEMMA GoneTypes ==
    /\ Gone \in [pc : {"gone", "accepted", "list", "backlog", "live"},
                  only : Option(Runs), from : Nat, runs : SUBSET Runs, todo : Seq(Frames),
                  last_sent : [Runs -> Option(Nat)]]
    /\ NoReceiver \in Option([queue : Seq(Events), lagged : BOOLEAN])
    /\ Receiver \in Option([queue : Seq(Events), lagged : BOOLEAN])
  BY DEF Gone, NoReceiver, Receiver, Option

(* The event of a wanted or unwanted head of the bus. *)
LEMMA HeadOfBus ==
    ASSUME StreamTypes, rx # None, rx.queue # <<>>
    PROVE  /\ rx \in [queue : Seq(Events), lagged : BOOLEAN]
           /\ Head(rx.queue) \in Events /\ Head(rx.queue) = rx.queue[1]
           /\ Tail(rx.queue) \in Seq(Events) /\ Len(rx.queue) \in Nat \ {0}
           /\ Len(Tail(rx.queue)) = Len(rx.queue) - 1
           /\ \A j \in 1 .. Len(Tail(rx.queue)) : Tail(rx.queue)[j] = rx.queue[j + 1]
<1>1. rx \in [queue : Seq(Events), lagged : BOOLEAN]
  BY DEF StreamTypes, Option
<1>2. rx.queue \in Seq(Events)
  BY <1>1
<1> QED
  BY <1>1, <1>2, HeadTailProperties, EmptySeq, LenProperties

(* Every variable keeps its type. *)
LEMMA TypesStep ==
    ASSUME StreamTypes, Connected, [Next]_vars PROVE StreamTypes'
<1> USE DEF StreamTypes
<1>1. ASSUME NEW r \in Runs, AppendEvent(r) PROVE StreamTypes'
  BY <1>1 DEF AppendEvent, Events, Option
<1>2. CASE Broadcast
  <2>1. unsent \in Events
    BY <1>2 DEF Broadcast, Option
  <2>2. CASE rx = None
    BY <1>2, <2>2 DEF Broadcast, NoReceiver, Option
  <2>3. CASE rx # None
    <3>1. rx \in [queue : Seq(Events), lagged : BOOLEAN]
      BY <2>3 DEF Option
    <3>2. Append(rx.queue, unsent) \in Seq(Events)
      BY <3>1, <2>1
    <3>3. rx' = [queue |-> <<>>, lagged |-> TRUE] \/ rx' = [rx EXCEPT !.queue = Append(@, unsent)]
      BY <1>2, <2>3 DEF Broadcast, NoReceiver
    <3>4. <<>> \in Seq(Events)
      OBVIOUS
    <3>5. [queue |-> <<>>, lagged |-> TRUE] \in [queue : Seq(Events), lagged : BOOLEAN]
      BY <3>4
    <3>6. [rx EXCEPT !.queue = Append(@, unsent)] \in [queue : Seq(Events), lagged : BOOLEAN]
      BY <3>1, <3>2
    <3>7. rx' \in [queue : Seq(Events), lagged : BOOLEAN]
      BY <3>3, <3>5, <3>6
    <3> QED BY <1>2, <3>7 DEF Broadcast, Option
  <2> QED BY <2>2, <2>3
<1>3. CASE SubscribeToBus
  <2>1. server.only = None \/ server.only \in Runs
    BY DEF Option
  <2> QED BY <1>3, <2>1, GoneTypes DEF SubscribeToBus
<1>4. CASE ListRuns
  BY <1>4 DEF ListRuns
<1>5. ASSUME NEW r \in Runs, ReadBacklog(r) PROVE StreamTypes'
  <2>1. server.from \in Nat
    OBVIOUS
  <2>2. Append(BacklogOf(r, server.from), CaughtUpFrame(r, LastOf(r, server.from))) \in Seq(Frames)
    BY <2>1, BacklogIs, FrameTypes, AppendProperties
  <2> QED BY <1>5, <2>2 DEF ReadBacklog
<1>6. CASE SendFrame
  <2>1. server.todo \in Seq(Frames) /\ server.todo # <<>>
    BY <1>6 DEF SendFrame
  <2>2. Head(server.todo) \in Frames /\ Tail(server.todo) \in Seq(Frames)
    BY <2>1, HeadTailProperties
  <2>3. Append(wire, Head(server.todo)) \in Seq(Frames)
    BY <2>2, AppendProperties
  <2>4. Head(server.todo).run \in Runs /\ Head(server.todo).seq \in Option(Nat)
    BY <2>2 DEF Frames, Option
  <2> QED BY <1>6, <2>2, <2>3, <2>4 DEF SendFrame
<1>7. CASE GoLive
  BY <1>7 DEF GoLive
<1>8. CASE LiveEvent
  <2>1. rx # None
    BY <1>8 DEF LiveEvent, Connected
  <2>2. /\ rx \in [queue : Seq(Events), lagged : BOOLEAN]
        /\ Head(rx.queue) \in Events /\ Tail(rx.queue) \in Seq(Events)
    BY <1>8, <2>1, HeadOfBus DEF LiveEvent
  <2>3. EventFrame(Head(rx.queue).run, Head(rx.queue).seq) \in Frames
    BY <2>2, FrameTypes DEF Events
  <2>4. <<EventFrame(Head(rx.queue).run, Head(rx.queue).seq)>> \in Seq(Frames)
    BY <2>3
  <2>5. server' \in [pc : {"gone", "accepted", "list", "backlog", "live"},
                  only : Option(Runs), from : Nat, runs : SUBSET Runs, todo : Seq(Frames),
                  last_sent : [Runs -> Option(Nat)]]
    BY <1>8, <2>4 DEF LiveEvent
  <2>6. rx' \in Option([queue : Seq(Events), lagged : BOOLEAN])
    BY <1>8, <2>2 DEF LiveEvent, Option
  <2> QED BY <1>8, <2>5, <2>6 DEF LiveEvent
<1>9. CASE LiveLagged \/ Drop \/ Crash
  BY <1>9, GoneTypes DEF LiveLagged, Drop, Crash, HangUp, Option
<1>10. CASE OnMessage
  <2>1. /\ Tail(wire) \in Seq(Frames) /\ Head(wire) \in Frames
    BY <1>10, HeadTailProperties DEF OnMessage
  <2>2. Head(wire).run \in Runs /\ Head(wire).seq \in Nat /\ Head(wire).seq \in Option(Nat)
    BY <2>1 DEF Frames, Option
  <2>3. \A r \in Runs : Append(stream[r], Head(wire).seq) \in Seq(Nat)
    BY <2>2, AppendProperties
  <2>4. stream' \in [Runs -> Seq(Nat)]
    <3>1. stream' = stream
             \/ stream' = [stream EXCEPT ![Head(wire).run] = Append(@, Head(wire).seq)]
      BY <1>10 DEF OnMessage
    <3> DEFINE longer == Append(stream[Head(wire).run], Head(wire).seq)
    <3>2. longer \in Seq(Nat)
      BY <2>2, <2>3
    <3>3. stream' = stream \/ stream' = [stream EXCEPT ![Head(wire).run] = longer]
      BY <3>1
    <3> HIDE DEF longer
    <3> QED BY <3>2, <3>3
  <2>5. client' \in [asked : Subscriptions,
                     pc : {"connecting", "open", "waiting", "gave_up", "stopped"},
                     resume : Nat, observed : Option(Nat), attempt : Nat]
    BY <1>10, <2>2 DEF OnMessage
  <2>6. wire' = Tail(wire) /\ UNCHANGED <<log, unsent, rx, server>>
    BY <1>10 DEF OnMessage
  <2> QED BY <2>1, <2>4, <2>5, <2>6
<1>11. CASE Open
  <2>1. client.resume \in Nat /\ client.asked.run \in Option(Runs)
    BY SubscriberAssumption DEF Option
  <2>2. Anew \in [Runs -> Seq(Nat)]
    BY DEF Anew
  <2> QED BY <1>11, <2>1, <2>2, ClientTypes, GoneTypes DEF Open
<1>12. CASE ConnectFails \/ OnClose \/ Reconnect \/ Unsubscribe \/ ChangeClient
  <2>1. Anew \in [Runs -> Seq(Nat)]
    BY DEF Anew
  <2>2. <<>> \in Seq(Frames)
    OBVIOUS
  <2>3. CASE ConnectFails \/ Reconnect
    BY <2>3, ClientTypes DEF ConnectFails, Reconnect
  <2>4. CASE OnClose
    BY <2>4, <2>2, ClientTypes DEF OnClose
  <2>5. CASE Unsubscribe \/ ChangeClient
    BY <2>5, <2>1, <2>2, ClientTypes, GoneTypes DEF Unsubscribe, ChangeClient, HangUp
  <2> QED BY <1>12, <2>3, <2>4, <2>5
<1>13. CASE UNCHANGED vars
  BY <1>13 DEF vars
<1> QED
  BY <1>1, <1>2, <1>3, <1>4, <1>5, <1>6, <1>7, <1>8, <1>9, <1>10, <1>11, <1>12, <1>13
     DEF Next, Handler, Client

-----------------------------------------------------------------------------
(* The steps that leave the pipe alone, or empty it. *)

(* What is on its way is known from client, handler and wire. *)
LEMMA PipeSame ==
    ASSUME UNCHANGED <<wire, server, client, stream>>
    PROVE  /\ \A r : Due(r)' = Due(r) /\ Asked(r)' = Asked(r) /\ Unread(r)' = Unread(r)
           /\ \A r, n : InPipe(r, n)' = InPipe(r, n) /\ InWire(r, n)' = InWire(r, n)
  BY DEF Due, Asked, Unread, InPipe, InWire, EventFrame, Pipe

(* Nothing on its way is touched while client, handler and wire stay. *)
LEMMA PipeKept ==
    ASSUME StreamInv, UNCHANGED <<wire, server, client, stream>>
    PROVE  Received' /\ InOrder' /\ SentSoFar' /\ NothingUnread' /\ Announced'
<1>1. Pipe' = Pipe /\ wire' = wire /\ server' = server /\ client' = client /\ stream' = stream
  BY DEF Pipe
<1>2. /\ \A r : Due(r)' = Due(r) /\ Asked(r)' = Asked(r) /\ Unread(r)' = Unread(r)
      /\ \A r, n : InPipe(r, n)' = InPipe(r, n) /\ InWire(r, n)' = InWire(r, n)
  BY PipeSame
<1>3. Received'
  BY <1>1, <1>2 DEF StreamInv, Received
<1>4. InOrder'
  BY <1>1, <1>2 DEF StreamInv, InOrder, EventFrame
<1>5. SentSoFar' /\ NothingUnread'
  BY <1>1, <1>2 DEF StreamInv, SentSoFar, NothingUnread
<1>6. Announced'
  BY <1>1, <1>2 DEF StreamInv, Announced, EventFrame
<1> QED
  BY <1>3, <1>4, <1>5, <1>6

(* An empty pipe is in order. *)
LEMMA PipeEmpty ==
    ASSUME StreamTypes', wire' = <<>>, server'.todo = <<>>
    PROVE  /\ Len(Pipe') = 0 /\ InOrder' /\ Announced'
           /\ \A r \in Runs, n \in Nat : ~InPipe(r, n)' /\ ~InWire(r, n)'
<1>1. Len(Pipe') = 0 /\ Len(wire') = 0
  <2>1. Pipe' = <<>> \o <<>>
    BY DEF Pipe
  <2> QED BY <2>1
<1> QED
  BY <1>1 DEF InOrder, Announced, InPipe, InWire

(* A connection that is over leaves what was sent. *)
LEMMA PipeCut ==
    ASSUME StreamInv, StreamTypes', HangUp, UNCHANGED <<wire, client, stream>>
    PROVE  Received' /\ InOrder' /\ SentSoFar' /\ NothingUnread' /\ Announced' /\ NothingLost'
<1> USE DEF StreamInv
<1>1. server'.pc = "gone" /\ server'.todo = <<>> /\ rx' = None
  BY DEF HangUp, Gone, NoReceiver
<1>2. /\ Len(Pipe') \in Nat /\ Len(Pipe') <= Len(Pipe)
      /\ \A i \in 1 .. Len(Pipe') : Pipe'[i] = Pipe[i] /\ i \in 1 .. Len(Pipe)
  <2>1. /\ Len(Pipe) = Len(wire) + Len(server.todo)
        /\ Len(wire) \in Nat /\ Len(server.todo) \in Nat
        /\ \A i \in 1 .. Len(wire) : Pipe[i] = wire[i]
    BY PipeIs
  <2>2. Pipe' = wire
    <3>1. Pipe' = wire \o <<>> /\ wire \in Seq(Frames)
      BY <1>1 DEF Pipe, StreamTypes
    <3> QED BY <3>1
  <2> HIDE DEF StreamInv
  <2> QED BY <2>1, <2>2
<1>3. client' = client /\ stream' = stream
  OBVIOUS
<1>4. Received'
  BY <1>2, <1>3 DEF Received, InPipe, Due, Asked
<1>5. \A r : Due(r)' = Due(r)
  BY <1>3 DEF Due
<1>6. InOrder'
  <2>1. ASSUME NEW i \in 1 .. Len(Pipe'), Pipe'[i].op = "event"
        PROVE  /\ Pipe'[i].seq >= Due(Pipe[i].run)
               /\ Pipe'[i].seq # Due(Pipe[i].run) =>
                    \E j \in 1 .. i - 1 : Pipe'[j] = EventFrame(Pipe'[i].run, Pipe'[i].seq - 1)
               /\ \A j \in 1 .. i - 1 :
                    Pipe'[j].op = "event" /\ Pipe'[j].run = Pipe'[i].run
                      => Pipe'[j].seq < Pipe'[i].seq
    <3>1. i \in 1 .. Len(Pipe) /\ Pipe'[i] = Pipe[i] /\ \A j \in 1 .. i - 1 : Pipe'[j] = Pipe[j]
      BY <1>2
    <3>2. /\ Pipe[i].seq >= Due(Pipe[i].run)
          /\ Pipe[i].seq # Due(Pipe[i].run) =>
               \E j \in 1 .. i - 1 : Pipe[j] = EventFrame(Pipe[i].run, Pipe[i].seq - 1)
          /\ \A j \in 1 .. i - 1 :
               Pipe[j].op = "event" /\ Pipe[j].run = Pipe[i].run => Pipe[j].seq < Pipe[i].seq
      BY <2>1, <3>1 DEF InOrder
    <3> HIDE DEF Pipe, StreamInv
    <3> QED BY <3>1, <3>2
  <2>2. \A i \in 1 .. Len(Pipe') : Pipe'[i] = Pipe[i]
    BY <1>2
  <2> QED BY <1>5, <2>1, <2>2 DEF InOrder, EventFrame
<1>7. Announced'
  <2>1. ASSUME NEW i \in 1 .. Len(Pipe'), Pipe'[i].op = "caught_up",
               NEW n \in Nat, n <= Pipe'[i].seq, Due(Pipe[i].run) <= n, Pipe'[i].seq > 0
        PROVE  \E j \in 1 .. i - 1 : Pipe'[j] = EventFrame(Pipe'[i].run, n)
    <3>1. i \in 1 .. Len(Pipe) /\ Pipe'[i] = Pipe[i] /\ \A j \in 1 .. i - 1 : Pipe'[j] = Pipe[j]
      BY <1>2
    <3>2. \E j \in 1 .. i - 1 : Pipe[j] = EventFrame(Pipe[i].run, n)
      BY <2>1, <3>1 DEF Announced
    <3> QED BY <3>1, <3>2
  <2>2. \A i \in 1 .. Len(Pipe') : Pipe'[i] = Pipe[i]
    BY <1>2
  <2> QED BY <1>5, <2>1, <2>2 DEF Announced, EventFrame
<1> QED
  BY <1>1, <1>4, <1>6, <1>7 DEF SentSoFar, NothingUnread, Unread, NothingLost, Following

-----------------------------------------------------------------------------
(* The Log and the bus. *)

(* An event that is appended waits to be broadcast, and counts as on the bus. *)
LEMMA AppendStep ==
    ASSUME StreamInv, StreamTypes', NEW r \in Runs, AppendEvent(r) PROVE StreamInv'
<1> USE DEF StreamInv
<1>1. /\ unsent = None /\ UNCHANGED <<rx, wire, server, client, stream>>
      /\ unsent' = [run |-> r, seq |-> log[r]] /\ unsent' # None
      /\ log' = [log EXCEPT ![r] = @ + 1] /\ log \in [Runs -> Nat]
  <2>1. log \in [Runs -> Nat]
    BY DEF StreamTypes
  <2>2. [run |-> r, seq |-> log[r]] \in Events
    BY <2>1 DEF Events
  <2> QED BY <2>1, <2>2, NoneIsNothing DEF AppendEvent
<1>2. Connected'
  BY <1>1 DEF Connected, Due, Asked, FollowsAll
<1>3. BusInOrder'
  <2>1. log'[r] = log[r] + 1 /\ \A q \in Runs : log'[q] >= log[q]
    BY <1>1
  <2>2. CASE Following
    <3>1. rx \in [queue : Seq(Events), lagged : BOOLEAN]
      BY <2>2 DEF StreamTypes, Following, Option
    <3>2. \A j \in 1 .. Len(rx.queue) : rx.queue[j] \in Events
      BY <3>1
    <3>3. \A j \in 1 .. Len(rx.queue) :
             /\ rx.queue[j].seq < log[rx.queue[j].run]
             /\ rx.queue[j].run \in Runs /\ rx.queue[j].seq \in Nat
             /\ \A i \in 1 .. j - 1 : rx.queue[i].run = rx.queue[j].run
                                          => rx.queue[i].seq < rx.queue[j].seq
      BY <2>2, <3>2 DEF BusInOrder, Events
    <3>4. \A j \in 1 .. Len(rx.queue) : rx.queue[j].seq < log'[rx.queue[j].run]
      BY <1>1, <2>1, <3>3
    <3> QED BY <1>1, <2>1, <3>3, <3>4 DEF BusInOrder
  <2>3. CASE ~Following
    BY <1>1, <2>1, <2>3 DEF BusInOrder, Following
  <2> QED BY <2>2, <2>3
<1>4. NothingLost'
  <2>1. /\ Following' = Following /\ server' = server
        /\ \A q : Due(q)' = Due(q) /\ Asked(q)' = Asked(q) /\ \A n : InPipe(q, n)' = InPipe(q, n)
    BY <1>1, PipeSame DEF Following
  <2> SUFFICES ASSUME Following, NEW q \in Runs, server.pc \in {"backlog", "live"},
                      q \notin server.runs, Asked(q), NEW n \in Nat, Due(q) <= n, n < log'[q]
               PROVE  InPipe(q, n) \/ OnBus(q, n)'
    BY <2>1 DEF NothingLost
  <2>2. CASE n < log[q]
    <3>1. InPipe(q, n) \/ OnBus(q, n)
      BY <2>2 DEF NothingLost
    <3>2. unsent # [run |-> q, seq |-> n]
      <4>1. [run |-> q, seq |-> n] \in Events
        BY DEF Events
      <4> QED BY <1>1, <4>1, NoneIsNothing
    <3> QED BY <1>1, <3>1, <3>2 DEF OnBus
  <2>3. CASE ~(n < log[q])
    <3>1. q = r /\ n = log[r]
      BY <1>1, <2>3
    <3> QED BY <1>1, <3>1 DEF OnBus
  <2> QED BY <2>2, <2>3
<1> QED
  BY <1>1, <1>2, <1>3, <1>4, PipeKept

(* An event that is broadcast goes to the end of the queue, or the handler is
   left behind. *)
LEMMA BroadcastStep ==
    ASSUME StreamInv, StreamTypes', Broadcast PROVE StreamInv'
<1> USE DEF StreamInv
<1>1. /\ unsent # None /\ unsent \in Events /\ unsent' = None
      /\ UNCHANGED <<log, wire, server, client, stream>>
      /\ log[unsent.run] = unsent.seq + 1 /\ log \in [Runs -> Nat]
  BY DEF Broadcast, BusInOrder, StreamTypes, Option
<1>2. Following' => /\ Following /\ rx \in [queue : Seq(Events), lagged : BOOLEAN]
                    /\ rx'.queue = Append(rx.queue, unsent)
  <2> SUFFICES ASSUME Following' PROVE /\ Following /\ rx \in [queue : Seq(Events), lagged : BOOLEAN]
                                       /\ rx'.queue = Append(rx.queue, unsent)
    OBVIOUS
  <2>1. rx # None
    BY DEF Broadcast, Following, NoReceiver
  <2>2. rx \in [queue : Seq(Events), lagged : BOOLEAN]
    BY <2>1 DEF StreamTypes, Option
  <2>3. ~(rx.lagged \/ Len(rx.queue) = Capacity)
    BY <2>1 DEF Broadcast, Following, NoReceiver
  <2>4. rx' = [rx EXCEPT !.queue = Append(@, unsent)]
    BY <2>1, <2>3 DEF Broadcast, NoReceiver
  <2> QED BY <2>1, <2>2, <2>3, <2>4 DEF Following
<1>3. Following' => /\ Len(rx.queue) \in Nat /\ Len(rx'.queue) = Len(rx.queue) + 1
                    /\ rx'.queue[Len(rx.queue) + 1] = unsent
                    /\ \A j \in 1 .. Len(rx.queue) : rx'.queue[j] = rx.queue[j] /\ rx.queue[j] \in Events
  <2> SUFFICES ASSUME Following' PROVE /\ Len(rx.queue) \in Nat /\ Len(rx'.queue) = Len(rx.queue) + 1
                    /\ rx'.queue[Len(rx.queue) + 1] = unsent
                    /\ \A j \in 1 .. Len(rx.queue) : rx'.queue[j] = rx.queue[j] /\ rx.queue[j] \in Events
    OBVIOUS
  <2>1. rx.queue \in Seq(Events)
    BY <1>2
  <2> QED BY <1>1, <1>2, <2>1, AppendProperties, LenProperties, ElementOfSeq
<1>4. Connected'
  <2>1. rx' = None <=> rx = None
    <3>1. CASE rx # None
      <4>1. rx \in [queue : Seq(Events), lagged : BOOLEAN]
        BY <3>1 DEF StreamTypes, Option
      <4>2. [queue |-> <<>>, lagged |-> TRUE] \in [queue : Seq(Events), lagged : BOOLEAN]
        <5>1. <<>> \in Seq(Events)
          OBVIOUS
        <5> QED BY <5>1
      <4>3. [rx EXCEPT !.queue = Append(@, unsent)] \in [queue : Seq(Events), lagged : BOOLEAN]
        <5>1. Append(rx.queue, unsent) \in Seq(Events)
          BY <1>1, <4>1, AppendProperties
        <5> QED BY <4>1, <5>1
      <4> QED BY <3>1, <4>2, <4>3, NoneIsNothing DEF Broadcast, NoReceiver
    <3> QED BY <3>1 DEF Broadcast, NoReceiver
  <2> QED BY <1>1, <2>1 DEF Connected, Due, Asked, FollowsAll
<1>5. BusInOrder'
  <2> SUFFICES ASSUME Following', NEW j \in 1 .. Len(rx'.queue)
               PROVE  /\ rx'.queue[j].seq < log[rx'.queue[j].run]
                      /\ \A i \in 1 .. j - 1 : rx'.queue[i].run = rx'.queue[j].run
                                                   => rx'.queue[i].seq < rx'.queue[j].seq
    BY <1>1 DEF BusInOrder
  <2>1. CASE j \in 1 .. Len(rx.queue)
    BY <1>2, <1>3, <2>1 DEF BusInOrder
  <2>2. CASE j = Len(rx.queue) + 1
    <3>1. rx'.queue[j] = unsent /\ unsent.run \in Runs /\ unsent.seq \in Nat
      BY <1>1, <1>3, <2>2 DEF Events
    <3>2. \A i \in 1 .. j - 1 : i \in 1 .. Len(rx.queue) /\ rx'.queue[i] = rx.queue[i]
      BY <1>3, <2>2
    <3>3. \A i \in 1 .. j - 1 : rx.queue[i].run = unsent.run => rx.queue[i].seq < unsent.seq
      BY <1>1, <1>2, <3>2 DEF BusInOrder
    <3>4. rx'.queue[j].seq < log[rx'.queue[j].run]
      BY <1>1, <3>1
    <3> HIDE DEF StreamInv
    <3> QED BY <3>1, <3>2, <3>3, <3>4
  <2> QED BY <1>3, <2>1, <2>2
<1>6. NothingLost'
  <2> SUFFICES ASSUME Following', NEW q \in Runs, server.pc \in {"backlog", "live"},
                      q \notin server.runs, Asked(q), NEW n \in Nat, Due(q) <= n, n < log[q]
               PROVE  InPipe(q, n) \/ OnBus(q, n)'
    BY <1>1, PipeSame DEF NothingLost
  <2>1. InPipe(q, n) \/ OnBus(q, n)
    BY <1>2 DEF NothingLost
  <2>2. OnBus(q, n) => OnBus(q, n)'
    <3>1. ASSUME NEW j \in 1 .. Len(rx.queue), rx.queue[j] = [run |-> q, seq |-> n]
          PROVE  OnBus(q, n)'
      BY <1>3, <3>1 DEF OnBus
    <3>2. ASSUME unsent = [run |-> q, seq |-> n] PROVE OnBus(q, n)'
      BY <1>3, <3>2 DEF OnBus
    <3> QED BY <3>1, <3>2 DEF OnBus
  <2> QED BY <2>1, <2>2
<1> QED
  BY <1>1, <1>4, <1>5, <1>6, PipeKept

-----------------------------------------------------------------------------
(* The end of a connection, and the client without one. *)

(* A handler that hangs up leaves the client what was sent. *)
LEMMA HangUpStep ==
    ASSUME StreamInv, StreamTypes', LiveLagged \/ Drop \/ Crash PROVE StreamInv'
<1> USE DEF StreamInv
<1>1. /\ HangUp /\ UNCHANGED <<log, wire, client, stream>>
      /\ unsent' = unsent \/ unsent' = None
  BY DEF LiveLagged, Drop, Crash
<1>2. server'.pc = "gone" /\ server'.todo = <<>> /\ rx' = None
  BY <1>1 DEF HangUp, Gone, NoReceiver
<1>3. Connected'
  <2>1. client' = client /\ stream' = stream /\ wire' = wire
    BY <1>1
  <2>2. \A r : Due(r)' = Due(r)
    BY <2>1 DEF Due
  <2>3. FollowsAll' = FollowsAll
    BY <2>1 DEF FollowsAll
  <2> QED BY <1>2, <2>1, <2>2, <2>3 DEF Connected
<1>4. BusInOrder'
  BY <1>1, <1>2 DEF BusInOrder, Following
<1> QED
  BY <1>1, <1>3, <1>4, PipeCut

(* A client without a connection: nothing is on its way. *)
LEMMA ApartStep ==
    ASSUME StreamInv, StreamTypes', ConnectFails \/ OnClose \/ Reconnect \/ Unsubscribe \/ ChangeClient
    PROVE  StreamInv'
<1> USE DEF StreamInv
<1>1. /\ server'.pc = "gone" /\ server'.todo = <<>> /\ rx' = None /\ wire' = <<>>
      /\ UNCHANGED <<log, unsent>> /\ client'.asked = client.asked
  <2>1. CASE ConnectFails \/ Reconnect
    <3>1. server.pc = "gone" /\ server.todo = <<>> /\ rx = None /\ wire = <<>>
      BY <2>1 DEF ConnectFails, Reconnect, Connected
    <3>2. client'.asked = client.asked
      BY <2>1 DEF ConnectFails, Reconnect, AfterClose, StreamTypes
    <3> QED BY <2>1, <3>1, <3>2 DEF ConnectFails, Reconnect
  <2>2. CASE OnClose
    <3>1. client'.asked = client.asked
      BY <2>2 DEF OnClose, AfterClose, StreamTypes
    <3> QED BY <2>2, <3>1 DEF OnClose, Connected
  <2>3. CASE Unsubscribe \/ ChangeClient
    <3>1. client'.asked = client.asked
      BY <2>3 DEF Unsubscribe, ChangeClient, StreamTypes
    <3> QED BY <2>3, <3>1 DEF Unsubscribe, ChangeClient, HangUp, Gone, NoReceiver
  <2> QED BY <2>1, <2>2, <2>3
<1>2. FollowsAll' = FollowsAll /\ \A r : Asked(r)' = Asked(r)
  BY <1>1 DEF FollowsAll, Asked
<1>3. stream' = stream \/ (FollowsAll /\ stream' = [r \in Runs |-> <<>>])
  BY DEF ConnectFails, OnClose, Reconnect, Unsubscribe, ChangeClient, Anew
<1>4. Connected'
  <2>1. FollowsAll => client'.resume = 0
    <3>1. CASE ConnectFails \/ OnClose
      <4>1. client'.resume = client.resume
        BY <3>1 DEF ConnectFails, OnClose, AfterClose, StreamTypes
      <4> QED BY <4>1 DEF Connected
    <3>2. CASE Reconnect
      BY <3>2 DEF Reconnect, NextFromSeq, StreamTypes
    <3>3. CASE Unsubscribe \/ ChangeClient
      <4>1. client'.resume = client.resume
        BY <3>3 DEF Unsubscribe, ChangeClient, StreamTypes
      <4> QED BY <4>1 DEF Connected
    <3> QED BY <3>1, <3>2, <3>3
  <2>2. ASSUME ~FollowsAll
        PROVE  /\ stream' = stream /\ client'.observed = client.observed
               /\ client'.pc = "connecting" => client'.resume = Due(client.asked.run)
    <3>1. stream' = stream /\ ~ChangeClient
      BY <1>3, <2>2 DEF ChangeClient
    <3>2. CASE ConnectFails \/ OnClose
      BY <3>1, <3>2 DEF ConnectFails, OnClose, AfterClose, StreamTypes
    <3>3. CASE Unsubscribe
      BY <3>1, <3>3 DEF Unsubscribe, StreamTypes
    <3>4. CASE Reconnect
      <4>1. client'.observed = client.observed /\ client'.resume = NextFromSeq
        BY <3>4 DEF Reconnect, StreamTypes
      <4>2. client.asked.run \in Runs /\ client.asked.from \in Nat
        BY <2>2, SubscriberAssumption DEF StreamTypes, FollowsAll
      <4>3. stream[client.asked.run] \in Seq(Nat)
        BY <4>2 DEF StreamTypes
      <4>4. Len(stream[client.asked.run]) \in Nat
        BY <4>3, LenProperties
      <4>5. CASE stream[client.asked.run] = <<>>
        <5>1. NextFromSeq = client.asked.from
          BY <2>2, <4>5 DEF NextFromSeq, Connected
        <5> QED BY <3>1, <4>1, <4>2, <4>5, <5>1 DEF Due
      <4>6. CASE stream[client.asked.run] # <<>>
        <5>1. client.observed = Due(client.asked.run) - 1 /\ Len(stream[client.asked.run]) > 0
          BY <2>2, <4>3, <4>6, EmptySeq, LenProperties DEF Connected
        <5>2. client.observed \in Nat
          BY <4>2, <4>4, <5>1 DEF Due
        <5>3. NextFromSeq = client.observed + 1
          BY <2>2, <5>2, NoneIsNothing DEF NextFromSeq
        <5> QED BY <3>1, <4>1, <4>2, <4>4, <5>1, <5>3 DEF Due
      <4> QED BY <4>5, <4>6
    <3> QED BY <3>1, <3>2, <3>3, <3>4
  <2>3. ~FollowsAll => \A r : Due(r)' = Due(r)
    BY <1>1, <2>2 DEF Due
  <2>4. ~FollowsAll => client.observed = IF stream[client.asked.run] = <<>> THEN None
                                         ELSE Due(client.asked.run) - 1
    BY DEF Connected
  <2> QED BY <1>1, <1>2, <2>1, <2>2, <2>3, <2>4 DEF Connected
<1>5. /\ Len(Pipe') = 0 /\ InOrder' /\ Announced'
      /\ \A r \in Runs, n \in Nat : ~InPipe(r, n)' /\ ~InWire(r, n)'
  BY <1>1, PipeEmpty
<1>6. Received'
  <2>1. CASE stream' = stream
    BY <1>1, <1>2, <1>5, <2>1 DEF Received
  <2>2. CASE stream' = [r \in Runs |-> <<>>]
    BY <1>1, <1>2, <1>5, <2>2 DEF Received
  <2> QED BY <1>3, <2>1, <2>2
<1>7. SentSoFar' /\ NothingUnread' /\ NothingLost'
  BY <1>1 DEF SentSoFar, NothingUnread, Unread, NothingLost, Following
<1>8. BusInOrder'
  BY <1>1 DEF BusInOrder, Following
<1> QED
  BY <1>4, <1>5, <1>6, <1>7, <1>8

(* A connection begins at what the client is due. *)
LEMMA OpenStep ==
    ASSUME StreamInv, StreamTypes', Open PROVE StreamInv'
<1> USE DEF StreamInv
<1>1. /\ client.pc = "connecting" /\ server.pc = "gone" /\ rx = None /\ wire = <<>>
      /\ UNCHANGED <<log, unsent, rx, wire>> /\ stream' = Anew
  BY DEF Open, Connected
<1>2. /\ client'.asked = client.asked /\ client'.resume = client.resume /\ client'.pc = "open"
      /\ client'.observed = client.observed
  BY DEF Open, StreamTypes
<1>3. /\ server'.pc = "accepted" /\ server'.only = client.asked.run /\ server'.from = client.resume
      /\ server'.runs = {} /\ server'.todo = <<>> /\ server'.last_sent = [r \in Runs |-> None]
  BY DEF Open, Gone
<1>4. FollowsAll' = FollowsAll /\ \A r : Asked(r)' = Asked(r)
  BY <1>2 DEF FollowsAll, Asked
<1>5. ~FollowsAll => stream' = stream /\ \A r : Due(r)' = Due(r)
  BY <1>1, <1>2 DEF Anew, Due
<1>6. FollowsAll => /\ stream' = [r \in Runs |-> <<>>] /\ client.asked.from = 0
                    /\ \A r \in Runs : Due(r)' = 0
  <2> SUFFICES ASSUME FollowsAll
               PROVE  /\ stream' = [r \in Runs |-> <<>>] /\ client.asked.from = 0
                      /\ \A r \in Runs : Due(r)' = 0
    OBVIOUS
  <2>1. client.asked.from = 0
    BY SubscriberAssumption, NoneIsNothing DEF FollowsAll, StreamTypes
  <2> QED BY <1>1, <1>2, <2>1 DEF Anew, Due
<1>7. \A r \in Runs : Asked(r) => server'.from = Due(r)'
  <2>1. CASE FollowsAll
    BY <1>3, <1>6, <2>1 DEF Connected
  <2>2. CASE ~FollowsAll
    <3>1. client.resume = Due(client.asked.run)
      BY <1>1, <2>2 DEF Connected
    <3>2. \A r \in Runs : Asked(r) => r = client.asked.run
      BY <2>2 DEF Asked, FollowsAll
    <3> QED BY <1>3, <1>5, <2>2, <3>1, <3>2
  <2> QED BY <2>1, <2>2
<1>8. Connected'
  BY <1>1, <1>2, <1>3, <1>4, <1>5 DEF Connected
<1>9. /\ Len(Pipe') = 0 /\ InOrder' /\ Announced'
      /\ \A r \in Runs, n \in Nat : ~InPipe(r, n)' /\ ~InWire(r, n)'
  BY <1>1, <1>3, PipeEmpty
<1>10. Received'
  <2>1. CASE FollowsAll
    BY <1>4, <1>6, <1>9, <2>1 DEF Received
  <2>2. CASE ~FollowsAll
    BY <1>2, <1>4, <1>5, <1>9, <2>2 DEF Received
  <2> QED BY <2>1, <2>2
<1>11. SentSoFar' /\ NothingUnread'
  <2>1. \A r \in Runs : Asked(r)' => server'.from <= Due(r)'
    <3>1. server'.from \in Nat
      BY DEF StreamTypes
    <3> QED BY <1>4, <1>7, <3>1
  <2>2. \A r \in Runs : server'.last_sent[r] = None
    BY <1>3
  <2> QED BY <1>3, <1>4, <1>7, <1>9, <2>1, <2>2 DEF SentSoFar, NothingUnread
<1>12. BusInOrder' /\ NothingLost'
  BY <1>1 DEF BusInOrder, NothingLost, Following
<1> QED
  BY <1>8, <1>9, <1>10, <1>11, <1>12

-----------------------------------------------------------------------------
(* The handler. *)

(* The handler follows the bus before it reads anything. *)
LEMMA SubscribeStep ==
    ASSUME StreamInv, StreamTypes', SubscribeToBus PROVE StreamInv'
<1> USE DEF StreamInv
<1>1. /\ server.pc = "accepted" /\ UNCHANGED <<log, unsent, wire, client, stream>>
      /\ rx' = Receiver /\ server.only = client.asked.run
      /\ wire = <<>> /\ server.todo = <<>> /\ client.pc = "open"
  BY DEF SubscribeToBus, Connected
<1>2. /\ server'.todo = <<>> /\ server'.from = server.from /\ server'.last_sent = server.last_sent
      /\ server'.only = server.only
      /\ \/ server'.pc = "list" /\ server.only = None /\ server'.runs = server.runs
         \/ server'.pc = "backlog" /\ server.only # None /\ server'.runs = {server.only}
  BY <1>1 DEF SubscribeToBus, StreamTypes
<1>3. /\ Receiver # None /\ Receiver.queue = <<>> /\ ~Receiver.lagged
  <2>1. Receiver \in [queue : Seq(Events), lagged : BOOLEAN]
    BY DEF Receiver
  <2> QED BY <2>1, NoneIsNothing DEF Receiver
<1>4. FollowsAll' = FollowsAll /\ \A r : Asked(r)' = Asked(r) /\ Due(r)' = Due(r)
  BY <1>1 DEF FollowsAll, Asked, Due
<1>5. /\ Len(Pipe') = 0 /\ InOrder' /\ Announced'
      /\ \A r \in Runs, n \in Nat : ~InPipe(r, n)' /\ ~InWire(r, n)'
  BY <1>1, <1>2, PipeEmpty
<1>6. \A r \in Runs : server.last_sent[r] = None
  BY <1>1 DEF NothingUnread, Unread
<1>7. Connected'
  <2>1. \A r \in server'.runs : Asked(r)
    BY <1>1, <1>2 DEF Connected, Asked
  <2>2. server'.pc = "list" => FollowsAll
    BY <1>1, <1>2 DEF FollowsAll
  <2> QED BY <1>1, <1>2, <1>3, <1>4, <2>1, <2>2 DEF Connected
<1>8. Received'
  BY <1>1, <1>4, <1>5 DEF Received
<1>9. SentSoFar' /\ NothingUnread'
  <2>1. \A r \in Runs : Asked(r) => server.from <= Due(r) /\ Due(r) = server.from
    BY <1>1, <1>6 DEF SentSoFar
  <2> QED BY <1>2, <1>4, <1>5, <1>6, <2>1 DEF SentSoFar, NothingUnread
<1>10. BusInOrder'
  <2>1. Len(rx'.queue) = 0
    BY <1>1, <1>3
  <2> QED BY <1>1, <2>1 DEF BusInOrder
<1>11. NothingLost'
  <2>1. \A r \in Runs : server'.pc \in {"backlog", "live"} /\ Asked(r) => r \in server'.runs
    BY <1>1, <1>2 DEF Asked
  <2> QED BY <1>4, <2>1 DEF NothingLost
<1> QED
  BY <1>5, <1>7, <1>8, <1>9, <1>10, <1>11

(* A run that is not listed has no events: what comes is on the bus. *)
LEMMA ListStep ==
    ASSUME StreamInv, StreamTypes', ListRuns PROVE StreamInv'
<1> USE DEF StreamInv
<1>1. /\ server.pc = "list" /\ UNCHANGED <<log, unsent, rx, wire, client, stream>>
      /\ wire = <<>> /\ server.todo = <<>> /\ client.pc = "open" /\ rx # None
      /\ server.only = client.asked.run
  BY DEF ListRuns, Connected
<1>2. /\ server'.todo = <<>> /\ server'.from = server.from /\ server'.last_sent = server.last_sent
      /\ server'.only = server.only /\ server'.pc = "backlog"
      /\ server'.runs = {r \in Runs : log[r] > 0}
  BY <1>1 DEF ListRuns, StreamTypes
<1>3. FollowsAll' = FollowsAll /\ \A r : Asked(r)' = Asked(r) /\ Due(r)' = Due(r)
  BY <1>1 DEF FollowsAll, Asked, Due
<1>4. /\ Len(Pipe') = 0 /\ InOrder' /\ Announced'
      /\ \A r \in Runs, n \in Nat : ~InPipe(r, n)' /\ ~InWire(r, n)'
  BY <1>1, <1>2, PipeEmpty
<1>5. \A r \in Runs : server.last_sent[r] = None
  BY <1>1 DEF NothingUnread, Unread
<1>6. server.only = None
  BY <1>1 DEF Connected, FollowsAll
<1>7. Connected'
  <2>1. \A r \in server'.runs : Asked(r)
    BY <1>1, <1>6 DEF Asked
  <2> QED BY <1>1, <1>2, <1>3, <2>1 DEF Connected
<1>8. Received'
  BY <1>1, <1>3, <1>4 DEF Received
<1>9. SentSoFar' /\ NothingUnread'
  <2>1. \A r \in Runs : Asked(r) => server.from <= Due(r) /\ Due(r) = server.from
    BY <1>1, <1>5 DEF SentSoFar
  <2> QED BY <1>2, <1>3, <1>4, <1>5, <2>1 DEF SentSoFar, NothingUnread
<1>10. BusInOrder'
  BY <1>1 DEF BusInOrder, Following
<1>11. NothingLost'
  <2>1. \A r \in Runs : r \notin server'.runs => log[r] = 0
    BY <1>2 DEF StreamTypes
  <2> QED BY <1>1, <2>1 DEF NothingLost
<1> QED
  BY <1>4, <1>7, <1>8, <1>9, <1>10, <1>11

(* The backlog of a run comes behind what is on its way, and begins at what is
   due. *)
LEMMA BacklogStep ==
    ASSUME StreamInv, StreamTypes', NEW r \in Runs, ReadBacklog(r) PROVE StreamInv'
<1> USE DEF StreamInv
<1> DEFINE size == IF log[r] > server.from THEN log[r] - server.from ELSE 0
           last == LastOf(r, server.from)
<1>1. /\ server.pc = "backlog" /\ server.todo = <<>> /\ r \in server.runs
      /\ UNCHANGED <<log, unsent, rx, wire, client, stream>>
      /\ server.only = client.asked.run /\ client.pc = "open" /\ rx # None
      /\ log[r] \in Nat /\ server.from \in Nat
  BY DEF ReadBacklog, Connected, StreamTypes
<1>2. /\ server'.todo = Append(BacklogOf(r, server.from), CaughtUpFrame(r, last))
      /\ server'.from = server.from /\ server'.last_sent = server.last_sent
      /\ server'.only = server.only /\ server'.pc = "backlog"
      /\ server'.runs = server.runs \ {r}
  BY DEF ReadBacklog, StreamTypes
<1>3. FollowsAll' = FollowsAll /\ \A q : /\ Asked(q)' = Asked(q) /\ Due(q)' = Due(q)
                                        /\ \A n : InWire(q, n)' = InWire(q, n)
  BY <1>1 DEF FollowsAll, Asked, Due, InWire, EventFrame
<1>4. Asked(r) /\ server.last_sent[r] = None /\ Due(r) = server.from /\ \A n \in Nat : ~InPipe(r, n)
  BY <1>1 DEF Connected, NothingUnread, Unread, SentSoFar
<1>5. /\ size \in Nat /\ last \in Nat /\ Len(wire) \in Nat /\ Len(Pipe) = Len(wire)
      /\ Len(Pipe') = Len(wire) + size + 1
      /\ \A i \in 1 .. Len(wire) : Pipe'[i] = Pipe[i] /\ Pipe[i] \in Frames
      /\ \A i \in 1 .. size : Pipe'[Len(wire) + i] = EventFrame(r, server.from + i - 1)
      /\ Pipe'[Len(wire) + size + 1] = CaughtUpFrame(r, last)
  <2>1. /\ BacklogOf(r, server.from) \in Seq(Frames) /\ last \in Nat
        /\ Len(BacklogOf(r, server.from)) = size /\ size \in Nat
        /\ \A i \in 1 .. size : BacklogOf(r, server.from)[i] = EventFrame(r, server.from + i - 1)
    <3>1. Len(BacklogOf(r, server.from)) = size
      BY <1>1, BacklogIs
    <3>2. size \in Nat
      BY <1>1
    <3> HIDE DEF size
    <3> QED BY <1>1, <3>1, <3>2, BacklogIs
  <2>2. CaughtUpFrame(r, last) \in Frames
    BY <2>1, FrameTypes
  <2> HIDE DEF size, last, StreamInv
  <2>3. /\ Len(server'.todo) = size + 1
        /\ \A i \in 1 .. size : server'.todo[i] = EventFrame(r, server.from + i - 1)
        /\ server'.todo[size + 1] = CaughtUpFrame(r, last)
    BY <1>2, <2>1, <2>2, AppendProperties
  <2>4. /\ Len(wire) \in Nat /\ Len(Pipe) = Len(wire)
        /\ \A i \in 1 .. Len(wire) : Pipe[i] = wire[i] /\ Pipe[i] \in Frames
    <3>1. Len(server.todo) = 0
      BY <1>1
    <3> QED BY <3>1, PipeIs DEF StreamInv
  <2>5. /\ Len(Pipe') = Len(wire) + Len(server'.todo)
        /\ \A i \in 1 .. Len(wire) : Pipe'[i] = wire[i]
        /\ \A i \in 1 .. Len(server'.todo) : Pipe'[Len(wire) + i] = server'.todo[i]
    BY <1>1, NextPipeIs
  <2>6. Len(Pipe') = Len(wire) + size + 1
    BY <2>1, <2>3, <2>4, <2>5
  <2>7. \A i \in 1 .. Len(wire) : Pipe'[i] = Pipe[i] /\ Pipe[i] \in Frames
    BY <2>4, <2>5
  <2>8. \A i \in 1 .. size : i \in 1 .. Len(server'.todo)
    BY <2>1, <2>3
  <2>9. \A i \in 1 .. size : Pipe'[Len(wire) + i] = EventFrame(r, server.from + i - 1)
    BY <2>3, <2>5, <2>8
  <2>10. Pipe'[Len(wire) + size + 1] = CaughtUpFrame(r, last)
    <3>1. size + 1 \in 1 .. Len(server'.todo) /\ Len(wire) + (size + 1) = Len(wire) + size + 1
      BY <2>1, <2>3, <2>4
    <3> QED BY <2>3, <2>5, <3>1
  <2> HIDE DEF Pipe
  <2> QED BY <2>1, <2>4, <2>6, <2>7, <2>9, <2>10
<1> HIDE DEF size, last, StreamInv
<1>6. \A i \in 1 .. Len(Pipe') :
        \/ i \in 1 .. Len(wire)
        \/ \E k \in 1 .. size : i = Len(wire) + k
        \/ i = Len(wire) + size + 1
  <2>1. ASSUME NEW i \in 1 .. Len(Pipe'), i \notin 1 .. Len(wire), i # Len(wire) + size + 1
        PROVE  \E k \in 1 .. size : i = Len(wire) + k
    <3>1. i - Len(wire) \in 1 .. size /\ i = Len(wire) + (i - Len(wire))
      BY <1>5, <2>1
    <3> QED BY <3>1
  <2> QED BY <2>1
<1>7. \A q \in Runs, n \in Nat : InPipe(q, n) => InPipe(q, n)'
  <2> SUFFICES ASSUME NEW q \in Runs, NEW n \in Nat, NEW i \in 1 .. Len(Pipe), Pipe[i] = EventFrame(q, n)
               PROVE  InPipe(q, n)'
    BY DEF InPipe
  <2>1. i \in 1 .. Len(Pipe') /\ Pipe'[i] = EventFrame(q, n)
    BY <1>5
  <2> QED BY <2>1 DEF InPipe, EventFrame
<1>8. \A q \in Runs \ {r}, n \in Nat : InPipe(q, n)' => InPipe(q, n)
  <2> SUFFICES ASSUME NEW q \in Runs \ {r}, NEW n \in Nat, NEW i \in 1 .. Len(Pipe'),
                      Pipe'[i] = EventFrame(q, n)
               PROVE  InPipe(q, n)
    BY DEF InPipe, EventFrame
  <2>1. EventFrame(q, n).run = q /\ EventFrame(q, n).op = "event"
    BY FrameTypes
  <2>2. \A k \in 1 .. size : EventFrame(r, server.from + k - 1).run = r
    BY DEF EventFrame
  <2>3. CaughtUpFrame(r, last).op = "caught_up"
    BY <1>5, FrameTypes
  <2>4. i \in 1 .. Len(wire)
    BY <1>5, <1>6, <2>1, <2>2, <2>3
  <2> QED BY <1>5, <2>4 DEF InPipe
<1>9. \A n \in Nat : server.from <= n /\ n < log[r] =>
         \E k \in 1 .. size : Pipe'[Len(wire) + k] = EventFrame(r, n) /\ k = n - server.from + 1
  <2> SUFFICES ASSUME NEW n \in Nat, server.from <= n, n < log[r]
               PROVE  \E k \in 1 .. size : Pipe'[Len(wire) + k] = EventFrame(r, n)
                                            /\ k = n - server.from + 1
    OBVIOUS
  <2>1. /\ n - server.from + 1 \in 1 .. size /\ server.from + (n - server.from + 1) - 1 = n
    BY <1>1 DEF size
  <2>2. Pipe'[Len(wire) + (n - server.from + 1)] = EventFrame(r, n)
    BY <1>5, <2>1
  <2> QED BY <2>1, <2>2
<1>10. Connected'
  BY <1>1, <1>2, <1>3 DEF Connected, StreamInv
<1>11. Received'
  <2>1. \A q \in Runs : ~Asked(q) => q # r
    BY <1>4
  <2> QED BY <1>1, <1>3, <1>8, <2>1 DEF Received, StreamInv
<1>12. SentSoFar'
  BY <1>1, <1>2, <1>3 DEF SentSoFar, StreamInv
<1>13. NothingUnread'
  BY <1>1, <1>2, <1>8 DEF NothingUnread, Unread, StreamInv
<1>14. BusInOrder'
  BY <1>1 DEF BusInOrder, Following, StreamInv
<1>15. NothingLost'
  <2> SUFFICES ASSUME Following, NEW q \in Runs, q \notin server.runs \/ q = r, Asked(q),
                      NEW n \in Nat, Due(q) <= n, n < log[q]
               PROVE  InPipe(q, n)' \/ OnBus(q, n)
    BY <1>1, <1>2, <1>3 DEF NothingLost, Following, OnBus
  <2>1. CASE q # r
    BY <1>1, <1>7, <2>1 DEF NothingLost, StreamInv
  <2>2. CASE q = r
    <3>1. PICK k \in 1 .. size : Pipe'[Len(wire) + k] = EventFrame(r, n)
      BY <1>4, <1>9, <2>2
    <3>2. Len(wire) + k \in 1 .. Len(Pipe')
      BY <1>5
    <3> QED BY <2>2, <3>1, <3>2 DEF InPipe, EventFrame
  <2> QED BY <2>1, <2>2
<1>16. InOrder'
  <2>1. ASSUME NEW i \in 1 .. Len(Pipe'), Pipe'[i].op = "event"
        PROVE  /\ Pipe'[i].seq >= Due(Pipe'[i].run)
               /\ Pipe'[i].seq # Due(Pipe'[i].run) =>
                    \E j \in 1 .. i - 1 : Pipe'[j] = EventFrame(Pipe'[i].run, Pipe'[i].seq - 1)
               /\ \A j \in 1 .. i - 1 :
                    Pipe'[j].op = "event" /\ Pipe'[j].run = Pipe'[i].run
                      => Pipe'[j].seq < Pipe'[i].seq
    <3>1. CASE i \in 1 .. Len(wire)
      <4>1. i \in 1 .. Len(Pipe) /\ Pipe'[i] = Pipe[i] /\ \A j \in 1 .. i - 1 : Pipe'[j] = Pipe[j]
        BY <1>5, <3>1
      <4>2. /\ Pipe[i].seq >= Due(Pipe[i].run)
            /\ Pipe[i].seq # Due(Pipe[i].run) =>
                 \E j \in 1 .. i - 1 : Pipe[j] = EventFrame(Pipe[i].run, Pipe[i].seq - 1)
            /\ \A j \in 1 .. i - 1 :
                 Pipe[j].op = "event" /\ Pipe[j].run = Pipe[i].run => Pipe[j].seq < Pipe[i].seq
        BY <2>1, <4>1 DEF InOrder, StreamInv
      <4> HIDE DEF Pipe
      <4> QED BY <4>1, <4>2
    <3>2. ASSUME NEW k \in 1 .. size, i = Len(wire) + k
          PROVE  /\ Pipe'[i].seq >= Due(Pipe'[i].run)
                 /\ Pipe'[i].seq # Due(Pipe'[i].run) =>
                      \E j \in 1 .. i - 1 : Pipe'[j] = EventFrame(Pipe'[i].run, Pipe'[i].seq - 1)
                 /\ \A j \in 1 .. i - 1 :
                      Pipe'[j].op = "event" /\ Pipe'[j].run = Pipe'[i].run
                        => Pipe'[j].seq < Pipe'[i].seq
      <4>1. /\ Pipe'[i].run = r /\ Pipe'[i].seq = server.from + k - 1
        <5>1. server.from + k - 1 \in Nat
          BY <1>1, <1>5
        <5> QED BY <1>5, <3>2, <5>1, FrameTypes
      <4>2. Pipe'[i].seq >= Due(Pipe'[i].run)
        BY <1>1, <1>4, <1>5, <4>1
      <4>3. ASSUME Pipe'[i].seq # Due(Pipe'[i].run)
            PROVE  \E j \in 1 .. i - 1 : Pipe'[j] = EventFrame(Pipe'[i].run, Pipe'[i].seq - 1)
        <5>1. k - 1 \in 1 .. size /\ server.from + (k - 1) - 1 = Pipe'[i].seq - 1
          BY <1>1, <1>4, <1>5, <4>1, <4>3
        <5>2. Pipe'[Len(wire) + (k - 1)] = EventFrame(r, Pipe'[i].seq - 1)
          BY <1>5, <5>1
        <5>3. Len(wire) + (k - 1) \in 1 .. i - 1
          BY <1>5, <3>2, <5>1
        <5> QED BY <4>1, <5>2, <5>3
      <4>4. ASSUME NEW j \in 1 .. i - 1, Pipe'[j].op = "event", Pipe'[j].run = Pipe'[i].run
            PROVE  Pipe'[j].seq < Pipe'[i].seq
        <5>1. j \in 1 .. Len(Pipe') /\ j # Len(wire) + size + 1
          BY <1>5, <3>2
        <5>2. j \notin 1 .. Len(wire)
          <6> SUFFICES ASSUME j \in 1 .. Len(wire) PROVE FALSE
            OBVIOUS
          <6>1. Pipe'[j] = Pipe[j] /\ Pipe[j] \in Frames /\ j \in 1 .. Len(Pipe)
            BY <1>5
          <6>2. Pipe[j] = EventFrame(r, Pipe[j].seq) /\ Pipe[j].seq \in Nat
            BY <4>1, <4>4, <6>1, FrameIs
          <6> QED BY <1>4, <6>1, <6>2 DEF InPipe
        <5>3. PICK m \in 1 .. size : j = Len(wire) + m
          BY <1>6, <5>1, <5>2
        <5>4. Pipe'[j].seq = server.from + m - 1 /\ m < k
          <6>1. m < k
            BY <1>5, <3>2, <4>4, <5>3
          <6>2. server.from + m - 1 \in Nat
            <7>1. m \in Nat /\ m >= 1 /\ server.from \in Nat
              BY <1>1, <1>5
            <7> QED BY <7>1
          <6>3. Pipe'[j] = EventFrame(r, server.from + m - 1)
            BY <1>5, <5>3
          <6> QED BY <6>1, <6>2, <6>3, FrameTypes
        <5> QED BY <1>1, <1>5, <4>1, <5>4
      <4> QED BY <4>2, <4>3, <4>4
    <3>3. i # Len(wire) + size + 1
      BY <1>5, <2>1, FrameTypes
    <3> QED BY <1>6, <3>1, <3>2, <3>3
  <2> QED BY <1>3, <2>1 DEF InOrder, EventFrame
<1>17. Announced'
  <2>1. ASSUME NEW i \in 1 .. Len(Pipe'), Pipe'[i].op = "caught_up",
               NEW n \in Nat, n <= Pipe'[i].seq, Due(Pipe'[i].run) <= n, Pipe'[i].seq > 0
        PROVE  \E j \in 1 .. i - 1 : Pipe'[j] = EventFrame(Pipe'[i].run, n)
    <3>1. CASE i \in 1 .. Len(wire)
      <4>1. i \in 1 .. Len(Pipe) /\ Pipe'[i] = Pipe[i] /\ \A j \in 1 .. i - 1 : Pipe'[j] = Pipe[j]
        BY <1>5, <3>1
      <4>2. \E j \in 1 .. i - 1 : Pipe[j] = EventFrame(Pipe[i].run, n)
        BY <2>1, <4>1 DEF Announced, StreamInv
      <4> QED BY <4>1, <4>2
    <3>2. ~(\E k \in 1 .. size : i = Len(wire) + k)
      <4> SUFFICES ASSUME NEW k \in 1 .. size, i = Len(wire) + k PROVE FALSE
        OBVIOUS
      <4>1. Pipe'[i] = EventFrame(r, server.from + k - 1)
        BY <1>5
      <4>2. EventFrame(r, server.from + k - 1).op = "event"
        BY DEF EventFrame
      <4> QED BY <2>1, <4>1, <4>2
    <3>3. CASE i = Len(wire) + size + 1
      <4>1. Pipe'[i].run = r /\ Pipe'[i].seq = last
        BY <1>5, <3>3, FrameTypes
      <4>2. n < log[r] /\ server.from <= n
        BY <1>1, <1>4, <2>1, <4>1 DEF last, LastOf
      <4>3. PICK k \in 1 .. size : Pipe'[Len(wire) + k] = EventFrame(r, n)
        BY <1>9, <4>2
      <4>4. Len(wire) + k \in 1 .. i - 1
        BY <1>5, <3>3
      <4> QED BY <4>1, <4>3, <4>4
    <3> QED BY <1>6, <3>1, <3>2, <3>3
  <2> QED BY <1>3, <2>1 DEF Announced, EventFrame
<1> QED
  BY <1>10, <1>11, <1>12, <1>13, <1>14, <1>15, <1>16, <1>17 DEF StreamInv

(* A frame that is sent stays in its place in the pipe. *)
LEMMA SendStep ==
    ASSUME StreamInv, StreamTypes', SendFrame PROVE StreamInv'
<1> USE DEF StreamInv
<1>0. PICK f \in Frames, r \in Runs, s \in Nat :
        /\ f = Head(server.todo) /\ f = server.todo[1] /\ r = f.run /\ s = f.seq
        /\ f.op = "event" => f = EventFrame(r, s)
  <2>1. server.todo \in Seq(Frames) /\ server.todo # <<>>
    BY DEF SendFrame, StreamTypes
  <2>2. Head(server.todo) \in Frames /\ Head(server.todo) = server.todo[1]
    BY <2>1, HeadTailProperties
  <2>3. Head(server.todo).run \in Runs /\ Head(server.todo).seq \in Nat
    BY <2>2 DEF Frames
  <2> QED BY <2>2, <2>3, FrameIs
<1>1. /\ server.todo # <<>> /\ UNCHANGED <<log, unsent, rx, client, stream>>
      /\ server.pc \notin {"gone", "accepted", "list"} /\ client.pc = "open"
      /\ server.todo \in Seq(Frames) /\ wire \in Seq(Frames) /\ server.last_sent \in [Runs -> Option(Nat)]
  BY DEF SendFrame, Connected, StreamTypes
<1>2. /\ wire' = Append(wire, f) /\ server'.todo = Tail(server.todo)
      /\ server'.from = server.from /\ server'.only = server.only /\ server'.pc = server.pc
      /\ server'.runs = server.runs
      /\ server'.last_sent = IF f.op = "event" THEN [server.last_sent EXCEPT ![r] = s]
                             ELSE server.last_sent
  BY <1>0 DEF SendFrame, StreamTypes
<1>3. /\ f \in Frames /\ r \in Runs /\ s \in Nat /\ f = server.todo[1]
      /\ f.op = "event" => f = EventFrame(r, s)
  BY <1>0
<1>4. FollowsAll' = FollowsAll /\ \A q : Asked(q)' = Asked(q) /\ Due(q)' = Due(q)
  BY <1>1 DEF FollowsAll, Asked, Due
<1>5. /\ Len(wire) \in Nat /\ Len(wire') = Len(wire) + 1 /\ wire'[Len(wire) + 1] = f
      /\ \A i \in 1 .. Len(wire) : wire'[i] = wire[i]
  BY <1>1, <1>2, <1>3, AppendProperties, LenProperties
<1>6. /\ Len(server.todo) \in Nat \ {0} /\ Len(server'.todo) = Len(server.todo) - 1
      /\ \A i \in 1 .. Len(server.todo) - 1 : server'.todo[i] = server.todo[i + 1]
  BY <1>1, <1>2, HeadTailProperties, LenProperties, EmptySeq
<1>7. /\ Len(Pipe) = Len(wire) + Len(server.todo)
      /\ \A i \in 1 .. Len(Pipe) : Pipe[i] \in Frames
      /\ \A i \in 1 .. Len(wire) : Pipe[i] = wire[i]
      /\ \A i \in 1 .. Len(server.todo) : Pipe[Len(wire) + i] = server.todo[i]
  BY PipeIs
<1>8. Pipe[Len(wire) + 1] = f /\ Len(wire) + 1 \in 1 .. Len(Pipe)
  BY <1>3, <1>5, <1>6, <1>7
<1>9. Len(Pipe') = Len(Pipe) /\ \A i \in 1 .. Len(Pipe) : Pipe'[i] = Pipe[i]
  <2>1. Len(Pipe') = Len(Pipe)
    <3>1. Len(Pipe') = Len(wire') + Len(server'.todo)
      BY NextPipeIs
    <3>2. /\ Len(wire) \in Nat /\ Len(wire') = Len(wire) + 1
          /\ Len(server.todo) \in Nat /\ Len(server'.todo) = Len(server.todo) - 1
          /\ Len(Pipe) = Len(wire) + Len(server.todo)
      BY <1>5, <1>6, <1>7
    <3>3. Len(wire') + Len(server'.todo) = Len(wire) + Len(server.todo)
      <4> DEFINE w == Len(wire)   w2 == Len(wire')
                 n == Len(server.todo)   n2 == Len(server'.todo)
      <4>1. w \in Nat /\ n \in Nat /\ w2 = w + 1 /\ n2 = n - 1
        BY <3>2
      <4> HIDE DEF w, w2, n, n2
      <4>2. w2 + n2 = w + n
        BY <4>1
      <4> QED BY <4>2 DEF w, w2, n, n2
    <3> HIDE DEF Pipe
    <3> QED BY <3>1, <3>2, <3>3, Zenon
  <2>2. ASSUME NEW i \in 1 .. Len(Pipe) PROVE Pipe'[i] = Pipe[i]
    <3>1. CASE i \in 1 .. Len(wire)
      <4>1. i \in 1 .. Len(wire')
        BY <1>5, <3>1
      <4> QED BY <1>5, <1>7, <3>1, <4>1, NextPipeIs
    <3>2. CASE i = Len(wire) + 1
      <4>1. i \in 1 .. Len(wire')
        BY <1>5, <3>2
      <4> QED BY <1>5, <1>8, <3>2, <4>1, NextPipeIs
    <3>3. ASSUME NEW k \in Int, k = i - Len(wire) - 1, i > Len(wire) + 1
          PROVE  Pipe'[i] = Pipe[i]
      <4>1. /\ k \in 1 .. Len(server.todo) - 1 /\ k + 1 \in 1 .. Len(server.todo)
            /\ i = Len(wire) + (k + 1) /\ i = Len(wire') + k
        BY <1>5, <1>6, <1>7, <3>3
      <4>2. Pipe'[i] = server'.todo[k]
        BY <1>6, <4>1, NextPipeIs
      <4>3. Pipe[i] = server.todo[k + 1]
        BY <1>7, <4>1
      <4> QED BY <1>6, <4>1, <4>2, <4>3
    <3>4. /\ i - Len(wire) - 1 \in Int
          /\ i \in 1 .. Len(wire) \/ i = Len(wire) + 1 \/ i > Len(wire) + 1
      BY <1>5
    <3>5. CASE i > Len(wire) + 1
      BY <3>3, <3>4, <3>5
    <3> QED BY <3>1, <3>2, <3>4, <3>5
  <2> QED BY <2>1, <2>2
<1>10. /\ \A q, n : InPipe(q, n)' = InPipe(q, n)
  BY <1>9 DEF InPipe, EventFrame
<1>11. \A q \in Runs, n \in Nat : InWire(q, n)' <=> InWire(q, n) \/ f = EventFrame(q, n)
  <2> SUFFICES ASSUME NEW q \in Runs, NEW n \in Nat
               PROVE  InWire(q, n)' <=> InWire(q, n) \/ f = EventFrame(q, n)
    OBVIOUS
  <2>1. InWire(q, n)' <=> \E i \in 1 .. Len(wire') : wire'[i] = EventFrame(q, n)
    BY DEF InWire, EventFrame
  <2>2. ASSUME NEW i \in 1 .. Len(wire'), wire'[i] = EventFrame(q, n)
        PROVE  InWire(q, n) \/ f = EventFrame(q, n)
    <3>1. CASE i \in 1 .. Len(wire)
      BY <1>5, <2>2, <3>1 DEF InWire
    <3>2. CASE i = Len(wire) + 1
      BY <1>5, <2>2, <3>2
    <3> QED BY <1>5, <3>1, <3>2
  <2>3. ASSUME f = EventFrame(q, n) PROVE InWire(q, n)'
    <3>1. Len(wire) + 1 \in 1 .. Len(wire')
      BY <1>5
    <3> QED BY <1>5, <2>1, <2>3, <3>1
  <2>4. ASSUME NEW i \in 1 .. Len(wire), wire[i] = EventFrame(q, n) PROVE InWire(q, n)'
    <3>1. i \in 1 .. Len(wire') /\ wire'[i] = EventFrame(q, n)
      BY <1>5, <2>4
    <3> QED BY <2>1, <3>1
  <2> QED BY <2>1, <2>2, <2>3, <2>4 DEF InWire
<1>12. Connected'
  BY <1>1, <1>2, <1>4 DEF Connected
<1>13. Received'
  BY <1>1, <1>4, <1>10 DEF Received
<1>14. InOrder'
  BY <1>4, <1>9 DEF InOrder, EventFrame
<1>15. Announced'
  BY <1>4, <1>9 DEF Announced, EventFrame
<1>16. SentSoFar'
  <2>1. ASSUME NEW q \in Runs, ~(f.op = "event" /\ q = r)
        PROVE  /\ \A n \in Nat : InWire(q, n)' <=> InWire(q, n)
               /\ server'.last_sent[q] = server.last_sent[q]
    <3>1. \A n \in Nat : f # EventFrame(q, n)
      BY <1>0, <2>1, FrameTypes
    <3> QED BY <1>1, <1>2, <1>11, <2>1, <3>1
  <2>2. ASSUME f.op = "event"
        PROVE  /\ server'.last_sent[r] = s /\ s # None /\ Due(r) <= s + 1
               /\ \A n \in Nat : InWire(r, n)' => n <= s
               /\ \A n \in Nat : Due(r) <= n /\ n <= s => InWire(r, n)'
    <3>1. server'.last_sent[r] = s /\ s # None
      BY <1>1, <1>2, <1>3, <2>2, NoneIsNothing
    <3>2. /\ s >= Due(r)
          /\ s # Due(r) => \E j \in 1 .. Len(wire) : Pipe[j] = EventFrame(r, s - 1)
          /\ \A j \in 1 .. Len(wire) : Pipe[j].op = "event" /\ Pipe[j].run = r => Pipe[j].seq < s
      <4>1. Len(wire) + 1 - 1 = Len(wire)
        BY <1>5
      <4> QED BY <1>0, <1>8, <2>2, <4>1 DEF InOrder
    <3>3. ASSUME NEW n \in Nat, InWire(r, n) PROVE n < s
      <4>1. PICK j \in 1 .. Len(wire) : Pipe[j] = EventFrame(r, n)
        BY <1>7, <3>3 DEF InWire
      <4> QED BY <1>3, <3>2, <4>1, FrameTypes
    <3>4. ASSUME NEW n \in Nat, Due(r) <= n, n < s PROVE InWire(r, n)
      <4>1. Due(r) \in Nat
        <5>1. client.asked.from \in Nat /\ stream[r] \in Seq(Nat)
          BY <1>3, SubscriberAssumption DEF StreamTypes
        <5> QED BY <5>1, LenProperties DEF Due
      <4>2. InWire(r, s - 1) /\ s - 1 \in Nat
        BY <1>3, <1>7, <3>2, <3>4, <4>1 DEF InWire
      <4>3. server.last_sent[r] # None
        BY <1>1, <1>3, <4>2 DEF SentSoFar
      <4>4. server.last_sent[r] \in Nat /\ s - 1 <= server.last_sent[r]
        BY <1>1, <1>3, <4>2, <4>3 DEF SentSoFar, Option
      <4>5. n <= server.last_sent[r]
        BY <1>3, <3>4, <4>4
      <4> QED BY <1>1, <1>3, <3>4, <4>3, <4>5 DEF SentSoFar
    <3>5. f = EventFrame(r, s)
      BY <1>3, <2>2
    <3>6. ASSUME NEW n \in Nat, InWire(r, n)' PROVE n <= s
      <4>1. InWire(r, n) \/ f = EventFrame(r, n)
        BY <1>3, <1>11, <3>6
      <4>2. f = EventFrame(r, n) => n = s
        BY <1>0, FrameTypes
      <4> QED BY <1>3, <3>3, <4>1, <4>2
    <3>7. ASSUME NEW n \in Nat, Due(r) <= n, n <= s PROVE InWire(r, n)'
      <4>1. CASE n = s
        BY <1>3, <1>11, <3>5, <4>1
      <4>2. CASE n < s
        BY <1>3, <1>11, <3>4, <3>7, <4>2
      <4> QED BY <1>3, <3>7, <4>1, <4>2
    <3>8. Due(r) <= s + 1
      <4>1. Due(r) \in Nat
        <5>1. client.asked.from \in Nat /\ stream[r] \in Seq(Nat)
          BY <1>3, SubscriberAssumption DEF StreamTypes
        <5> QED BY <5>1, LenProperties DEF Due
      <4> QED BY <1>3, <3>2, <4>1
    <3> QED BY <3>1, <3>6, <3>7, <3>8
  <2> SUFFICES ASSUME NEW q \in Runs
               PROVE  /\ Asked(q) => server.from <= Due(q)
                      /\ server'.last_sent[q] = None =>
                           /\ \A n \in Nat : ~InWire(q, n)'
                           /\ Asked(q) => Due(q) = server.from
                      /\ server'.last_sent[q] # None =>
                           /\ Due(q) <= server'.last_sent[q] + 1
                           /\ \A n \in Nat : InWire(q, n)' => n <= server'.last_sent[q]
                           /\ \A n \in Nat : Due(q) <= n /\ n <= server'.last_sent[q] => InWire(q, n)'
    BY <1>2, <1>4 DEF SentSoFar
  <2>3. Asked(q) => server.from <= Due(q)
    BY <1>1 DEF SentSoFar
  <2>4. CASE f.op = "event" /\ q = r
    BY <2>2, <2>3, <2>4
  <2>5. CASE ~(f.op = "event" /\ q = r)
    <3>1. /\ \A n \in Nat : InWire(q, n)' <=> InWire(q, n)
          /\ server'.last_sent[q] = server.last_sent[q]
      BY <2>1, <2>5
    <3> QED BY <1>1, <3>1 DEF SentSoFar
  <2> QED BY <2>4, <2>5
<1>17. NothingUnread'
  <2> SUFFICES ASSUME NEW q \in Runs, server.pc = "backlog", q \in server.runs
               PROVE  server'.last_sent[q] = None /\ \A n \in Nat : ~InPipe(q, n)
    BY <1>1, <1>2, <1>10 DEF NothingUnread, Unread
  <2>1. server.last_sent[q] = None /\ \A n \in Nat : ~InPipe(q, n)
    BY DEF NothingUnread, Unread
  <2>2. f.op = "event" => q # r
    BY <1>3, <1>8, <2>1 DEF InPipe
  <2> QED BY <1>1, <1>2, <2>1, <2>2
<1>18. BusInOrder'
  BY <1>1 DEF BusInOrder, Following
<1>19. NothingLost'
  BY <1>1, <1>2, <1>4, <1>10 DEF NothingLost, Following, OnBus
<1> QED
  BY <1>12, <1>13, <1>14, <1>15, <1>16, <1>17, <1>18, <1>19

(* The handler goes live when every backlog is read. *)
LEMMA GoLiveStep ==
    ASSUME StreamInv, StreamTypes', GoLive PROVE StreamInv'
<1> USE DEF StreamInv
<1>1. /\ server.pc = "backlog" /\ server.todo = <<>> /\ server.runs = {}
      /\ UNCHANGED <<log, unsent, rx, wire, client, stream>>
      /\ server' = [server EXCEPT !.pc = "live"]
  BY DEF GoLive
<1>2. /\ server'.pc = "live" /\ server'.todo = server.todo /\ server'.runs = server.runs
      /\ server'.from = server.from /\ server'.only = server.only
      /\ server'.last_sent = server.last_sent
  BY <1>1 DEF StreamTypes
<1>3. FollowsAll' = FollowsAll /\ \A q : Asked(q)' = Asked(q) /\ Due(q)' = Due(q)
  BY <1>1 DEF FollowsAll, Asked, Due
<1>4. /\ Pipe' = Pipe /\ \A q, n : InPipe(q, n)' = InPipe(q, n)
      /\ \A q, n : InWire(q, n)' = InWire(q, n)
  BY <1>1, <1>2 DEF Pipe, InPipe, InWire, EventFrame
<1>5. Connected'
  BY <1>1, <1>2, <1>3 DEF Connected
<1>6. Received'
  BY <1>1, <1>3, <1>4 DEF Received
<1>7. InOrder' /\ Announced'
  BY <1>3, <1>4 DEF InOrder, Announced, EventFrame
<1>8. SentSoFar'
  BY <1>1, <1>2, <1>3, <1>4 DEF SentSoFar
<1>9. NothingUnread'
  BY <1>2 DEF NothingUnread, Unread
<1>10. BusInOrder'
  BY <1>1 DEF BusInOrder, Following
<1>11. NothingLost'
  BY <1>1, <1>2, <1>3, <1>4 DEF NothingLost, Following, OnBus
<1> QED
  BY <1>5, <1>6, <1>7, <1>8, <1>9, <1>10, <1>11

(* Of what the bus brings, the handler passes on what is next. *)
LEMMA LiveStep ==
    ASSUME StreamInv, StreamTypes', LiveEvent PROVE StreamInv'
<1> USE DEF StreamInv
<1>1. /\ server.pc = "live" /\ server.todo = <<>> /\ Following /\ rx.queue # <<>>
      /\ UNCHANGED <<log, unsent, wire, client, stream>> /\ client.pc = "open"
      /\ server.only = client.asked.run
  BY DEF LiveEvent, Connected, Following
<1>2. PICK e \in Events, r \in Runs, s \in Nat :
        /\ e = Head(rx.queue) /\ e = rx.queue[1] /\ e = [run |-> r, seq |-> s]
        /\ r = e.run /\ s = e.seq
  <2>1. Head(rx.queue) \in Events /\ Head(rx.queue) = rx.queue[1]
    BY <1>1, HeadOfBus DEF Following
  <2>2. /\ Head(rx.queue).run \in Runs /\ Head(rx.queue).seq \in Nat
        /\ Head(rx.queue) = [run |-> Head(rx.queue).run, seq |-> Head(rx.queue).seq]
    BY <2>1 DEF Events
  <2> QED BY <2>1, <2>2
<1>3. /\ rx \in [queue : Seq(Events), lagged : BOOLEAN]
      /\ rx' = [rx EXCEPT !.queue = Tail(@)]
      /\ rx'.queue = Tail(rx.queue) /\ rx'.lagged = rx.lagged /\ rx' # None
      /\ Len(rx.queue) \in Nat \ {0} /\ Len(rx'.queue) = Len(rx.queue) - 1
      /\ \A j \in 1 .. Len(rx.queue) - 1 : rx'.queue[j] = rx.queue[j + 1]
      /\ \A j \in 1 .. Len(rx.queue) : rx.queue[j] \in Events
  <2>1. /\ rx \in [queue : Seq(Events), lagged : BOOLEAN]
        /\ Tail(rx.queue) \in Seq(Events) /\ Len(rx.queue) \in Nat \ {0}
        /\ Len(Tail(rx.queue)) = Len(rx.queue) - 1
        /\ \A j \in 1 .. Len(Tail(rx.queue)) : Tail(rx.queue)[j] = rx.queue[j + 1]
    BY <1>1, HeadOfBus DEF Following
  <2>2. rx' = [rx EXCEPT !.queue = Tail(@)]
    BY DEF LiveEvent
  <2>3. /\ rx'.queue = Tail(rx.queue) /\ rx'.lagged = rx.lagged
        /\ rx' \in [queue : Seq(Events), lagged : BOOLEAN]
    BY <2>1, <2>2
  <2>4. \A j \in 1 .. Len(rx.queue) : rx.queue[j] \in Events
    BY <2>1
  <2> QED BY <2>1, <2>2, <2>3, <2>4, NoneIsNothing
<1>4. FollowsAll' = FollowsAll /\ \A q : /\ Asked(q)' = Asked(q) /\ Due(q)' = Due(q)
                                        /\ \A n : InWire(q, n)' = InWire(q, n)
  BY <1>1 DEF FollowsAll, Asked, Due, InWire, EventFrame
<1>5. /\ Len(wire) \in Nat /\ Len(Pipe) = Len(wire)
      /\ \A i \in 1 .. Len(wire) : Pipe[i] = wire[i] /\ Pipe[i] \in Frames
  <2>1. Len(server.todo) = 0
    BY <1>1
  <2> QED BY <2>1, PipeIs
<1>6. \A q \in Runs : Due(q) \in Nat
  <2> SUFFICES ASSUME NEW q \in Runs PROVE Due(q) \in Nat
    OBVIOUS
  <2>1. client.asked.from \in Nat /\ stream[q] \in Seq(Nat)
    BY AskedTypes
  <2> QED BY <2>1, LenProperties DEF Due
<1>7. \A q \in Runs, n \in Nat : InWire(q, n) <=> InPipe(q, n)
  BY <1>5 DEF InWire, InPipe
<1>8. BusInOrder'
  <2>1. /\ unsent' = unsent /\ log' = log
        /\ unsent # None => log[unsent.run] = unsent.seq + 1
    BY <1>1 DEF BusInOrder
  <2>2. ASSUME NEW j \in 1 .. Len(rx'.queue)
        PROVE  /\ rx'.queue[j].seq < log[rx'.queue[j].run]
               /\ unsent # None /\ unsent.run = rx'.queue[j].run => rx'.queue[j].seq < unsent.seq
               /\ \A i \in 1 .. j - 1 : rx'.queue[i].run = rx'.queue[j].run
                                            => rx'.queue[i].seq < rx'.queue[j].seq
    <3>1. /\ j + 1 \in 1 .. Len(rx.queue) /\ rx'.queue[j] = rx.queue[j + 1]
          /\ \A i \in 1 .. j - 1 : i + 1 \in 1 .. j + 1 - 1 /\ rx'.queue[i] = rx.queue[i + 1]
      BY <1>3
    <3>2. /\ rx.queue[j + 1].seq < log[rx.queue[j + 1].run]
          /\ unsent # None /\ unsent.run = rx.queue[j + 1].run => rx.queue[j + 1].seq < unsent.seq
          /\ \A i \in 1 .. j + 1 - 1 : rx.queue[i].run = rx.queue[j + 1].run
                                           => rx.queue[i].seq < rx.queue[j + 1].seq
      BY <1>1, <3>1 DEF BusInOrder
    <3> HIDE DEF StreamInv
    <3> QED BY <3>1, <3>2
  <2> QED BY <2>1, <2>2 DEF BusInOrder
<1>9. \A q \in Runs, n \in Nat : OnBus(q, n) => OnBus(q, n)' \/ (q = r /\ n = s)
  <2> SUFFICES ASSUME NEW q \in Runs, NEW n \in Nat, OnBus(q, n)
               PROVE  OnBus(q, n)' \/ (q = r /\ n = s)
    OBVIOUS
  <2>1. CASE unsent = [run |-> q, seq |-> n]
    BY <1>1, <2>1 DEF OnBus
  <2>2. ASSUME NEW j \in 1 .. Len(rx.queue), rx.queue[j] = [run |-> q, seq |-> n]
        PROVE  OnBus(q, n)' \/ (q = r /\ n = s)
    <3>1. CASE j = 1
      BY <1>2, <2>2, <3>1
    <3>2. ASSUME j # 1 PROVE OnBus(q, n)'
      <4>1. /\ j - 1 \in 1 .. Len(rx.queue) - 1 /\ j - 1 + 1 = j
            /\ j - 1 \in 1 .. Len(rx'.queue)
        BY <1>3, <3>2
      <4>2. rx'.queue[j - 1] = [run |-> q, seq |-> n]
        BY <1>3, <2>2, <4>1
      <4> QED BY <4>1, <4>2 DEF OnBus
    <3> QED BY <3>1, <3>2
  <2> QED BY <2>1, <2>2 DEF OnBus
<1>10. Asked(r) /\ Wanted(e) => s >= Due(r) /\ \A n \in Nat : InWire(r, n) => n < s
  <2> SUFFICES ASSUME Asked(r), Wanted(e)
               PROVE  s >= Due(r) /\ \A n \in Nat : InWire(r, n) => n < s
    OBVIOUS
  <2>1. CASE server.last_sent[r] = None
    <3>1. Due(r) = server.from /\ \A n \in Nat : ~InWire(r, n)
      BY <1>1, <2>1 DEF SentSoFar
    <3> QED BY <1>2, <3>1 DEF Wanted
  <2>2. CASE server.last_sent[r] # None
    <3>1. /\ Due(r) <= server.last_sent[r] + 1 /\ server.last_sent[r] \in Nat
          /\ \A n \in Nat : InWire(r, n) => n <= server.last_sent[r]
      BY <1>1, <2>2 DEF SentSoFar, StreamTypes, Option
    <3>2. s > server.last_sent[r]
      BY <1>2, <2>2 DEF Wanted
    <3> HIDE DEF StreamInv
    <3> QED BY <1>6, <3>1, <3>2
  <2> QED BY <2>1, <2>2
<1>11. Asked(r) /\ Wanted(e) /\ s # Due(r) => InWire(r, s - 1) /\ s - 1 \in Nat
  <2> SUFFICES ASSUME Asked(r), Wanted(e), s # Due(r)
               PROVE  InWire(r, s - 1) /\ s - 1 \in Nat
    OBVIOUS
  <2>1. s - 1 \in Nat /\ Due(r) <= s - 1
    BY <1>6, <1>10
  <2>2. s < log[r] /\ log[r] \in Nat
    <3>1. rx.queue[1].seq < log[rx.queue[1].run]
      BY <1>1, <1>3 DEF BusInOrder
    <3> QED BY <1>2, <3>1 DEF StreamTypes
  <2>3. InPipe(r, s - 1) \/ OnBus(r, s - 1)
    <3>1. s - 1 < log[r]
      BY <2>1, <2>2
    <3>2. r \notin server.runs
      BY <1>1 DEF Connected
    <3> QED BY <1>1, <2>1, <3>1, <3>2 DEF NothingLost
  <2>4. ~OnBus(r, s - 1)
    <3>1. unsent # [run |-> r, seq |-> s - 1]
      <4> SUFFICES ASSUME unsent = [run |-> r, seq |-> s - 1] PROVE FALSE
        OBVIOUS
      <4>1. unsent # None /\ unsent.run = r /\ unsent.seq = s - 1
        <5>1. [run |-> r, seq |-> s - 1] \in Events
          BY <2>1 DEF Events
        <5> QED BY <5>1, NoneIsNothing
      <4>2. rx.queue[1].seq < unsent.seq
        <5>1. 1 \in 1 .. Len(rx.queue) /\ rx.queue[1].run = r
          BY <1>2, <1>3
        <5> QED BY <1>1, <4>1, <5>1 DEF BusInOrder
      <4> QED BY <1>2, <4>1, <4>2
    <3>2. ASSUME NEW j \in 1 .. Len(rx.queue), rx.queue[j] = [run |-> r, seq |-> s - 1] PROVE FALSE
      <4>1. rx.queue[j].run = r /\ rx.queue[j].seq = s - 1
        BY <3>2
      <4>2. j # 1 /\ 1 \in 1 .. j - 1
        BY <1>2, <1>3, <4>1
      <4>3. rx.queue[1].seq < rx.queue[j].seq
        BY <1>1, <1>2, <4>1, <4>2 DEF BusInOrder
      <4> QED BY <1>2, <4>1, <4>3
    <3> QED BY <3>1, <3>2 DEF OnBus
  <2> QED BY <1>7, <2>1, <2>3, <2>4
<1>12. CASE ~Wanted(e)
  <2>1. server' = server
    BY <1>2, <1>12 DEF LiveEvent
  <2>2. Asked(r) => InPipe(r, s) \/ s < Due(r)
    <3> SUFFICES ASSUME Asked(r), s >= Due(r) PROVE InPipe(r, s)
      BY <1>6
    <3>1. server.from <= s
      <4>1. server.from <= Due(r) /\ server.from \in Nat
        BY <1>1 DEF SentSoFar, StreamTypes
      <4> QED BY <1>6, <4>1
    <3>2. server.only \in {None, r}
      BY <1>1 DEF Asked
    <3>3. server.last_sent[r] # None /\ ~(s > server.last_sent[r])
      BY <1>2, <1>12, <3>1, <3>2 DEF Wanted
    <3>4. server.last_sent[r] \in Nat
      BY <3>3 DEF StreamTypes, Option
    <3>5. InWire(r, s)
      BY <1>1, <3>3, <3>4 DEF SentSoFar
    <3> QED BY <1>7, <3>5
  <2>3. NothingLost'
    <3> SUFFICES ASSUME NEW q \in Runs, q \notin server.runs, Asked(q),
                        NEW n \in Nat, Due(q) <= n, n < log[q]
                 PROVE  InPipe(q, n) \/ OnBus(q, n)'
      BY <1>1, <2>1, PipeSame DEF NothingLost
    <3>1. InPipe(q, n) \/ OnBus(q, n)
      BY <1>1 DEF NothingLost
    <3>2. q = r /\ n = s => InPipe(q, n)
      BY <1>6, <2>2
    <3> QED BY <1>9, <3>1, <3>2
  <2>4. Connected'
    BY <1>1, <1>3, <1>4, <2>1 DEF Connected
  <2>5. UNCHANGED <<wire, server, client, stream>>
    BY <1>1, <2>1
  <2> QED BY <1>8, <2>3, <2>4, <2>5, PipeKept
<1>13. CASE Wanted(e)
  <2>1. server' = [server EXCEPT !.todo = <<EventFrame(r, s)>>]
    BY <1>2, <1>13 DEF LiveEvent
  <2>2. /\ server'.todo = <<EventFrame(r, s)>> /\ server'.pc = "live" /\ server'.runs = server.runs
        /\ server'.from = server.from /\ server'.only = server.only
        /\ server'.last_sent = server.last_sent
    BY <1>1, <2>1 DEF StreamTypes
  <2>3. Asked(r)
    BY <1>1, <1>2, <1>13 DEF Wanted, Asked
  <2>4. /\ Len(Pipe') = Len(wire) + 1 /\ Pipe'[Len(wire) + 1] = EventFrame(r, s)
        /\ \A i \in 1 .. Len(wire) : Pipe'[i] = Pipe[i]
    <3>1. Len(server'.todo) = 1 /\ server'.todo[1] = EventFrame(r, s) /\ wire' = wire
      BY <1>1, <2>2
    <3>2. Pipe'[Len(wire) + 1] = EventFrame(r, s)
      BY <3>1, NextPipeIs
    <3>3. Len(Pipe') = Len(wire) + 1
      BY <3>1, NextPipeIs
    <3>4. \A i \in 1 .. Len(wire) : Pipe'[i] = Pipe[i]
      BY <1>5, <3>1, NextPipeIs
    <3> QED BY <3>2, <3>3, <3>4
  <2>5. \A q \in Runs, n \in Nat : InPipe(q, n)' <=> InPipe(q, n) \/ (q = r /\ n = s)
    <3> SUFFICES ASSUME NEW q \in Runs, NEW n \in Nat
                 PROVE  InPipe(q, n)' <=> InPipe(q, n) \/ (q = r /\ n = s)
      OBVIOUS
    <3>1. InPipe(q, n)' <=> \E i \in 1 .. Len(Pipe') : Pipe'[i] = EventFrame(q, n)
      BY DEF InPipe, EventFrame
    <3>2. ASSUME NEW i \in 1 .. Len(Pipe'), Pipe'[i] = EventFrame(q, n)
          PROVE  InPipe(q, n) \/ (q = r /\ n = s)
      <4>1. CASE i \in 1 .. Len(wire)
        BY <1>5, <2>4, <3>2, <4>1 DEF InPipe
      <4>2. CASE i = Len(wire) + 1
        BY <2>4, <3>2, <4>2, FrameTypes
      <4> QED BY <1>5, <2>4, <4>1, <4>2
    <3>3. ASSUME q = r, n = s PROVE InPipe(q, n)'
      <4>1. Len(wire) + 1 \in 1 .. Len(Pipe')
        BY <1>5, <2>4
      <4> QED BY <2>4, <3>1, <3>3, <4>1
    <3>4. ASSUME NEW i \in 1 .. Len(Pipe), Pipe[i] = EventFrame(q, n) PROVE InPipe(q, n)'
      <4>1. i \in 1 .. Len(Pipe') /\ Pipe'[i] = EventFrame(q, n)
        BY <1>5, <2>4, <3>4
      <4> QED BY <3>1, <4>1
    <3> QED BY <3>1, <3>2, <3>3, <3>4 DEF InPipe
  <2>6. Connected'
    BY <1>1, <1>3, <1>4, <2>2 DEF Connected
  <2>7. Received'
    BY <1>1, <1>4, <2>3, <2>5 DEF Received
  <2>8. SentSoFar'
    BY <1>1, <1>4, <2>2 DEF SentSoFar
  <2>9. NothingUnread'
    BY <2>2 DEF NothingUnread, Unread
  <2>10. NothingLost'
    <3> SUFFICES ASSUME NEW q \in Runs, q \notin server.runs, Asked(q),
                        NEW n \in Nat, Due(q) <= n, n < log[q]
                 PROVE  InPipe(q, n)' \/ OnBus(q, n)'
      BY <1>1, <1>4, <2>2 DEF NothingLost
    <3>1. InPipe(q, n) \/ OnBus(q, n)
      BY <1>1 DEF NothingLost
    <3> QED BY <1>9, <2>5, <3>1
  <2> HIDE DEF StreamInv
  <2>11. InOrder'
    <3>1. ASSUME NEW i \in 1 .. Len(Pipe'), Pipe'[i].op = "event"
          PROVE  /\ Pipe'[i].seq >= Due(Pipe'[i].run)
                 /\ Pipe'[i].seq # Due(Pipe'[i].run) =>
                      \E j \in 1 .. i - 1 : Pipe'[j] = EventFrame(Pipe'[i].run, Pipe'[i].seq - 1)
                 /\ \A j \in 1 .. i - 1 :
                      Pipe'[j].op = "event" /\ Pipe'[j].run = Pipe'[i].run
                        => Pipe'[j].seq < Pipe'[i].seq
      <4>1. CASE i \in 1 .. Len(wire)
        <5>1. i \in 1 .. Len(Pipe) /\ Pipe'[i] = Pipe[i] /\ \A j \in 1 .. i - 1 : Pipe'[j] = Pipe[j]
          BY <1>5, <2>4, <4>1
        <5>2. /\ Pipe[i].seq >= Due(Pipe[i].run)
              /\ Pipe[i].seq # Due(Pipe[i].run) =>
                   \E j \in 1 .. i - 1 : Pipe[j] = EventFrame(Pipe[i].run, Pipe[i].seq - 1)
              /\ \A j \in 1 .. i - 1 :
                   Pipe[j].op = "event" /\ Pipe[j].run = Pipe[i].run => Pipe[j].seq < Pipe[i].seq
          BY <3>1, <5>1 DEF InOrder, StreamInv
        <5> QED BY <5>1, <5>2
      <4>2. CASE i = Len(wire) + 1
        <5>1. Pipe'[i].run = r /\ Pipe'[i].seq = s
          BY <2>4, <4>2, FrameTypes
        <5>2. /\ i - 1 = Len(wire)
              /\ \A j \in 1 .. i - 1 : Pipe'[j] = Pipe[j] /\ Pipe[j] = wire[j] /\ Pipe[j] \in Frames
          BY <1>5, <2>4, <4>2
        <5>3. s # Due(r) => \E j \in 1 .. i - 1 : Pipe'[j] = EventFrame(r, s - 1)
          BY <1>11, <1>13, <2>3, <5>2 DEF InWire
        <5>4. ASSUME NEW j \in 1 .. i - 1, Pipe'[j].op = "event", Pipe'[j].run = r
              PROVE  Pipe'[j].seq < s
          <6>1. wire[j] = EventFrame(r, Pipe'[j].seq) /\ Pipe'[j].seq \in Nat
            BY <5>2, <5>4, FrameIs
          <6>2. InWire(r, Pipe[j].seq)
            BY <5>2, <6>1 DEF InWire
          <6> QED BY <1>10, <1>13, <2>3, <5>2, <6>1, <6>2
        <5> QED BY <1>10, <1>13, <2>3, <5>1, <5>3, <5>4
      <4> QED BY <1>5, <2>4, <4>1, <4>2
    <3> QED BY <1>4, <3>1 DEF InOrder, EventFrame
  <2>12. Announced'
    <3>1. ASSUME NEW i \in 1 .. Len(Pipe'), Pipe'[i].op = "caught_up",
                 NEW n \in Nat, n <= Pipe'[i].seq, Due(Pipe'[i].run) <= n, Pipe'[i].seq > 0
          PROVE  \E j \in 1 .. i - 1 : Pipe'[j] = EventFrame(Pipe'[i].run, n)
      <4>1. i # Len(wire) + 1
        BY <2>4, <3>1, FrameTypes
      <4>2. i \in 1 .. Len(Pipe) /\ Pipe'[i] = Pipe[i] /\ \A j \in 1 .. i - 1 : Pipe'[j] = Pipe[j]
        BY <1>5, <2>4, <4>1
      <4>3. \E j \in 1 .. i - 1 : Pipe[j] = EventFrame(Pipe[i].run, n)
        BY <3>1, <4>2 DEF Announced, StreamInv
      <4> QED BY <4>2, <4>3
    <3> QED BY <1>4, <3>1 DEF Announced, EventFrame
  <2> QED
    BY <1>8, <2>6, <2>7, <2>8, <2>9, <2>10, <2>11, <2>12 DEF StreamInv
<1> QED
  BY <1>12, <1>13

-----------------------------------------------------------------------------
(* The client takes the first frame of the pipe: if it is an event, it is the
   one the client is due. *)
LEMMA MessageStep ==
    ASSUME StreamInv, StreamTypes', OnMessage PROVE StreamInv'
<1> USE DEF StreamInv
<1>0. PICK f \in Frames, r \in Runs, s \in Nat :
        /\ f = Head(wire) /\ f = wire[1] /\ r = f.run /\ s = f.seq
        /\ f.op = "event" => f = EventFrame(r, s)
  <2>1. wire \in Seq(Frames) /\ wire # <<>>
    BY DEF OnMessage, StreamTypes
  <2>2. Head(wire) \in Frames /\ Head(wire) = wire[1]
    BY <2>1, HeadTailProperties
  <2>3. Head(wire).run \in Runs /\ Head(wire).seq \in Nat
    BY <2>2 DEF Frames
  <2> QED BY <2>2, <2>3, FrameIs
<1>1. /\ client.pc = "open" /\ UNCHANGED <<log, unsent, rx, server>> /\ wire' = Tail(wire)
      /\ wire # <<>> /\ wire \in Seq(Frames) /\ stream \in [Runs -> Seq(Nat)]
  BY DEF OnMessage, StreamTypes
<1>2. /\ Len(wire) \in Nat \ {0} /\ Len(wire') = Len(wire) - 1
      /\ \A i \in 1 .. Len(wire) - 1 : wire'[i] = wire[i + 1]
  BY <1>1, HeadTailProperties, LenProperties, EmptySeq
<1>3. /\ Len(server.todo) \in Nat /\ Len(Pipe) = Len(wire) + Len(server.todo)
      /\ \A i \in 1 .. Len(Pipe) : Pipe[i] \in Frames
      /\ Pipe[1] = f /\ 1 \in 1 .. Len(Pipe)
  <2>1. 1 \in 1 .. Len(wire)
    BY <1>2
  <2> QED BY <1>0, <1>2, <2>1, PipeIs
<1>4. /\ Len(Pipe') = Len(Pipe) - 1
      /\ \A i \in 1 .. Len(Pipe') : Pipe'[i] = Pipe[i + 1] /\ i + 1 \in 1 .. Len(Pipe)
  <2>1. Len(Pipe') = Len(Pipe) - 1
    <3>1. Len(Pipe') = Len(wire') + Len(server.todo)
      BY <1>1, NextPipeIs
    <3>2. Len(wire') + Len(server.todo) = Len(wire) + Len(server.todo) - 1
      BY <1>2, <1>3
    <3>3. Len(Pipe) = Len(wire) + Len(server.todo)
      BY <1>3
    <3>4. Len(Pipe) - 1 = Len(wire) + Len(server.todo) - 1
      BY <3>3
    <3> QED BY <3>1, <3>2, <3>4, Zenon
  <2>2. ASSUME NEW i \in 1 .. Len(Pipe') PROVE i + 1 \in 1 .. Len(Pipe)
    BY <1>2, <1>3, <2>1
  <2>3. ASSUME NEW i \in 1 .. Len(Pipe') PROVE Pipe'[i] = Pipe[i + 1]
    <3>1. i \in 1 .. Len(wire) + Len(server.todo) - 1
      BY <1>2, <1>3, <2>1
    <3>2. CASE i \in 1 .. Len(wire) - 1
      <4>1. i \in 1 .. Len(wire') /\ i + 1 \in 1 .. Len(wire)
        BY <1>2, <3>2
      <4> QED BY <1>2, <3>2, <4>1, PipeIs, NextPipeIs
    <3>3. ASSUME NEW k \in Int, k = i - Len(wire) + 1, i >= Len(wire)
          PROVE  Pipe'[i] = Pipe[i + 1]
      <4>1. /\ k \in 1 .. Len(server.todo) /\ i + 1 = Len(wire) + k /\ i = Len(wire') + k
        BY <1>2, <1>3, <3>1, <3>3
      <4>2. Pipe'[i] = server.todo[k]
        BY <1>1, <4>1, NextPipeIs
      <4>3. Pipe[i + 1] = server.todo[k]
        BY <4>1, PipeIs
      <4> QED BY <4>2, <4>3
    <3>4. /\ i - Len(wire) + 1 \in Int
          /\ \/ i \in 1 .. Len(wire) - 1
             \/ i >= Len(wire)
      BY <1>2, <3>1
    <3>5. CASE i >= Len(wire)
      BY <3>3, <3>4, <3>5
    <3> QED BY <3>2, <3>4, <3>5
  <2> QED BY <2>1, <2>2, <2>3
<1>lengths. Len(Pipe) \in Nat /\ Len(Pipe') \in Nat
  BY <1>2, <1>3, <1>4
<1>5. \A q \in Runs : Due(q) \in Nat
  <2> SUFFICES ASSUME NEW q \in Runs PROVE Due(q) \in Nat
    OBVIOUS
  <2>1. client.asked.from \in Nat /\ stream[q] \in Seq(Nat)
    BY AskedTypes
  <2> QED BY <2>1, LenProperties DEF Due
<1>6. f.op = "event" => s = Due(r)
  <2> SUFFICES ASSUME f.op = "event", s # Due(r) PROVE FALSE
    OBVIOUS
  <2>1. \E j \in 1 .. 1 - 1 : Pipe[j] = EventFrame(r, s - 1)
    BY <1>0, <1>3 DEF InOrder
  <2> QED BY <2>1
<1>7. f.op = "event" => Asked(r)
  <2>1. f.op = "event" => InPipe(r, s)
    BY <1>0, <1>3 DEF InPipe
  <2> QED BY <2>1 DEF Received
<1>8. /\ client'.asked = client.asked /\ client'.pc = client.pc /\ client'.resume = client.resume
      /\ f.op = "event" /\ ~FollowsAll => client'.observed = s
      /\ ~(f.op = "event" /\ ~FollowsAll) => client'.observed = client.observed
  BY <1>0 DEF OnMessage, StreamTypes
<1>9. stream' = IF f.op = "event" THEN [stream EXCEPT ![r] = Append(@, s)] ELSE stream
  BY <1>0 DEF OnMessage
<1>10. FollowsAll' = FollowsAll /\ \A q : Asked(q)' = Asked(q)
  BY <1>8 DEF FollowsAll, Asked
<1>11. /\ f.op = "event" => Len(stream'[r]) = Len(stream[r]) + 1
       /\ \A q \in Runs : ~(f.op = "event" /\ q = r) => stream'[q] = stream[q]
       /\ f.op = "event" => /\ stream'[r] # <<>> /\ stream'[r][Len(stream[r]) + 1] = s
                            /\ \A i \in 1 .. Len(stream[r]) : stream'[r][i] = stream[r][i]
  <2>1. stream[r] \in Seq(Nat)
    BY <1>1
  <2>2. /\ f.op = "event" => stream'[r] = Append(stream[r], s)
        /\ \A q \in Runs : ~(f.op = "event" /\ q = r) => stream'[q] = stream[q]
    BY <1>1, <1>9
  <2>3. /\ Len(Append(stream[r], s)) = Len(stream[r]) + 1 /\ Append(stream[r], s) # <<>>
        /\ Append(stream[r], s)[Len(stream[r]) + 1] = s
        /\ \A i \in 1 .. Len(stream[r]) : Append(stream[r], s)[i] = stream[r][i]
    BY <2>1, AppendProperties
  <2> QED BY <2>2, <2>3
<1>12. /\ f.op = "event" => Due(r)' = Due(r) + 1
       /\ \A q \in Runs : ~(f.op = "event" /\ q = r) => Due(q)' = Due(q)
  <2>1. client.asked.from \in Nat /\ stream[r] \in Seq(Nat)
    BY AskedTypes
  <2>2. Len(stream[r]) \in Nat
    BY <2>1, LenProperties
  <2>3. f.op = "event" => Due(r)' = Due(r) + 1
    BY <1>8, <1>11, <2>1, <2>2 DEF Due
  <2> QED BY <1>8, <1>11, <2>3 DEF Due
<1>13. \A q \in Runs : Due(q)' \in Nat /\ Due(q) <= Due(q)'
  BY <1>5, <1>12
<1>14. \A q \in Runs, n \in Nat : Due(q)' <= n => f # EventFrame(q, n)
  <2>1. ASSUME NEW q \in Runs, NEW n \in Nat, Due(q)' <= n PROVE f # EventFrame(q, n)
    <3>1. f = EventFrame(q, n) => f.op = "event" /\ q = r /\ n = s
      BY <1>0, FrameTypes
    <3>2. f.op = "event" /\ q = r => Due(q)' = s + 1
      BY <1>6, <1>12
    <3> QED BY <2>1, <3>1, <3>2
  <2> QED BY <2>1
<1>15. \A q \in Runs : Due(q)' # Due(q) => f = EventFrame(q, Due(q)) /\ f.op = "event" /\ Due(q)' = Due(q) + 1
  BY <1>0, <1>6, <1>12
<1>16. \A q \in Runs, n \in Nat : InPipe(q, n)' => InPipe(q, n)
  <2> SUFFICES ASSUME NEW q \in Runs, NEW n \in Nat, NEW i \in 1 .. Len(Pipe'), Pipe'[i] = EventFrame(q, n)
               PROVE  InPipe(q, n)
    BY DEF InPipe, EventFrame
  <2> QED BY <1>4 DEF InPipe
<1>17. \A q \in Runs, n \in Nat : InPipe(q, n) /\ Due(q)' <= n => InPipe(q, n)'
  <2> SUFFICES ASSUME NEW q \in Runs, NEW n \in Nat, Due(q)' <= n, NEW i \in 1 .. Len(Pipe),
                      Pipe[i] = EventFrame(q, n)
               PROVE  \E j \in 1 .. Len(Pipe') : Pipe'[j] = EventFrame(q, n)
    BY DEF InPipe, EventFrame
  <2>1. i # 1
    BY <1>3, <1>14
  <2>2. i - 1 \in 1 .. Len(Pipe') /\ i - 1 + 1 = i
    BY <1>2, <1>3, <1>4, <2>1
  <2>3. Pipe'[i - 1] = EventFrame(q, n)
    BY <1>4, <2>2
  <2> QED BY <2>2, <2>3
<1>18. \A q \in Runs, n \in Nat : InWire(q, n)' => InWire(q, n)
  <2> SUFFICES ASSUME NEW q \in Runs, NEW n \in Nat, NEW i \in 1 .. Len(wire'), wire'[i] = EventFrame(q, n)
               PROVE  InWire(q, n)
    BY DEF InWire, EventFrame
  <2>1. i + 1 \in 1 .. Len(wire) /\ wire[i + 1] = EventFrame(q, n)
    BY <1>2
  <2> QED BY <2>1 DEF InWire
<1>19. \A q \in Runs, n \in Nat : InWire(q, n) /\ Due(q)' <= n => InWire(q, n)'
  <2> SUFFICES ASSUME NEW q \in Runs, NEW n \in Nat, Due(q)' <= n, NEW i \in 1 .. Len(wire),
                      wire[i] = EventFrame(q, n)
               PROVE  \E j \in 1 .. Len(wire') : wire'[j] = EventFrame(q, n)
    BY DEF InWire, EventFrame
  <2>1. i # 1
    BY <1>0, <1>14
  <2>2. i - 1 \in 1 .. Len(wire') /\ i - 1 + 1 = i /\ i - 1 \in 1 .. Len(wire) - 1
    BY <1>2, <2>1
  <2>3. wire'[i - 1] = EventFrame(q, n)
    BY <1>2, <2>2
  <2> QED BY <2>2, <2>3
<1>20. Connected'
  <2>1. ASSUME ~FollowsAll
        PROVE  client'.observed = IF stream'[client.asked.run] = <<>> THEN None
                                  ELSE Due(client.asked.run)' - 1
    <3>1. client.asked.run \in Runs
      BY <2>1, SubscriberAssumption DEF StreamTypes, FollowsAll
    <3>2. CASE f.op = "event"
      <4>1. r = client.asked.run
        BY <1>7, <2>1, <3>2 DEF Asked, FollowsAll
      <4>2. Due(r)' - 1 = s
        BY <1>5, <1>6, <1>12, <3>2
      <4>3. Due(client.asked.run)' = Due(r)'
        BY <1>8, <4>1 DEF Due
      <4> QED BY <1>8, <1>11, <2>1, <3>2, <4>1, <4>2, <4>3
    <3>3. CASE f.op # "event"
      <4>1. stream' = stream /\ client'.observed = client.observed
        BY <1>8, <1>9, <3>3
      <4>2. Due(client.asked.run)' = Due(client.asked.run)
        BY <1>8, <4>1 DEF Due
      <4> QED BY <2>1, <4>1, <4>2 DEF Connected
    <3> QED BY <3>2, <3>3
  <2>2. /\ client'.asked = client.asked /\ client'.pc = "open"
        /\ server' = server /\ rx' = rx /\ server.pc \notin {"accepted", "list"}
    BY <1>1, <1>8 DEF Connected
  <2> QED BY <1>8, <1>10, <2>1, <2>2 DEF Connected
<1>21. Received'
  <2> SUFFICES ASSUME NEW q \in Runs
               PROVE  /\ \A i \in 1 .. Len(stream'[q]) : stream'[q][i] = client.asked.from + i - 1
                      /\ ~Asked(q) => stream'[q] = <<>> /\ \A n \in Nat : ~InPipe(q, n)'
    BY <1>8, <1>10 DEF Received
  <2>1. CASE f.op = "event" /\ q = r
    <3>1. client.asked.from \in Nat /\ Len(stream[r]) \in Nat
      <4>1. stream[r] \in Seq(Nat) /\ client.asked.from \in Nat
        BY <1>1, AskedTypes
      <4> QED BY <4>1, LenProperties
    <3>2. s = client.asked.from + (Len(stream[r]) + 1) - 1
      BY <1>6, <2>1, <3>1 DEF Due
    <3>3. \A i \in 1 .. Len(stream[r]) : stream[r][i] = client.asked.from + i - 1
      BY DEF Received
    <3>4. \A i \in 1 .. Len(stream'[r]) : stream'[r][i] = client.asked.from + i - 1
      <4>1. /\ Len(stream'[r]) = Len(stream[r]) + 1
            /\ stream'[r][Len(stream[r]) + 1] = s
            /\ \A i \in 1 .. Len(stream[r]) : stream'[r][i] = stream[r][i]
        BY <1>11, <2>1
      <4>2. \A i \in 1 .. Len(stream'[r]) :
              i \in 1 .. Len(stream[r]) \/ i = Len(stream[r]) + 1
        BY <3>1, <4>1
      <4> QED BY <3>2, <3>3, <4>1, <4>2
    <3> QED BY <1>7, <2>1, <3>4
  <2>2. CASE ~(f.op = "event" /\ q = r)
    BY <1>11, <1>16, <2>2 DEF Received
  <2> QED BY <2>1, <2>2
<1>22. SentSoFar'
  <2> SUFFICES ASSUME server.pc # "gone", NEW q \in Runs
               PROVE  /\ Asked(q) => server.from <= Due(q)'
                      /\ server.last_sent[q] = None =>
                           /\ \A n \in Nat : ~InWire(q, n)'
                           /\ Asked(q) => Due(q)' = server.from
                      /\ server.last_sent[q] # None =>
                           /\ Due(q)' <= server.last_sent[q] + 1
                           /\ \A n \in Nat : InWire(q, n)' => n <= server.last_sent[q]
                           /\ \A n \in Nat : Due(q)' <= n /\ n <= server.last_sent[q] => InWire(q, n)'
    BY <1>1, <1>10 DEF SentSoFar
  <2>1. Asked(q) => server.from <= Due(q)'
    <3>1. server.from \in Nat /\ (Asked(q) => server.from <= Due(q))
      BY DEF SentSoFar, StreamTypes
    <3> QED BY <1>5, <1>13, <3>1
  <2>2. Due(q)' # Due(q) => InWire(q, Due(q))
    <3>1. 1 \in 1 .. Len(wire)
      BY <1>2
    <3> QED BY <1>0, <1>15, <3>1 DEF InWire
  <2>3. ASSUME server.last_sent[q] = None
        PROVE  /\ \A n \in Nat : ~InWire(q, n)'
               /\ Asked(q) => Due(q)' = server.from
    BY <1>5, <1>18, <2>2, <2>3 DEF SentSoFar
  <2>4. ASSUME server.last_sent[q] # None
        PROVE  /\ Due(q)' <= server.last_sent[q] + 1
               /\ \A n \in Nat : InWire(q, n)' => n <= server.last_sent[q]
               /\ \A n \in Nat : Due(q)' <= n /\ n <= server.last_sent[q] => InWire(q, n)'
    <3>1. server.last_sent[q] \in Nat
      BY <2>4 DEF StreamTypes, Option
    <3>2. /\ Due(q) <= server.last_sent[q] + 1
          /\ \A n \in Nat : InWire(q, n) => n <= server.last_sent[q]
          /\ \A n \in Nat : Due(q) <= n /\ n <= server.last_sent[q] => InWire(q, n)
      BY <2>4 DEF SentSoFar
    <3> HIDE DEF StreamInv
    <3>3. Due(q)' <= server.last_sent[q] + 1
      BY <1>5, <1>15, <2>2, <3>1, <3>2
    <3>4. \A n \in Nat : Due(q)' <= n => Due(q) <= n
      BY <1>5, <1>13
    <3> QED BY <1>18, <1>19, <3>2, <3>3, <3>4
  <2> QED BY <2>1, <2>3, <2>4
<1>23. NothingUnread'
  BY <1>1, <1>16 DEF NothingUnread, Unread
<1>24. BusInOrder'
  BY <1>1 DEF BusInOrder, Following
<1>25. NothingLost'
  <2> SUFFICES ASSUME Following, NEW q \in Runs, server.pc \in {"backlog", "live"}, q \notin server.runs,
                      Asked(q), NEW n \in Nat, Due(q)' <= n, n < log[q]
               PROVE  InPipe(q, n)' \/ OnBus(q, n)
    BY <1>1, <1>10 DEF NothingLost, Following, OnBus
  <2>1. Due(q) <= n
    BY <1>5, <1>13
  <2> QED BY <1>17, <2>1 DEF NothingLost
<1> HIDE DEF StreamInv
<1>26. InOrder'
  <2>1. ASSUME NEW i \in 1 .. Len(Pipe'), Pipe'[i].op = "event",
               NEW q \in Runs, NEW n \in Nat, q = Pipe'[i].run, n = Pipe'[i].seq
        PROVE  /\ n >= Due(q)'
               /\ n # Due(q)' => \E j \in 1 .. i - 1 : Pipe'[j] = EventFrame(q, n - 1)
               /\ \A j \in 1 .. i - 1 : Pipe'[j].op = "event" /\ Pipe'[j].run = q => Pipe'[j].seq < n
    <3>1. /\ i + 1 \in 1 .. Len(Pipe) /\ Pipe'[i] = Pipe[i + 1] /\ i + 1 - 1 = i
          /\ \A j \in 1 .. i - 1 : Pipe'[j] = Pipe[j + 1] /\ j + 1 \in 1 .. i
      BY <1>4, <1>lengths
    <3>2. /\ n >= Due(q)
          /\ n # Due(q) => \E j \in 1 .. i : Pipe[j] = EventFrame(q, n - 1)
          /\ \A j \in 1 .. i : Pipe[j].op = "event" /\ Pipe[j].run = q => Pipe[j].seq < n
      BY <2>1, <3>1 DEF InOrder, StreamInv
    <3>3. n >= Due(q)'
      <4>1. CASE Due(q)' = Due(q)
        BY <3>2, <4>1
      <4>2. CASE Due(q)' # Due(q)
        <5>1. f = EventFrame(q, Due(q)) /\ Due(q)' = Due(q) + 1 /\ Due(q) \in Nat
          BY <1>5, <1>15, <4>2
        <5>2. Pipe[1].op = "event" /\ Pipe[1].run = q /\ Pipe[1].seq = Due(q) /\ 1 \in 1 .. i
          BY <1>3, <5>1, FrameTypes
        <5>3. Due(q) < n
          BY <3>2, <5>2
        <5> QED BY <5>1, <5>3
      <4> QED BY <4>1, <4>2
    <3>4. ASSUME n # Due(q)' PROVE \E j \in 1 .. i - 1 : Pipe'[j] = EventFrame(q, n - 1)
      <4>1. n # Due(q) /\ n - 1 \in Nat /\ Due(q)' <= n - 1
        BY <1>5, <1>13, <3>3, <3>4
      <4>2. PICK j \in 1 .. i : Pipe[j] = EventFrame(q, n - 1)
        BY <3>2, <4>1
      <4>3. j # 1
        BY <1>3, <1>14, <4>1, <4>2
      <4>4. j - 1 \in 1 .. i - 1 /\ j - 1 + 1 = j
        BY <4>3
      <4>5. Pipe'[j - 1] = EventFrame(q, n - 1)
        BY <3>1, <4>2, <4>4
      <4> QED BY <4>4, <4>5
    <3>5. \A j \in 1 .. i - 1 : Pipe'[j].op = "event" /\ Pipe'[j].run = q => Pipe'[j].seq < n
      BY <3>1, <3>2
    <3> QED BY <3>3, <3>4, <3>5
  <2>2. \A i \in 1 .. Len(Pipe') : Pipe'[i].run \in Runs /\ Pipe'[i].seq \in Nat
    BY <1>3, <1>4 DEF Frames
  <2>3. \A q : Due(q)' = client'.asked.from + Len(stream'[q])
    BY DEF Due
  <2> QED BY <2>1, <2>2, <2>3 DEF InOrder, EventFrame, Due
<1>27. Announced'
  <2>1. ASSUME NEW i \in 1 .. Len(Pipe'), Pipe'[i].op = "caught_up", NEW q \in Runs, q = Pipe'[i].run,
               NEW n \in Nat, n <= Pipe'[i].seq, Due(q)' <= n, Pipe'[i].seq > 0
        PROVE  \E j \in 1 .. i - 1 : Pipe'[j] = EventFrame(q, n)
    <3>1. /\ i + 1 \in 1 .. Len(Pipe) /\ Pipe'[i] = Pipe[i + 1] /\ i + 1 - 1 = i
          /\ \A j \in 1 .. i - 1 : Pipe'[j] = Pipe[j + 1]
      <4>1. i \in Nat /\ i + 1 - 1 = i /\ \A j \in 1 .. i - 1 : j \in 1 .. Len(Pipe')
        BY <1>lengths
      <4> QED BY <1>4, <4>1, Zenon
    <3>2. Due(q) <= n
      BY <1>5, <1>13, <2>1
    <3>3. PICK j \in 1 .. i : Pipe[j] = EventFrame(q, n)
      BY <2>1, <3>1, <3>2 DEF Announced, StreamInv
    <3>4. j # 1
      BY <1>3, <1>14, <2>1, <3>3
    <3>5. j - 1 \in 1 .. i - 1 /\ j - 1 + 1 = j
      BY <3>4
    <3>6. Pipe'[j - 1] = EventFrame(q, n)
      BY <3>1, <3>3, <3>5
    <3> QED BY <3>5, <3>6
  <2>2. \A i \in 1 .. Len(Pipe') : Pipe'[i].run \in Runs
    BY <1>3, <1>4 DEF Frames
  <2> QED BY <2>1, <2>2 DEF Announced, EventFrame, Due
<1> QED
  BY <1>20, <1>21, <1>22, <1>23, <1>24, <1>25, <1>26, <1>27 DEF StreamInv

-----------------------------------------------------------------------------
(* Nothing is on its way in the beginning. *)
LEMMA StreamInit ==
    ASSUME Init PROVE StreamInv
<1>1. /\ log = [r \in Runs |-> 0] /\ unsent = None /\ rx = None /\ wire = <<>>
      /\ server.pc = "gone" /\ server.todo = <<>> /\ stream = [r \in Runs |-> <<>>]
  BY DEF Init, Gone, NoReceiver
<1>2. PICK q \in Subscriptions :
        client = [asked |-> q, pc |-> "connecting", resume |-> q.from, observed |-> None, attempt |-> 0]
  BY DEF Init
<1>3. q.from \in Nat /\ (q.run = None => q.from = 0) /\ q.run \in Option(Runs)
  BY SubscriberAssumption, NoneIsNothing DEF Option
<1>4. StreamTypes
  <2>1. /\ <<>> \in Seq(Frames) /\ \A r \in Runs : stream[r] \in Seq(Nat)
    BY <1>1
  <2>2. client \in [asked : Subscriptions,
                    pc : {"connecting", "open", "waiting", "gave_up", "stopped"},
                    resume : Nat, observed : Option(Nat), attempt : Nat]
    BY <1>2, <1>3 DEF Option
  <2>3. server \in [pc : {"gone", "accepted", "list", "backlog", "live"},
                    only : Option(Runs), from : Nat, runs : SUBSET Runs, todo : Seq(Frames),
                    last_sent : [Runs -> Option(Nat)]]
    BY GoneTypes DEF Init
  <2> QED BY <1>1, <2>1, <2>2, <2>3 DEF StreamTypes, Option
<1>5. Len(Pipe) = 0 /\ Len(wire) = 0
  <2>1. Pipe = <<>> \o <<>>
    BY <1>1 DEF Pipe
  <2> QED BY <1>1, <2>1
<1>6. InOrder /\ Announced /\ \A r, n : ~InPipe(r, n)
  BY <1>5 DEF InOrder, Announced, InPipe
<1>7. \A r \in Runs : Len(stream[r]) = 0 /\ stream[r] = <<>>
  BY <1>1
<1>8. Connected
  <2>1. client.pc = "connecting" /\ client.resume = q.from /\ client.asked = q /\ client.observed = None
    BY <1>2
  <2>2. ASSUME ~FollowsAll PROVE q.run \in Runs /\ Due(q.run) = q.from
    <3>1. q.run \in Runs
      BY <1>3, <2>1, <2>2 DEF FollowsAll, Option
    <3> QED BY <1>3, <1>7, <2>1, <3>1 DEF Due
  <2>3. FollowsAll => client.resume = 0
    BY <1>3, <2>1 DEF FollowsAll
  <2>4. ~FollowsAll => stream[q.run] = <<>>
    BY <1>7, <2>2
  <2> QED BY <1>1, <2>1, <2>2, <2>3, <2>4 DEF Connected
<1>9. Received
  BY <1>6, <1>7 DEF Received
<1>10. SentSoFar /\ NothingUnread /\ BusInOrder /\ NothingLost
  BY <1>1 DEF SentSoFar, NothingUnread, Unread, BusInOrder, NothingLost, Following
<1> QED
  BY <1>4, <1>6, <1>8, <1>9, <1>10 DEF StreamInv

(* Every step keeps the invariant. *)
LEMMA StreamNext ==
    ASSUME StreamInv, [Next]_vars PROVE StreamInv'
<1>1. StreamTypes'
  BY TypesStep DEF StreamInv
<1>2. ASSUME NEW r \in Runs, AppendEvent(r) PROVE StreamInv'
  BY <1>1, <1>2, AppendStep
<1>3. CASE Broadcast
  BY <1>1, <1>3, BroadcastStep
<1>4. CASE SubscribeToBus
  BY <1>1, <1>4, SubscribeStep
<1>5. CASE ListRuns
  BY <1>1, <1>5, ListStep
<1>6. ASSUME NEW r \in Runs, ReadBacklog(r) PROVE StreamInv'
  BY <1>1, <1>6, BacklogStep
<1>7. CASE SendFrame
  BY <1>1, <1>7, SendStep
<1>8. CASE GoLive
  BY <1>1, <1>8, GoLiveStep
<1>9. CASE LiveEvent
  BY <1>1, <1>9, LiveStep
<1>10. CASE LiveLagged \/ Drop \/ Crash
  BY <1>1, <1>10, HangUpStep
<1>11. CASE Open
  BY <1>1, <1>11, OpenStep
<1>12. CASE ConnectFails \/ OnClose \/ Reconnect \/ Unsubscribe \/ ChangeClient
  BY <1>1, <1>12, ApartStep
<1>13. CASE OnMessage
  BY <1>1, <1>13, MessageStep
<1>14. CASE UNCHANGED vars
  <2>1. /\ UNCHANGED <<wire, server, client, stream>> /\ UNCHANGED <<log, unsent, rx>>
    BY <1>14 DEF vars
  <2>2. Connected'
    BY <2>1 DEF StreamInv, Connected, FollowsAll, Due, Asked
  <2>3. BusInOrder'
    BY <2>1 DEF StreamInv, BusInOrder, Following
  <2>4. NothingLost'
    BY <2>1, PipeSame DEF StreamInv, NothingLost, Following, OnBus
  <2> QED BY <1>1, <2>1, <2>2, <2>3, <2>4, PipeKept DEF StreamInv
<1> QED
  BY <1>2, <1>3, <1>4, <1>5, <1>6, <1>7, <1>8, <1>9, <1>10, <1>11, <1>12, <1>13, <1>14
     DEF Next, Handler, Client

(* An event is followed from the Log to the client without a gap. *)
THEOREM StreamIsSound == Spec => []StreamInv
<1>1. Init => StreamInv
  BY StreamInit
<1>2. StreamInv /\ [Next]_vars => StreamInv'
  BY StreamNext
<1> QED
  BY <1>1, <1>2, PTL DEF Spec

(* A subscriber gets the events of a run from the one it asked for on, each
   once and in order, over any number of reconnections. *)
THEOREM NothingIsMissedOrDoubled == Spec => []NothingMissedNothingTwice
<1>1. StreamInv => NothingMissedNothingTwice
  <2> SUFFICES ASSUME StreamInv, NEW r \in Runs
               PROVE  stream[r] = [i \in 1 .. Len(stream[r]) |-> client.asked.from + i - 1]
    BY DEF NothingMissedNothingTwice
  <2>1. stream[r] \in Seq(Nat)
    BY DEF StreamInv, StreamTypes
  <2>2. \A i \in 1 .. Len(stream[r]) : stream[r][i] = client.asked.from + i - 1
    BY DEF StreamInv, Received
  <2>3. stream[r] = [i \in 1 .. Len(stream[r]) |-> stream[r][i]]
    BY <2>1
  <2> QED BY <2>2, <2>3
<1> QED
  BY <1>1, StreamIsSound, PTL

(* What is announced as caught up was sent before the announcement. *)
THEOREM CaughtUpIsMeant == Spec => []CaughtUpMeansIt
<1>1. StreamInv => CaughtUpMeansIt
  <2> SUFFICES ASSUME StreamInv, NEW i \in 1 .. Len(wire), wire[i].op = "caught_up", wire[i].seq > 0,
                      NEW n \in client.asked.from .. wire[i].seq
               PROVE  \/ \E k \in DOMAIN stream[wire[i].run] : stream[wire[i].run][k] = n
                      \/ \E j \in 1 .. i - 1 : wire[j] = EventFrame(wire[i].run, n)
    <3>1. StreamInv => DOMAIN wire = 1 .. Len(wire)
      BY DEF StreamInv, StreamTypes
    <3> QED BY <3>1 DEF CaughtUpMeansIt
  <2>1. /\ Len(wire) \in Nat /\ Len(server.todo) \in Nat
        /\ Len(Pipe) = Len(wire) + Len(server.todo)
        /\ \A j \in 1 .. Len(Pipe) : Pipe[j] \in Frames
        /\ \A j \in 1 .. Len(wire) : Pipe[j] = wire[j]
    BY PipeIs DEF StreamInv
  <2>2. i \in 1 .. Len(Pipe) /\ \A j \in 1 .. i : Pipe[j] = wire[j]
    BY <2>1
  <2>3. PICK r \in Runs : r = wire[i].run
    BY <2>1, <2>2 DEF Frames
  <2>4. wire[i].seq \in Nat
    BY <2>1, <2>2 DEF Frames
  <2>5. client.asked.from \in Nat /\ n \in Nat /\ n <= wire[i].seq /\ client.asked.from <= n
    <3>1. client.asked.from \in Nat
      BY SubscriberAssumption DEF StreamInv, StreamTypes
    <3> QED BY <2>4, <3>1
  <2>6. stream[r] \in Seq(Nat) /\ Len(stream[r]) \in Nat /\ DOMAIN stream[r] = 1 .. Len(stream[r])
    <3>1. stream[r] \in Seq(Nat)
      BY DEF StreamInv, StreamTypes
    <3> QED BY <3>1, LenProperties
  <2>7. CASE n < Due(r)
    <3>1. n - client.asked.from + 1 \in 1 .. Len(stream[r])
      <4>1. n < client.asked.from + Len(stream[r])
        BY <2>7 DEF Due
      <4>2. client.asked.from \in Nat /\ n \in Nat /\ client.asked.from <= n /\ Len(stream[r]) \in Nat
        BY <2>5, <2>6
      <4> QED BY <4>1, <4>2, SMT
    <3>2. stream[r][n - client.asked.from + 1] = client.asked.from + (n - client.asked.from + 1) - 1
      BY <3>1 DEF StreamInv, Received
    <3>3. stream[r][n - client.asked.from + 1] = n
      BY <2>5, <3>2
    <3> QED BY <2>3, <2>6, <3>1, <3>3
  <2>8. CASE ~(n < Due(r))
    <3>1. Due(r) <= n
      BY <2>5, <2>6, <2>8 DEF Due
    <3>2. PICK j \in 1 .. i - 1 : Pipe[j] = EventFrame(r, n)
      <4>1. Pipe[i] = wire[i] /\ i \in 1 .. Len(Pipe)
        BY <2>2
      <4>2. Announced
        BY DEF StreamInv
      <4>3. n \in Nat /\ n <= Pipe[i].seq /\ Due(Pipe[i].run) <= n
            /\ Pipe[i].seq > 0 /\ Pipe[i].op = "caught_up" /\ Pipe[i].run = r
        BY <2>3, <2>5, <3>1, <4>1
      <4> QED BY <4>1, <4>2, <4>3, Zenon DEF Announced
    <3>3. wire[j] = EventFrame(r, n)
      BY <2>2, <3>2
    <3> QED BY <2>3, <3>3
  <2> QED BY <2>7, <2>8
<1> QED
  BY <1>1, StreamIsSound, PTL

-----------------------------------------------------------------------------
(* The app's view.  Its events are those of a prefix of the Log, so that the
   one that comes next is known already or is the next of them: sorting it in
   changes nothing. *)
LEMMA SortedIn ==
    ASSUME NEW n \in Nat, NEW seqs \in Seq(Nat), Len(seqs) = n + 1,
           \A i \in 1 .. n + 1 : seqs[i] = i - 1
    PROVE  BySeq(seqs) = seqs
<1>1. DOMAIN seqs = 1 .. n + 1 /\ seqs = [k \in 1 .. n + 1 |-> seqs[k]]
  OBVIOUS
<1>2. ASSUME NEW i \in 1 .. n + 1
      PROVE  Place(seqs, i) = i
  <2>1. \A j \in 1 .. n + 1 : seqs[j] < seqs[i] \/ (seqs[j] = seqs[i] /\ j <= i) <=> j \in 1 .. i
    OBVIOUS
  <2>2. {j \in DOMAIN seqs : seqs[j] < seqs[i] \/ (seqs[j] = seqs[i] /\ j <= i)} = 1 .. i
    BY <1>1, <2>1
  <2>3. Cardinality(1 .. i) = i
    BY FS_Interval
  <2> QED
    BY <2>2, <2>3 DEF Place
<1>3. ASSUME NEW k \in 1 .. n + 1
      PROVE  (CHOOSE i \in DOMAIN seqs : Place(seqs, i) = k) = k
  BY <1>1, <1>2
<1>4. BySeq(seqs) = [k \in 1 .. n + 1 |-> seqs[CHOOSE i \in DOMAIN seqs : Place(seqs, i) = k]]
  BY <1>1 DEF BySeq
<1> QED
  BY <1>1, <1>3, <1>4

(* Folding the next event of a prefix of the Log, or an earlier one, gives the
   prefix with it. *)
LEMMA FoldedIs ==
    ASSUME NEW view \in Seq(Nat), \A i \in 1 .. Len(view) : view[i] = i - 1,
           NEW s \in Nat, s <= Len(view)
    PROVE  /\ Folded(view, s) \in Seq(Nat)
           /\ \A i \in 1 .. Len(Folded(view, s)) : Folded(view, s)[i] = i - 1
           /\ Len(Folded(view, s)) = IF s < Len(view) THEN Len(view) ELSE Len(view) + 1
           /\ Folded(view, s) = IF s < Len(view) THEN view ELSE Append(view, s)
<1>1. Len(view) \in Nat /\ DOMAIN view = 1 .. Len(view)
  OBVIOUS
<1>2. CASE s < Len(view)
  <2>1. s + 1 \in DOMAIN view /\ view[s + 1] = s
    BY <1>1, <1>2
  <2>2. Folded(view, s) = view
    BY <2>1 DEF Folded
  <2> QED
    BY <1>2, <2>2
<1>3. CASE s = Len(view)
  <2>1. \A i \in DOMAIN view : view[i] # s
    BY <1>1, <1>3
  <2> DEFINE longer == Append(view, s)
  <2>2. /\ longer \in Seq(Nat) /\ Len(longer) = Len(view) + 1
        /\ \A i \in 1 .. Len(view) + 1 : longer[i] = i - 1
    BY <1>1, <1>3
  <2>3. BySeq(longer) = longer
    <3> HIDE DEF longer
    <3> QED BY <1>1, <2>2, SortedIn
  <2>4. Folded(view, s) = longer
    BY <2>1, <2>3 DEF Folded
  <2> HIDE DEF longer
  <2>5. /\ \A i \in 1 .. Len(longer) : longer[i] = i - 1
        /\ Len(longer) = IF s < Len(view) THEN Len(view) ELSE Len(view) + 1
    BY <1>1, <1>3, <2>2
  <2>6. longer = IF s < Len(view) THEN view ELSE Append(view, s)
    <3>1. ~(s < Len(view))
      BY <1>1, <1>3
    <3> QED
      BY <3>1, Zenon DEF longer
  <2> QED
    BY <2>2, <2>4, <2>5, <2>6, Zenon
<1>4. s < Len(view) \/ s = Len(view)
  <2> DEFINE n == Len(view)
  <2>1. n \in Nat /\ s <= n
    BY <1>1
  <2> HIDE DEF n
  <2>2. s < n \/ s = n
    BY <2>1
  <2> QED
    BY <2>2 DEF n
<1> QED
  BY <1>2, <1>3, <1>4, Zenon

(* What is sent or about to be is in the Log. *)
SentIsLogged ==
    /\ \A i \in 1 .. Len(wire) : wire[i].op = "event" => wire[i].seq < log[wire[i].run]
    /\ \A i \in 1 .. Len(server.todo) :
         server.todo[i].op = "event" => server.todo[i].seq < log[server.todo[i].run]

(* The view of a run is a prefix of its Log, no shorter than what came. *)
ViewIsPrefix ==
    /\ shown \in [Runs -> Seq(Nat)]
    /\ FollowsAll => \A r \in Runs :
         /\ \A i \in 1 .. Len(shown[r]) : shown[r][i] = i - 1
         /\ Len(stream[r]) <= Len(shown[r]) /\ Len(shown[r]) <= log[r]

ViewInv == StreamInv /\ SentIsLogged /\ ViewIsPrefix

(* The Log only grows. *)
LEMMA LogGrows ==
    ASSUME StreamTypes, [Next]_vars, NEW r \in Runs
    PROVE  log[r] \in Nat /\ log'[r] \in Nat /\ log[r] <= log'[r]
<1>1. log \in [Runs -> Nat]
  BY DEF StreamTypes
<1>2. CASE \E q \in Runs : AppendEvent(q)
  <2>1. PICK q \in Runs : log' = [log EXCEPT ![q] = @ + 1]
    BY <1>2 DEF AppendEvent
  <2> QED
    BY <1>1, <2>1
<1>3. CASE ~\E q \in Runs : AppendEvent(q)
  <2>1. log' = log
    BY <1>3 DEF Next, Broadcast, Handler, SubscribeToBus, ListRuns, ReadBacklog, SendFrame, GoLive,
         LiveEvent, LiveLagged, Drop, Crash, Open, ConnectFails, Client, OnMessage, OnClose,
         Reconnect, Unsubscribe, ChangeClient, vars
  <2> QED
    BY <1>1, <2>1
<1> QED
  BY <1>2, <1>3

(* Nothing is sent that is not in the Log. *)
LEMMA LoggedStep ==
    ASSUME StreamInv, SentIsLogged, [Next]_vars
    PROVE  SentIsLogged'
<1> USE DEF StreamInv
<1>1. /\ wire \in Seq(Frames) /\ server.todo \in Seq(Frames)
      /\ Len(wire) \in Nat /\ Len(server.todo) \in Nat
      /\ \A i \in 1 .. Len(wire) : wire[i] \in Frames
      /\ \A i \in 1 .. Len(server.todo) : server.todo[i] \in Frames
  BY LenProperties, ElementOfSeq DEF StreamTypes
<1> DEFINE Logged(f) == f.op = "event" => f.seq < log[f.run]
<1>2. \A f \in Frames : Logged(f) => Logged(f)'
  <2> SUFFICES ASSUME NEW f \in Frames, Logged(f) PROVE Logged(f)'
    OBVIOUS
  <2>1. f.run \in Runs /\ f.seq \in Nat
    BY DEF Frames
  <2> QED
    BY <2>1, LogGrows
<1>3. /\ \A i \in 1 .. Len(wire) : Logged(wire[i])
      /\ \A i \in 1 .. Len(server.todo) : Logged(server.todo[i])
  BY DEF SentIsLogged
<1>4. ASSUME wire' = wire \/ wire' = <<>> \/ (wire # <<>> /\ wire' = Tail(wire)),
             server'.todo = server.todo \/ server'.todo = <<>>
      PROVE  SentIsLogged'
  <2>1. ASSUME NEW i \in 1 .. Len(wire')
        PROVE  wire'[i].op = "event" => wire'[i].seq < log'[wire'[i].run]
    <3>1. CASE wire' = wire
      BY <1>1, <1>2, <1>3, <2>1, <3>1
    <3>2. CASE wire' = <<>>
      BY <2>1, <3>2
    <3>3. CASE wire # <<>> /\ wire' = Tail(wire)
      <4>1. i + 1 \in 1 .. Len(wire) /\ wire'[i] = wire[i + 1]
        BY <1>1, <2>1, <3>3, HeadTailProperties
      <4> QED
        BY <1>1, <1>2, <1>3, <4>1
    <3> QED
      BY <1>4, <3>1, <3>2, <3>3
  <2>2. ASSUME NEW i \in 1 .. Len(server'.todo)
        PROVE  server'.todo[i].op = "event" => server'.todo[i].seq < log'[server'.todo[i].run]
    <3>1. CASE server'.todo = server.todo
      BY <1>1, <1>2, <1>3, <2>2, <3>1
    <3>2. CASE server'.todo = <<>>
      BY <2>2, <3>2
    <3> QED
      BY <1>4, <3>1, <3>2
  <2> QED
    BY <2>1, <2>2 DEF SentIsLogged
<1>5. ASSUME NEW r \in Runs, ReadBacklog(r)
      PROVE  SentIsLogged'
  <2> DEFINE from == server.from
             backlog == BacklogOf(r, from)
             end == CaughtUpFrame(r, LastOf(r, from))
  <2>1. UNCHANGED <<wire, log>> /\ server'.todo = Append(backlog, end)
    BY <1>5 DEF ReadBacklog, StreamTypes
  <2>2. from \in Nat /\ log[r] \in Nat
    BY DEF StreamTypes
  <2>3. /\ backlog \in Seq(Frames) /\ end \in Frames /\ end.op # "event"
        /\ Len(backlog) = IF log[r] > from THEN log[r] - from ELSE 0
        /\ \A i \in 1 .. Len(backlog) : backlog[i] = EventFrame(r, from + i - 1)
    BY <2>2, BacklogIs, FrameTypes
  <2> HIDE DEF backlog, end, from
  <2>4. /\ Len(server'.todo) = Len(backlog) + 1
        /\ \A i \in 1 .. Len(backlog) : server'.todo[i] = backlog[i]
        /\ server'.todo[Len(backlog) + 1] = end
    BY <2>1, <2>3, AppendProperties
  <2>5. ASSUME NEW i \in 1 .. Len(server'.todo), server'.todo[i].op = "event"
        PROVE  server'.todo[i].seq < log[server'.todo[i].run]
    <3>1. Len(backlog) \in Nat /\ i \in 1 .. Len(backlog) + 1
      BY <2>2, <2>3, <2>4
    <3>2. i \in 1 .. Len(backlog)
      BY <2>3, <2>4, <2>5, <3>1
    <3>3. server'.todo[i] = EventFrame(r, from + i - 1) /\ from + i - 1 \in Nat
      BY <2>2, <2>3, <2>4, <3>2
    <3>4. from + i - 1 < log[r]
      BY <2>2, <2>3, <3>2
    <3> QED
      BY <3>3, <3>4, FrameTypes
  <2> QED
    BY <2>1, <2>5, <1>3 DEF SentIsLogged
<1>6. CASE SendFrame
  <2> DEFINE f == Head(server.todo)
  <2>1. /\ server.todo # <<>> /\ wire' = Append(wire, f) /\ log' = log
        /\ server'.todo = Tail(server.todo)
    BY <1>6 DEF SendFrame, StreamTypes
  <2>2. /\ f \in Frames /\ f = server.todo[1] /\ Len(server.todo) > 0
        /\ Len(server'.todo) = Len(server.todo) - 1
        /\ \A i \in 1 .. Len(server.todo) - 1 : server'.todo[i] = server.todo[i + 1]
    BY <1>1, <2>1, HeadTailProperties, EmptySeq
  <2> HIDE DEF f
  <2>3. /\ Len(wire') = Len(wire) + 1 /\ wire'[Len(wire) + 1] = f
        /\ \A i \in 1 .. Len(wire) : wire'[i] = wire[i]
    BY <1>1, <2>1, <2>2, AppendProperties
  <2>4. f.op = "event" => f.seq < log[f.run]
    BY <1>1, <1>3, <2>2
  <2>5. ASSUME NEW i \in 1 .. Len(wire'), wire'[i].op = "event"
        PROVE  wire'[i].seq < log[wire'[i].run]
    <3>1. i \in 1 .. Len(wire) \/ i = Len(wire) + 1
      BY <1>1, <2>3
    <3> QED
      BY <1>3, <2>3, <2>4, <2>5, <3>1
  <2>6. ASSUME NEW i \in 1 .. Len(server'.todo), server'.todo[i].op = "event"
        PROVE  server'.todo[i].seq < log[server'.todo[i].run]
    <3>1. i + 1 \in 1 .. Len(server.todo) /\ server'.todo[i] = server.todo[i + 1]
      BY <1>1, <2>2
    <3> QED
      BY <1>3, <2>6, <3>1
  <2> QED
    BY <2>1, <2>5, <2>6 DEF SentIsLogged
<1>7. CASE LiveEvent
  <2>1. server.pc = "live" /\ rx # None /\ ~rx.lagged /\ rx.queue # <<>> /\ server.todo = <<>>
    BY <1>7 DEF LiveEvent, Connected
  <2> DEFINE event == Head(rx.queue)
  <2>2. event \in Events /\ event = rx.queue[1] /\ Len(rx.queue) \in Nat \ {0}
    BY <2>1, HeadOfBus
  <2>3. event.seq < log[event.run] /\ event.run \in Runs /\ event.seq \in Nat
    BY <2>1, <2>2 DEF BusInOrder, Following, Events
  <2>4. /\ UNCHANGED <<wire, log>>
        /\ server'.todo = <<>> \/ server'.todo = <<EventFrame(event.run, event.seq)>>
    BY <1>7, <2>1 DEF LiveEvent, StreamTypes
  <2> HIDE DEF event
  <2>5. CASE server'.todo = <<>>
    BY <1>4, <2>4, <2>5
  <2>6. CASE server'.todo = <<EventFrame(event.run, event.seq)>>
    BY <1>3, <2>3, <2>4, <2>6, FrameTypes DEF SentIsLogged
  <2> QED
    BY <2>4, <2>5, <2>6
<1>8. CASE \/ \E r \in Runs : AppendEvent(r)
           \/ Broadcast \/ SubscribeToBus \/ ListRuns \/ GoLive
  <2>1. wire' = wire /\ server'.todo = server.todo
    BY <1>8 DEF AppendEvent, Broadcast, SubscribeToBus, ListRuns, GoLive, StreamTypes
  <2> QED
    BY <1>4, <2>1
<1>9. CASE LiveLagged \/ Drop \/ Crash \/ Unsubscribe \/ ChangeClient
  <2>1. (wire' = wire \/ wire' = <<>>) /\ server'.todo = <<>>
    BY <1>9 DEF LiveLagged, Drop, Crash, Unsubscribe, ChangeClient, HangUp, Gone
  <2> QED
    BY <1>4, <2>1
<1>10. CASE Open
  <2>1. wire' = wire /\ server'.todo = <<>>
    BY <1>10 DEF Open, Gone
  <2> QED
    BY <1>4, <2>1
<1>11. CASE ConnectFails \/ OnMessage \/ OnClose \/ Reconnect \/ UNCHANGED vars
  <2>1. /\ wire' = wire \/ wire' = <<>> \/ (wire # <<>> /\ wire' = Tail(wire))
        /\ server' = server
    BY <1>11 DEF ConnectFails, OnMessage, OnClose, Reconnect, vars
  <2> QED
    BY <1>4, <2>1
<1> QED
  BY <1>5, <1>6, <1>7, <1>8, <1>9, <1>10, <1>11 DEF Next, Handler, Client

(* A message brings an event the view has, or the next one. *)
LEMMA ViewMessage ==
    ASSUME ViewInv, OnMessage
    PROVE  ViewIsPrefix'
<1> USE DEF ViewInv, StreamInv
<1>1. /\ wire # <<>> /\ wire \in Seq(Frames) /\ shown \in [Runs -> Seq(Nat)]
      /\ stream \in [Runs -> Seq(Nat)] /\ log \in [Runs -> Nat] /\ log' = log
  BY DEF OnMessage, StreamTypes, ViewIsPrefix
<1>2. PICK f \in Frames, r \in Runs, s \in Nat : f = Head(wire) /\ f = wire[1] /\ r = f.run /\ s = f.seq
  <2>1. Head(wire) \in Frames /\ Head(wire) = wire[1]
    BY <1>1, HeadTailProperties
  <2> QED
    BY <2>1 DEF Frames
<1>3. FollowsAll' <=> FollowsAll
  <2>1. client' = client \/ client' = [client EXCEPT !.observed = Head(wire).seq]
    BY DEF OnMessage
  <2>2. client'.asked = client.asked
    BY <2>1 DEF StreamTypes
  <2> QED
    BY <2>2 DEF FollowsAll
<1>4. CASE f.op = "event" /\ FollowsAll
  <2>1. /\ stream' = [stream EXCEPT ![r] = Append(@, s)]
        /\ shown' = [shown EXCEPT ![r] = Folded(@, s)]
    BY <1>2, <1>4 DEF OnMessage
  <2>2. s = Due(r)
    <3> SUFFICES ASSUME s # Due(r) PROVE FALSE
      OBVIOUS
    <3>1. 1 \in 1 .. Len(wire) /\ 1 \in 1 .. Len(Pipe) /\ Pipe[1] = f
      <4>1. Len(wire) \in Nat \ {0}
        BY <1>1, LenProperties, EmptySeq
      <4> QED
        BY <1>2, <4>1, PipeIs
    <3>2. \E j \in 1 .. 1 - 1 : Pipe[j] = EventFrame(r, s - 1)
      BY <1>2, <1>4, <3>1 DEF InOrder
    <3> QED
      BY <3>2
  <2>3. s = Len(stream[r])
    <3>1. client.asked.from = 0
      BY <1>4, SubscriberAssumption, NoneIsNothing DEF FollowsAll, StreamTypes
    <3>2. Len(stream[r]) \in Nat
      BY <1>1
    <3> QED
      BY <2>2, <3>1, <3>2 DEF Due
  <2>4. s < log[r]
    <3>1. 1 \in 1 .. Len(wire)
      BY <1>1, LenProperties, EmptySeq
    <3> QED
      BY <1>2, <1>4, <3>1 DEF SentIsLogged
  <2>5. /\ shown[r] \in Seq(Nat) /\ \A i \in 1 .. Len(shown[r]) : shown[r][i] = i - 1
        /\ s <= Len(shown[r]) /\ Len(shown[r]) <= log[r]
    BY <1>1, <1>4, <2>3 DEF ViewIsPrefix
  <2>6. /\ shown'[r] \in Seq(Nat)
        /\ \A i \in 1 .. Len(shown'[r]) : shown'[r][i] = i - 1
        /\ Len(shown'[r]) = IF s < Len(shown[r]) THEN Len(shown[r]) ELSE Len(shown[r]) + 1
    BY <1>1, <2>1, <2>5, FoldedIs
  <2>7. Len(stream'[r]) = s + 1
    BY <1>1, <2>1, <2>3
  <2>8. Len(stream'[r]) <= Len(shown'[r]) /\ Len(shown'[r]) <= log[r]
    <3>1. Len(shown[r]) \in Nat /\ log[r] \in Nat
      BY <1>1
    <3> QED
      BY <2>4, <2>5, <2>6, <2>7, <3>1
  <2>9. \A q \in Runs \ {r} : shown'[q] = shown[q] /\ stream'[q] = stream[q]
    BY <1>1, <2>1
  <2>10. shown' \in [Runs -> Seq(Nat)]
    BY <1>1, <2>1, <2>6
  <2> QED
    <3>1. \A q \in Runs : /\ \A i \in 1 .. Len(shown'[q]) : shown'[q][i] = i - 1
                          /\ Len(stream'[q]) <= Len(shown'[q]) /\ Len(shown'[q]) <= log[q]
      <4> SUFFICES ASSUME NEW q \in Runs
                   PROVE  /\ \A i \in 1 .. Len(shown'[q]) : shown'[q][i] = i - 1
                          /\ Len(stream'[q]) <= Len(shown'[q]) /\ Len(shown'[q]) <= log[q]
        OBVIOUS
      <4>1. CASE q = r
        BY <2>6, <2>8, <4>1
      <4>2. CASE q # r
        BY <1>4, <2>9, <4>2 DEF ViewIsPrefix
      <4> QED
        BY <4>1, <4>2
    <3> QED
      BY <1>1, <2>10, <3>1 DEF ViewIsPrefix
<1>5. CASE ~(f.op = "event" /\ FollowsAll)
  <2>1. shown' = shown /\ (FollowsAll => stream' = stream)
    BY <1>2, <1>5 DEF OnMessage
  <2> QED
    BY <1>1, <1>3, <2>1 DEF ViewIsPrefix
<1> QED
  BY <1>4, <1>5

(* No other step adds to what came or to the view. *)
LEMMA ViewNext == ViewInv /\ [Next]_vars => ViewInv'
<1> SUFFICES ASSUME ViewInv, [Next]_vars PROVE ViewIsPrefix'
  BY StreamNext, LoggedStep DEF ViewInv
<1> USE DEF ViewInv, StreamInv
<1>1. CASE OnMessage
  BY <1>1, ViewMessage
<1>2. CASE ~OnMessage
  <2>1. client'.asked = client.asked
    <3>1. CASE ConnectFails \/ OnClose
      BY <3>1 DEF ConnectFails, OnClose, AfterClose, StreamTypes
    <3>2. CASE Open \/ Reconnect \/ Unsubscribe \/ ChangeClient
      BY <3>2 DEF Open, Reconnect, Unsubscribe, ChangeClient, StreamTypes
    <3>3. CASE ~(ConnectFails \/ OnClose \/ Open \/ Reconnect \/ Unsubscribe \/ ChangeClient)
      BY <1>2, <3>3 DEF Next, AppendEvent, Broadcast, Handler, SubscribeToBus, ListRuns, ReadBacklog,
         SendFrame, GoLive, LiveEvent, LiveLagged, Drop, Crash, Client, vars
    <3> QED
      BY <3>1, <3>2, <3>3
  <2>2. FollowsAll' <=> FollowsAll
    BY <2>1 DEF FollowsAll
  <2>3. /\ stream' = stream \/ (FollowsAll => stream' = [r \in Runs |-> <<>>])
        /\ shown' = shown \/ (shown' = [r \in Runs |-> <<>>] /\ ChangeClient)
    BY <1>2 DEF Next, AppendEvent, Broadcast, Handler, SubscribeToBus, ListRuns, ReadBacklog,
         SendFrame, GoLive, LiveEvent, LiveLagged, Drop, Crash, Open, ConnectFails, Client, OnClose,
         Reconnect, Unsubscribe, ChangeClient, vars, Anew
  <2>4. ChangeClient => (FollowsAll => stream' = [r \in Runs |-> <<>>])
    BY DEF ChangeClient, Anew
  <2>5. /\ shown \in [Runs -> Seq(Nat)] /\ stream \in [Runs -> Seq(Nat)]
        /\ \A r \in Runs : log[r] \in Nat /\ log'[r] \in Nat /\ log[r] <= log'[r]
        /\ \A r \in Runs : Len(shown[r]) \in Nat /\ Len(stream[r]) \in Nat
    BY LogGrows DEF ViewIsPrefix, StreamTypes
  <2>6. shown' \in [Runs -> Seq(Nat)]
    <3>1. [r \in Runs |-> <<>>] \in [Runs -> Seq(Nat)]
      OBVIOUS
    <3> QED
      BY <2>3, <2>5, <3>1
  <2>7. ASSUME FollowsAll, NEW r \in Runs
        PROVE  /\ \A i \in 1 .. Len(shown'[r]) : shown'[r][i] = i - 1
               /\ Len(stream'[r]) <= Len(shown'[r]) /\ Len(shown'[r]) <= log'[r]
    <3>1. /\ \A i \in 1 .. Len(shown[r]) : shown[r][i] = i - 1
          /\ Len(stream[r]) <= Len(shown[r]) /\ Len(shown[r]) <= log[r]
      BY <2>7 DEF ViewIsPrefix
    <3>2. CASE shown' = shown
      <4>1. stream'[r] = stream[r] \/ stream'[r] = <<>>
        BY <2>3, <2>7
      <4> QED
        BY <2>5, <3>1, <3>2, <4>1
    <3>3. CASE shown' = [q \in Runs |-> <<>>] /\ ChangeClient
      <4>1. shown'[r] = <<>> /\ stream'[r] = <<>>
        BY <2>4, <2>7, <3>3
      <4> QED
        BY <2>5, <4>1
    <3> QED
      BY <2>3, <3>2, <3>3
  <2> QED
    BY <2>2, <2>6, <2>7 DEF ViewIsPrefix
<1> QED
  BY <1>1, <1>2

(* At first nothing was sent and nothing is shown. *)
LEMMA ViewInit == Init => ViewInv
<1> SUFFICES ASSUME Init PROVE ViewInv
  OBVIOUS
<1>1. StreamInv
  BY StreamInit
<1>2. /\ wire = <<>> /\ server.todo = <<>> /\ log = [r \in Runs |-> 0]
      /\ shown = [r \in Runs |-> <<>>] /\ stream = [r \in Runs |-> <<>>]
  BY DEF Init, Gone
<1> QED
  BY <1>1, <1>2 DEF ViewInv, SentIsLogged, ViewIsPrefix

(* The app's view holds the events of a run from the first on, each once and
   in order, none that is not in the Log, and all that this connection
   brought: over any number of reconnections, each of which brings every
   event again. *)
THEOREM ViewIsFoldedOnce == Spec => []ViewFoldsOnce
<1>1. Init => ViewInv
  BY ViewInit
<1>2. ViewInv /\ [Next]_vars => ViewInv'
  BY ViewNext
<1>3. ViewInv => ViewFoldsOnce
  <2> SUFFICES ASSUME ViewInv, FollowsAll, NEW r \in Runs
               PROVE  /\ shown[r] = [i \in 1 .. Len(shown[r]) |-> i - 1]
                      /\ Len(stream[r]) <= Len(shown[r]) /\ Len(shown[r]) <= log[r]
    BY DEF ViewFoldsOnce
  <2>1. /\ shown[r] \in Seq(Nat) /\ \A i \in 1 .. Len(shown[r]) : shown[r][i] = i - 1
        /\ Len(stream[r]) <= Len(shown[r]) /\ Len(shown[r]) <= log[r]
    BY DEF ViewInv, ViewIsPrefix
  <2>2. shown[r] = [i \in 1 .. Len(shown[r]) |-> shown[r][i]]
    BY <2>1
  <2> QED
    BY <2>1, <2>2
<1> QED
  BY <1>1, <1>2, <1>3, PTL DEF Spec


-----------------------------------------------------------------------------
(* The refinement.  A message brings the next event of a run the subscriber
   asked for, and that event is in the Log. *)
LEMMA MessageIsNext ==
    ASSUME ViewInv, OnMessage, Head(wire).op = "event"
    PROVE  \E r \in Runs :
             /\ Asked(r) /\ Due(r) < log[r]
             /\ stream' = [stream EXCEPT ![r] = Append(@, Due(r))]
             /\ shown' = IF FollowsAll THEN [shown EXCEPT ![r] = Folded(@, Due(r))] ELSE shown
             /\ UNCHANGED <<log, client.asked>>
<1> USE DEF ViewInv, StreamInv
<1>1. wire # <<>> /\ wire \in Seq(Frames) /\ log' = log
  BY DEF OnMessage, StreamTypes
<1>2. PICK f \in Frames, r \in Runs, s \in Nat : f = Head(wire) /\ f = wire[1] /\ r = f.run /\ s = f.seq
  <2>1. Head(wire) \in Frames /\ Head(wire) = wire[1]
    BY <1>1, HeadTailProperties
  <2> QED
    BY <2>1 DEF Frames
<1>3. f.op = "event"
  BY <1>2
<1>4. 1 \in 1 .. Len(wire) /\ 1 \in 1 .. Len(Pipe) /\ Pipe[1] = f
  <2>1. Len(wire) \in Nat \ {0}
    BY <1>1, LenProperties, EmptySeq
  <2> QED
    BY <1>2, <2>1, PipeIs
<1>5. s = Due(r)
  <2> SUFFICES ASSUME s # Due(r) PROVE FALSE
    OBVIOUS
  <2>1. \E j \in 1 .. 1 - 1 : Pipe[j] = EventFrame(r, s - 1)
    BY <1>2, <1>3, <1>4 DEF InOrder
  <2> QED
    BY <2>1
<1>6. s < log[r]
  BY <1>2, <1>3, <1>4 DEF SentIsLogged
<1>7. Asked(r)
  <2>1. f = EventFrame(r, s)
    BY <1>2, <1>3, FrameIs
  <2>2. InPipe(r, s)
    BY <1>4, <2>1 DEF InPipe
  <2> QED
    BY <2>2 DEF Received
<1>8. client'.asked = client.asked
  <2>1. client' = client \/ client' = [client EXCEPT !.observed = Head(wire).seq]
    BY DEF OnMessage
  <2> QED
    BY <2>1 DEF StreamTypes
<1>9. /\ stream' = [stream EXCEPT ![r] = Append(@, s)]
      /\ shown' = IF FollowsAll THEN [shown EXCEPT ![r] = Folded(@, s)] ELSE shown
  BY <1>2, <1>3 DEF OnMessage
<1> QED
  BY <1>1, <1>5, <1>6, <1>7, <1>8, <1>9

(* It is a step of the reader: the view of the app gets the event if it is the
   next one for it, too. *)
LEMMA MessageDelivers ==
    ASSUME ViewInv, OnMessage, Head(wire).op = "event"
    PROVE  \E r \in Runs : Sub!Deliver(r)
<1>1. PICK r \in Runs :
        /\ Asked(r) /\ Due(r) < log[r]
        /\ stream' = [stream EXCEPT ![r] = Append(@, Due(r))]
        /\ shown' = IF FollowsAll THEN [shown EXCEPT ![r] = Folded(@, Due(r))] ELSE shown
        /\ UNCHANGED <<log, client.asked>>
  BY MessageIsNext
<1>2. Sub!Due(r) = Due(r)
  BY DEF Sub!Due, Due
<1>3. ASSUME FollowsAll
      PROVE  shown' = IF Due(r) = Len(shown[r]) THEN [shown EXCEPT ![r] = Append(@, Due(r))] ELSE shown
  <2>1. /\ shown \in [Runs -> Seq(Nat)] /\ shown[r] \in Seq(Nat)
        /\ \A i \in 1 .. Len(shown[r]) : shown[r][i] = i - 1
        /\ Len(stream[r]) <= Len(shown[r])
    BY <1>3 DEF ViewInv, ViewIsPrefix
  <2>2. Due(r) = Len(stream[r]) /\ Due(r) \in Nat
    <3>1. client.asked.from = 0
      BY <1>3, SubscriberAssumption, NoneIsNothing DEF FollowsAll, ViewInv, StreamInv, StreamTypes
    <3>2. Len(stream[r]) \in Nat
      BY DEF ViewInv, StreamInv, StreamTypes
    <3> QED
      BY <3>1, <3>2 DEF Due
  <2>3. Folded(shown[r], Due(r))
          = IF Due(r) < Len(shown[r]) THEN shown[r] ELSE Append(shown[r], Due(r))
    BY <2>1, <2>2, FoldedIs
  <2>4. shown' = [shown EXCEPT ![r] = Folded(@, Due(r))]
    BY <1>1, <1>3
  <2>5. CASE Due(r) = Len(shown[r])
    <3>1. Folded(shown[r], Due(r)) = Append(shown[r], Due(r))
      BY <2>1, <2>3, <2>5
    <3> QED
      BY <2>4, <2>5, <3>1
  <2>6. CASE Due(r) # Len(shown[r])
    <3>1. Due(r) < Len(shown[r])
      BY <2>1, <2>2, <2>6
    <3>2. Folded(shown[r], Due(r)) = shown[r]
      BY <2>3, <3>1
    <3> QED
      BY <2>1, <2>4, <2>6, <3>2
  <2> QED
    BY <2>5, <2>6
<1>4. shown' = IF client.asked.run = None /\ Due(r) = Len(shown[r])
               THEN [shown EXCEPT ![r] = Append(@, Due(r))] ELSE shown
  <2>1. CASE FollowsAll
    BY <1>3, <2>1 DEF FollowsAll
  <2>2. CASE ~FollowsAll
    BY <1>1, <2>2 DEF FollowsAll
  <2> QED
    BY <2>1, <2>2
<1> QED
  BY <1>1, <1>2, <1>4 DEF Sub!Deliver, Asked

(* Every other step publishes, puts back, or is none of the reader's. *)
LEMMA StepMoves == ViewInv /\ [Next]_vars => [Sub!Next]_(Sub!vars)
<1> SUFFICES ASSUME ViewInv, [Next]_vars PROVE Sub!Next \/ UNCHANGED <<log, client.asked, stream, shown>>
  BY DEF Sub!vars
<1> USE DEF ViewInv, StreamInv
<1>1. CASE \E r \in Runs : AppendEvent(r)
  BY <1>1 DEF AppendEvent, Sub!Publish, Sub!Next
<1>2. CASE OnMessage
  <2>1. CASE Head(wire).op = "event"
    BY <1>2, <2>1, MessageDelivers DEF Sub!Next
  <2>2. CASE Head(wire).op # "event"
    BY <1>2, <2>2 DEF OnMessage
  <2> QED
    BY <2>1, <2>2
<1>3. CASE Open \/ ChangeClient
  <2>1. /\ client'.asked = client.asked /\ log' = log
        /\ stream' = Anew /\ shown' \in {shown, [r \in Runs |-> <<>>]}
        /\ shown' = shown \/ FollowsAll
    BY <1>3 DEF Open, ChangeClient, StreamTypes
  <2>2. CASE FollowsAll
    BY <2>1, <2>2 DEF FollowsAll, Anew, Sub!PutBack, Sub!Nowhere, Sub!Next
  <2>3. CASE ~FollowsAll
    BY <2>1, <2>3 DEF Anew
  <2> QED
    BY <2>2, <2>3
<1>4. CASE ConnectFails \/ OnClose
  BY <1>4 DEF ConnectFails, OnClose, AfterClose, StreamTypes
<1>5. CASE Reconnect \/ Unsubscribe
  BY <1>5 DEF Reconnect, Unsubscribe, StreamTypes
<1>6. CASE Broadcast \/ Handler \/ Drop \/ Crash \/ UNCHANGED vars
  BY <1>6 DEF Broadcast, Handler, SubscribeToBus, ListRuns, ReadBacklog, SendFrame, GoLive,
       LiveEvent, LiveLagged, Drop, Crash, vars
<1> QED
  BY <1>1, <1>2, <1>3, <1>4, <1>5, <1>6 DEF Next, Client

(* The event stream implements the subscription: seen from the client there
   is no connection, no backlog and no bus, but a reader that moves along the
   Logs by one event at a time, and an app that is put back to the beginning
   by a connection and loses nothing of its view. *)
THEOREM StreamIsASubscription == Spec => MovesAlongTheLog
<1>1. Init => Sub!Init
  <2> SUFFICES ASSUME Init PROVE Sub!Init
    OBVIOUS
  <2>1. PICK s \in Subscriptions :
          client = [asked |-> s, pc |-> "connecting", resume |-> s.from, observed |-> None, attempt |-> 0]
    BY DEF Init
  <2>2. client.asked \in Subscriptions
    BY <2>1
  <2> QED
    BY <2>2 DEF Init, Sub!Init, Sub!Nowhere
<1>2. ViewInv /\ [Next]_vars => [Sub!Next]_(Sub!vars)
  BY StepMoves
<1> QED
  BY <1>1, <1>2, ViewInit, ViewNext, PTL DEF Spec, MovesAlongTheLog, Sub!Spec
=============================================================================
