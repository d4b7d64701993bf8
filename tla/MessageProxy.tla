---------------------------- MODULE MessageProxy ----------------------------
(***************************************************************************)
(* The gRPC message proxy of re_grpc_server: SDKs write messages to it,    *)
(* viewers read from it.  One task, the event loop, owns the history.      *)
(*                                                                         *)
(* Writers and connecting clients put events into a bounded mpsc queue.    *)
(* For a message the loop broadcasts it to the connected clients (waiting  *)
(* while the slowest of them is ChannelCap messages behind), then          *)
(* garbage-collects the history, then stores the message.  For a client it *)
(* hands out a copy of the history together with a new subscription.       *)
(*                                                                         *)
(* The broadcast channel appears here as what BroadcastChannel shows it to *)
(* be: a queue per subscriber from which nothing is lost and which makes   *)
(* the sender wait.  Its byte limit is left out; it blocks like the count. *)
(* The wait itself is send_async's, step by step: a notification wakes     *)
(* only a sender that is parked, and one that has warned of being blocked  *)
(* for long parks without a timeout.                                       *)
(*                                                                         *)
(* The in-process viewer gets the requests of ViewerControl through the    *)
(* task of spawn_with_recv and a log channel, and answers them in its      *)
(* frames.                                                                 *)
(***************************************************************************)
EXTENDS Integers, Sequences, FiniteSets, SequencesExt

CONSTANTS
    Clients,      \* connections that may read
    Local,        \* of these, the in-process viewer: subscribed from the start
    Scenarios,    \* the server options and the workloads that are considered
    Unlimited,    \* the memory limit of a server that keeps everything
    EventCap,     \* capacity of the event queue
    ChannelCap    \* max_messages of the broadcast channel

\* Beside log and table messages, writers send the requests of
\* ViewerControl: "inspect" waits for INSPECT_TIMEOUT, the others for as long as it
\* takes: "screenshot" until one is saved, "command" (set_time_cursor, open_url,
\* get_viewer_state) until the viewer has carried it out.
Requests == {"command", "screenshot", "inspect"}
AllKinds == {"persistent", "static", "disposable", "missing"} \cup Requests

\* Bound: the most messages written in a behaviour.
MaxMessages == Max({s.messages : s \in Scenarios} \cup {0})

ASSUME ProxyAssumption ==
    /\ Local \subseteq Clients
    /\ Unlimited \notin Nat
    /\ EventCap \in Nat \ {0}
    /\ ChannelCap \in Nat \ {0}
    /\ \A s \in Scenarios :
          /\ s.playback_behavior \in {"OldestFirst", "NewestFirst"}
          /\ s.memory_limit \in Nat \cup {Unlimited}
          /\ s.readers \subseteq Clients
          /\ s.kinds \subseteq AllKinds
          /\ s.sizes \subseteq Nat
          /\ s.messages \in 0..MaxMessages
    /\ MaxMessages \in Nat

VARIABLES
    options,     \* the scenario: options.playback_behavior, options.memory_limit
                 \* (in bytes), which clients connect, the kinds and sizes of
                 \* message that writers send, and how many of them (a bound)
    events,      \* the event queue
    loop,        \* where the event loop is
    current,     \* the message it is handling
    wait,        \* its send_async: about to try ("no"), without room, parked
    warned,      \* send_async::warned
    persistent, static_, disposable,  \* MessageBuffer
    written,     \* number of messages written so far
    cpc,         \* where each client is
    hist,        \* history not yet sent to each client
    chan,        \* its subscription: broadcast messages it has not read
    received,    \* what it has been sent
    handled,     \* (auxiliary) messages in the order the loop broadcast them
    since,       \* (auxiliary) Len(handled) when the client subscribed
    answer,      \* what the viewer-control requests among the messages wait for or got
    inbox,       \* requests in the log channel to the viewer
    notifier,    \* App::pending_screenshot_notifiers at the path to which all
                 \* screenshots go: a request, or 0
    shots,       \* screenshots that the viewer has asked for
    inspecting   \* requests submitted to the InspectionPlugin

buffer == <<persistent, static_, disposable>>
clientVars == <<cpc, hist, chan, received, since>>
sendVars == <<wait, warned>>
viewerVars == <<inbox, notifier, shots, inspecting>>
vars == <<options, events, loop, current, wait, warned, persistent, static_, disposable,
          written, cpc, hist, chan, received, handled, since, answer, inbox, notifier,
          shots, inspecting>>

Message == [id : 1..MaxMessages, kind : AllKinds, size : Nat]
NoMessage == [id |-> 0, kind |-> "missing", size |-> 0]

Event == [type : {"Message"}, msg : Message] \cup [type : {"NewClient"}, client : Clients]

TypeOK ==
    /\ options \in Scenarios
    /\ events \in Seq(Event) /\ Len(events) <= EventCap
    /\ loop \in {"recv", "broadcast", "store"}
    /\ current \in Message \cup {NoMessage}
    /\ wait \in {"no", "full", "parked"}
    /\ warned \in BOOLEAN
    /\ persistent \in Seq(Message)
    /\ static_ \in Seq(Message)
    /\ disposable \in Seq(Message)
    /\ written \in 0..options.messages
    /\ cpc \in [Clients -> {"off", "waiting", "cancelled", "streaming", "gone"}]
    /\ hist \in [Clients -> Seq(Message)]
    /\ chan \in [Clients -> Seq(Message)]
    /\ received \in [Clients -> Seq(Message)]
    /\ handled \in Seq(Message)
    /\ since \in [Clients -> Nat]
    /\ answer \in [1..MaxMessages -> Requests \cup {"no", "Some", "None", "timeout"}]
    /\ inbox \in Seq(Message)
    /\ notifier \in 0..MaxMessages
    /\ shots \in Nat
    /\ inspecting \subseteq 1..MaxMessages

Init ==
    /\ options \in Scenarios
    /\ events = <<>>
    /\ loop = "recv"
    /\ current = NoMessage
    /\ wait = "no" /\ warned = FALSE
    /\ persistent = <<>> /\ static_ = <<>> /\ disposable = <<>>
    /\ written = 0
    /\ cpc = [c \in Clients |-> IF c \in Local \cap options.readers THEN "streaming" ELSE "off"]
    /\ hist = [c \in Clients |-> <<>>]
    /\ chan = [c \in Clients |-> <<>>]
    /\ received = [c \in Clients |-> <<>>]
    /\ handled = <<>>
    /\ since = [c \in Clients |-> 0]
    /\ answer = [n \in 1..MaxMessages |-> "no"]
    /\ inbox = <<>> /\ notifier = 0 /\ shots = 0 /\ inspecting = {}

Ids(q) == {q[i].id : i \in 1..Len(q)}

-----------------------------------------------------------------------------
(* MessageBuffer *)

Total(q) == FoldSeq(LAMBDA m, n : m.size + n, 0, q)

\* size_bytes
BufferSize(p, s, d) == Total(p) + Total(s) + Total(d)

\* all: what a new client is sent.
History ==
    IF options.playback_behavior = "OldestFirst"
      THEN persistent \o static_ \o disposable
      ELSE Reverse(persistent) \o Reverse(static_) \o Reverse(disposable)

\* Mutant: pop_back for pop_front.
PopNewestUntilBelow(q, rest) ==
    LET Before(n) == SubSeq(q, 1, Len(q) - n)
        Enough == {n \in 1..Len(q) : rest + Total(Before(n)) < options.memory_limit}
    IN  IF Enough = {} THEN <<>>
        ELSE Before(CHOOSE n \in Enough : \A m \in Enough : n <= m)

\* The loops of gc: pop from the front until the buffer, of which q is one
\* queue and `rest' the size of the others, is below the limit.
PopUntilBelow(q, rest) ==
    LET After(n) == SubSeq(q, n + 1, Len(q))
        Below(n) == rest + Total(After(n)) < options.memory_limit
        Enough == {n \in 1..Len(q) : Below(n)}
    IN  IF Enough = {} THEN <<>>
        ELSE After(CHOOSE n \in Enough : \A m \in Enough : n <= m)

\* gc: the disposable queue after it ...
GcDisposable ==
    IF options.memory_limit = Unlimited \/ BufferSize(persistent, static_, disposable) <= options.memory_limit
      THEN disposable
      ELSE PopUntilBelow(disposable, Total(persistent) + Total(static_))

\* Mutant: static messages are never dropped.
GcStaticNever == static_

\* Mutant: the static queue is popped without looking at what popping the
\* disposable one has gained.
GcStaticEagerly ==
    IF options.memory_limit = Unlimited \/ BufferSize(persistent, static_, disposable) <= options.memory_limit
      THEN static_
      ELSE PopUntilBelow(static_, Total(persistent) + Total(disposable))

\* ... and the static one.
GcStatic ==
    IF \/ options.memory_limit = Unlimited
       \/ BufferSize(persistent, static_, disposable) <= options.memory_limit
       \/ BufferSize(persistent, static_, GcDisposable) <= options.memory_limit
      THEN static_
      ELSE PopUntilBelow(static_, Total(persistent) + Total(GcDisposable))

\* The queue a message belongs into; UI commands are kept like recording data.
Class(m) == IF m.kind \in Requests THEN "disposable" ELSE m.kind

\* Mutant: a persistent message falls through into the disposable queue too.
AddToBoth(q, kind) ==
    IF Class(current) = kind \/ (current.kind = "persistent" /\ kind = "disposable")
      THEN Append(q, current) ELSE q

\* add_msg: a log message without content is not stored.
AddTo(q, kind) == IF Class(current) = kind THEN Append(q, current) ELSE q

-----------------------------------------------------------------------------
(* Writers: write_messages, write_table, and the requests of ViewerControl *)

\* push_message and push_ui_command wait while the event queue is full.  A
\* request then awaits its answer channel.
Write(k, z) ==
    /\ written < options.messages
    /\ Len(events) < EventCap
    /\ written' = written + 1
    /\ events' = Append(events, [type |-> "Message",
                                 msg |-> [id |-> written + 1, kind |-> k, size |-> z]])
    /\ answer' = IF k \in Requests THEN [answer EXCEPT ![written + 1] = k] ELSE answer
    /\ UNCHANGED <<options, loop, current, sendVars, buffer, clientVars, handled, viewerVars>>

\* Whoever holds a request holds a sender of its answer channel.
Held(n) ==
    \/ \E i \in 1..Len(events) : events[i].type = "Message" /\ events[i].msg.id = n
    \/ current.id = n
    \/ n \in Ids(disposable)
    \/ \E c \in Clients : n \in Ids(hist[c] \o chan[c])
    \/ n \in Ids(inbox) \cup {notifier} \cup inspecting

\* done_rx.next() is None: the last sender is gone without an answer.
RequestDropped(n) ==
    /\ answer[n] \in Requests
    /\ ~Held(n)
    /\ answer' = [answer EXCEPT ![n] = "None"]
    /\ UNCHANGED <<options, events, loop, current, sendVars, buffer, written, clientVars, handled,
                   viewerVars>>

\* Only inspect gives up by itself.
InspectTimeout(n) ==
    /\ answer[n] = "inspect"
    /\ answer' = [answer EXCEPT ![n] = "timeout"]
    /\ UNCHANGED <<options, events, loop, current, sendVars, buffer, written, clientVars, handled,
                   viewerVars>>

-----------------------------------------------------------------------------
(* EventLoop::run_in_place *)

\* The loop takes a message out of the queue ...
TakeMessage ==
    /\ loop = "recv"
    /\ events # <<>>
    /\ Head(events).type = "Message"
    /\ current' = Head(events).msg
    /\ events' = Tail(events)
    /\ loop' = "broadcast"
    /\ UNCHANGED <<options, sendVars, buffer, written, clientVars, handled, answer, viewerVars>>

\* Mutant: a subscription outlives its stream.
EverSubscribed == {c \in Clients : cpc[c] \in {"streaming", "gone"}}

Subscribed == {c \in Clients : cpc[c] = "streaming"}

\* Messages in flight: some subscription has not read them.
InFlight(subscriptions) == UNION {Ids(subscriptions[c]) : c \in Clients}

Room == \A c \in Subscribed : Len(chan[c]) < ChannelCap

\* ... tries to send it (try_send) if there is room in the broadcast channel; without
\* receivers the send fails, which is ignored ...
Broadcast ==
    /\ loop = "broadcast" /\ wait = "no"
    /\ Room
    /\ chan' = [c \in Clients |->
                  IF c \in Subscribed THEN Append(chan[c], current) ELSE chan[c]]
    /\ handled' = Append(handled, current)
    /\ loop' = "store"
    /\ warned' = FALSE
    /\ UNCHANGED <<options, events, current, wait, buffer, written, cpc, hist, received, since,
                   answer, viewerVars>>

\* ... and otherwise waits: try_send has found no room, ...
FindFull ==
    /\ loop = "broadcast" /\ wait = "no"
    /\ ~Room
    /\ wait' = "full"
    /\ UNCHANGED <<options, events, loop, current, warned, buffer, written, clientVars, handled,
                   answer, viewerVars>>

\* ... then, perhaps after a warning, the sender creates its Notified future, ...
Park ==
    /\ wait = "full"
    /\ wait' = "parked"
    /\ warned' \in {warned, TRUE}
    /\ UNCHANGED <<options, events, loop, current, buffer, written, clientVars, handled, answer,
                   viewerVars>>

\* ... and sleeps until it is notified or, unless it has warned, for a while.
Retry ==
    /\ wait = "parked" /\ ~warned
    /\ wait' = "no"
    /\ UNCHANGED <<options, events, loop, current, warned, buffer, written, clientVars, handled,
                   answer, viewerVars>>

\* notify_waiters, when a message is no longer in flight (TrackedInner::drop) or no
\* receiver is left (Receiver::drop).
Notify ==
    wait' = IF wait = "parked" /\ (InFlight(chan') # InFlight(chan) \/ Subscribed' = {})
              THEN "no" ELSE wait

\* ... and then, if it keeps a history at all, makes room and stores it.
Store ==
    /\ loop = "store"
    /\ IF options.memory_limit = 0
         THEN UNCHANGED buffer
         ELSE /\ persistent' = AddTo(persistent, "persistent")
              /\ static_' = AddTo(GcStatic, "static")
              /\ disposable' = AddTo(GcDisposable, "disposable")
    /\ current' = NoMessage
    /\ loop' = "recv"
    /\ UNCHANGED <<options, events, sendVars, written, clientVars, handled, answer, viewerVars>>

\* Mutant: clients are served by a task of their own, also between the
\* broadcast of a message and its storing.
ServeClientAnyTime ==
    /\ events # <<>>
    /\ Head(events).type = "NewClient"
    /\ LET c == Head(events).client
       IN  /\ cpc' = [cpc EXCEPT ![c] = "streaming"]
           /\ hist' = [hist EXCEPT ![c] = History]
           /\ since' = [since EXCEPT ![c] = Len(handled)]
    /\ events' = Tail(events)
    /\ UNCHANGED <<options, loop, current, sendVars, buffer, written, chan, received, handled,
                   answer, viewerVars>>

\* Event::NewClient: history and subscription are handed out together.  If
\* the client has given up, both are dropped again.
ServeClient ==
    /\ loop = "recv"
    /\ events # <<>>
    /\ Head(events).type = "NewClient"
    /\ LET c == Head(events).client
       IN  IF cpc[c] = "waiting"
             THEN /\ cpc' = [cpc EXCEPT ![c] = "streaming"]
                  /\ hist' = [hist EXCEPT ![c] = History]
                  /\ since' = [since EXCEPT ![c] = Len(handled)]
             ELSE /\ cpc' = [cpc EXCEPT ![c] = "gone"]
                  /\ UNCHANGED <<hist, since>>
    /\ events' = Tail(events)
    /\ UNCHANGED <<options, loop, current, sendVars, buffer, written, chan, received, handled,
                   answer, viewerVars>>

-----------------------------------------------------------------------------
(* Clients: read_messages, read_tables *)

\* new_client_message_stream asks the event loop.
Connect(c) ==
    /\ c \in options.readers \ Local
    /\ cpc[c] = "off"
    /\ Len(events) < EventCap
    /\ cpc' = [cpc EXCEPT ![c] = "waiting"]
    /\ events' = Append(events, [type |-> "NewClient", client |-> c])
    /\ UNCHANGED <<options, loop, current, sendVars, buffer, written, hist, chan, received,
                   since, handled, answer, viewerVars>>

\* The request is cancelled before the loop has answered it.
Cancel(c) ==
    /\ cpc[c] = "waiting"
    /\ cpc' = [cpc EXCEPT ![c] = "cancelled"]
    /\ UNCHANGED <<options, events, loop, current, sendVars, buffer, written, hist, chan,
                   received, since, handled, answer, viewerVars>>

\* OldestFirst chains the subscription after the history; NewestFirst polls
\* the subscription first (PriorityMerge).
ReadHistory(c) ==
    /\ cpc[c] = "streaming"
    /\ hist[c] # <<>>
    /\ options.playback_behavior = "NewestFirst" => chan[c] = <<>>
    /\ received' = [received EXCEPT ![c] = Append(@, Head(hist[c]))]
    /\ hist' = [hist EXCEPT ![c] = Tail(@)]
    /\ UNCHANGED <<options, events, loop, current, sendVars, buffer, written, cpc, chan, since,
                   handled, answer, viewerVars>>

\* Mutant: the in-process stream filters the requests out like a remote one.
ForwardNothing(c, m) == inbox

\* The task of spawn_with_recv, which has no history to read, forwards the requests
\* it reads to the viewer; the stream to a remote client turns them into nothing.
Forward(c, m) == IF c \in Local /\ m.kind \in Requests THEN Append(inbox, m) ELSE inbox

ReadLive(c) ==
    /\ cpc[c] = "streaming"
    /\ chan[c] # <<>>
    /\ options.playback_behavior = "OldestFirst" => hist[c] = <<>>
    /\ received' = [received EXCEPT ![c] = Append(@, Head(chan[c]))]
    /\ chan' = [chan EXCEPT ![c] = Tail(@)]
    /\ inbox' = Forward(c, Head(chan[c]))
    /\ UNCHANGED <<options, events, loop, current, warned, buffer, written, cpc, hist, since,
                   handled, answer, notifier, shots, inspecting>>
    /\ Notify

\* The stream and with it the subscription is dropped; the one to the viewer ends
\* because its log channel is gone with all that is in it.
Disconnect(c) ==
    /\ cpc[c] = "streaming"
    /\ cpc' = [cpc EXCEPT ![c] = "gone"]
    /\ hist' = [hist EXCEPT ![c] = <<>>]
    /\ chan' = [chan EXCEPT ![c] = <<>>]
    /\ inbox' = IF c \in Local THEN <<>> ELSE inbox
    /\ UNCHANGED <<options, events, loop, current, warned, buffer, written, received, since,
                   handled, answer, notifier, shots, inspecting>>
    /\ Notify

-----------------------------------------------------------------------------
(* The viewer: receive_data_source_ui_command and what follows from it *)

\* on_done.unbounded_send: nobody listens any more if the request has timed out.
Answered(n) == IF answer[n] \in Requests THEN [answer EXCEPT ![n] = "Some"] ELSE answer

\* A command is answered at once, and so is a request that cannot be decoded.  An
\* inspection is submitted to its plugin.  A screenshot's answer channel is kept by
\* its path, replacing another one's, and the screenshot is asked for unless its
\* view is not shown or too small.
ReceiveRequest ==
    /\ inbox # <<>>
    /\ inbox' = Tail(inbox)
    /\ LET m == Head(inbox)
       IN  \/ /\ answer' = Answered(m.id)
              /\ UNCHANGED <<notifier, shots, inspecting>>
           \/ /\ m.kind = "inspect"
              /\ inspecting' = inspecting \cup {m.id}
              /\ UNCHANGED <<notifier, shots, answer>>
           \/ /\ m.kind = "screenshot"
              /\ notifier' = m.id
              /\ shots' \in {shots, shots + 1}
              /\ UNCHANGED <<inspecting, answer>>
    /\ UNCHANGED <<options, events, loop, current, sendVars, buffer, written, clientVars, handled>>

\* process_screenshot_result
ScreenshotResult ==
    /\ shots > 0
    /\ shots' = shots - 1
    /\ notifier' = 0
    /\ answer' = IF notifier # 0 THEN Answered(notifier) ELSE answer
    /\ UNCHANGED <<options, events, loop, current, sendVars, buffer, written, clientVars, handled,
                   inbox, inspecting>>

\* The callback of serve_inspect_request.
InspectionDone(n) ==
    /\ n \in inspecting
    /\ inspecting' = inspecting \ {n}
    /\ answer' = Answered(n)
    /\ UNCHANGED <<options, events, loop, current, sendVars, buffer, written, clientVars, handled,
                   inbox, notifier, shots>>

-----------------------------------------------------------------------------

LoopStep ==
    TakeMessage \/ Broadcast \/ FindFull \/ Park \/ Retry \/ Store \/ ServeClient
ViewerStep ==
    ReceiveRequest \/ ScreenshotResult \/ \E n \in inspecting : InspectionDone(n)
Read(c) == ReadHistory(c) \/ ReadLive(c)
RequestReturns(n) == RequestDropped(n) \/ InspectTimeout(n)

Next ==
    \/ \E k \in options.kinds, z \in options.sizes : Write(k, z)
    \/ LoopStep
    \/ ViewerStep
    \/ \E c \in Clients : Connect(c) \/ Cancel(c) \/ Read(c) \/ Disconnect(c)
    \/ \E n \in 1..MaxMessages : RequestReturns(n)

\* The event loop's task is polled once it is woken, and a connected client reads
\* for as long as it is connected; the viewer draws a frame when the log channel's
\* waker or a repaint request asks for it; the tasks of waiting requests are polled
\* and timers fire.  Nobody has to write, connect or disconnect.
Fairness ==
    /\ WF_vars(LoopStep)
    /\ WF_vars(ViewerStep)
    /\ \A c \in Clients : WF_vars(Read(c))
    /\ WF_vars(\E n \in 1..MaxMessages : RequestReturns(n))

Spec == Init /\ [][Next]_vars
FairSpec == Spec /\ Fairness

-----------------------------------------------------------------------------
(* Properties *)

\* What is broadcast after a client subscribed reaches it once each and in
\* order, however history replay, backpressure and other clients interleave.
LiveStreamExact ==
    \A c \in Clients : cpc[c] = "streaming" =>
        LET after == SubSeq(handled, since[c] + 1, Len(handled))
        IN  SelectSeq(received[c], LAMBDA m : m.id \in Ids(after)) \o chan[c] = after

\* History and live stream overlap in nothing: no client is sent a message twice.
NoDuplicates ==
    \A c \in Clients :
        IsInjective([i \in 1..Len(received[c] \o hist[c] \o chan[c]) |->
                        (received[c] \o hist[c] \o chan[c])[i].id])

\* A remote client misses no store info or blueprint: every persistent message
\* the loop has ever broadcast was sent to it or is on its way, no matter when
\* it connected and what was garbage-collected (unless history is disabled).
PersistentReachesAll ==
    options.memory_limit # 0 =>
        \A c \in Clients \ Local : cpc[c] = "streaming" =>
            \A i \in 1..Len(handled) :
                handled[i].kind = "persistent"
                  => handled[i].id \in Ids(received[c] \o hist[c] \o chan[c])

\* The messages of q are the newest of S, in the order they were written.
NewestOf(q, S) ==
    /\ ToSet(q) \subseteq S
    /\ \A m \in ToSet(q), n \in S : m.id <= n.id => n \in ToSet(q)
    /\ \A i, j \in 1..Len(q) : i < j => q[i].id < q[j].id

\* The GC drops the oldest messages of a queue first: what is left is always
\* the most recent part of what was stored, without holes.
OldestDroppedFirst ==
    LET stored == {m \in ToSet(handled) : loop = "store" => m.id # current.id}
        OfKind(k) == {m \in stored : Class(m) = k}
    IN  options.memory_limit # 0 =>
          /\ NewestOf(persistent, OfKind("persistent"))
          /\ OfKind("persistent") \subseteq ToSet(persistent)
          /\ NewestOf(static_, OfKind("static"))
          /\ NewestOf(disposable, OfKind("disposable"))

\* The buffer exceeds the limit by no more than the message stored last,
\* unless only persistent messages and that one are left ("The GC runs
\* _before_ a message is stored").
HistoryBound ==
    LET last == IF loop = "store" THEN handled[Len(handled) - 1]
                                  ELSE handled[Len(handled)]
        older(q) == SelectSeq(q, LAMBDA m : m.id # last.id)
    IN  options.memory_limit \notin {0, Unlimited} /\ persistent \o static_ \o disposable # <<>> =>
          \/ BufferSize(older(persistent), older(static_), older(disposable)) <= options.memory_limit
          \/ older(static_) = <<>> /\ older(disposable) = <<>>

\* Static data outlives disposable data: a step that drops a static message
\* leaves nothing disposable but the message it stores.
StaticDroppedLast ==
    [][Ids(static_) \subseteq Ids(static_') \/ Ids(disposable') \subseteq {current.id}]_vars

\* The loop is parked without a timeout although there is room: what made it was
\* announced between try_send and the Notified future.
MissedWakeup == wait = "parked" /\ warned /\ Room

\* Every client that stays connected catches up with the loop, and the loop
\* with the writers (who stop at the bound), unless it misses its wake-up after
\* having warned.
Delivered ==
    /\ \A c \in Clients :
          cpc[c] = "streaming" ~>
             (cpc[c] = "streaming" => hist[c] = <<>> /\ chan[c] = <<>>)
    /\ []<>(Len(handled) = written \/ MissedWakeup)

\* Without that exception: the loop always catches up.
LoopCatchesUp == []<>(Len(handled) = written)

ViewerReads == \E c \in Local : cpc[c] = "streaming"

\* A command to the viewer ends, by the viewer's answer or an error, for as long
\* as the in-process viewer is there and the loop does not miss its wake-up: it
\* cannot get lost between the event queue, the broadcast, the log channel to the
\* viewer and the history, where a copy would keep its answer channel open.
\* inspect ends in any case.  (Requests stop at the bound, so each of them ends if
\* again and again none is waiting.)
RequestsAnswered ==
    []<>(\A n \in 1..MaxMessages :
            /\ answer[n] # "inspect"
            /\ answer[n] = "command" => ~ViewerReads \/ MissedWakeup)

\* "Screenshot completion signal was dropped before the screenshot was taken": with
\* a viewer, a screenshot request ends too.
ScreenshotsAnswered ==
    []<>(\A n \in 1..MaxMessages :
            answer[n] = "screenshot" => ~ViewerReads \/ MissedWakeup)

\* "viewer dropped the set-time request before responding (is a viewer
\* running?)": a request that no viewer answers ends in this error.
RequestsFailWithoutViewer ==
    \A n \in 1..MaxMessages : answer[n] = "command" ~> answer[n] # "command"

\* "We keep the static messages for as long as we can, but if disposable is
\* empty and we're still over our memory budget, we start throwing away the
\* oldest messages from here too": a static message is dropped only if
\* keeping it would leave the buffer over budget.
StaticKeptWhileInBudget ==
    [][\A i \in 1..Len(static_) :
          static_[i].id \notin Ids(static_') =>
            Total(persistent) + Total(SubSeq(static_, i, Len(static_))) > options.memory_limit]_vars

\* "we ALWAYS send the persistent and static data before the disposable,
\* regardless of PlaybackBehavior!": a client that was sent disposable data
\* has been sent the persistent and static part of its history.
PersistentSentFirst ==
    \A c \in Clients :
        (\E i \in 1..Len(received[c]) : received[c][i].kind = "disposable")
          => \A j \in 1..Len(hist[c]) : hist[c][j].kind = "disposable"
=============================================================================
