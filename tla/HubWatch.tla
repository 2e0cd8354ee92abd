------------------------------ MODULE HubWatch ------------------------------
(***************************************************************************)
(* Watches of a hub, end to end: the store, the stream that serves a watch *)
(* (host/src/lib/hub-event-watch.ts), the connection, the client that      *)
(* checks what it reads (rest-api2/src/hub-event-watch.ts) and the reader  *)
(* that iterates over it.                                                  *)
(*                                                                         *)
(* consume() calls the subscribers synchronously, so the queues of the     *)
(* streams change in the step of the source.  The frames pushed into the   *)
(* stream and not yet parsed by the client are `out`; the stream takes     *)
(* WireRoom of them before it blocks.  Error codes are not told apart.     *)
(***************************************************************************)
EXTENDS HubStateStore

CONSTANTS
    Capacity,     \* HUB_WATCH_QUEUE_CAPACITY, of the server and of the client
    WireRoom,     \* frames the stream and the connection hold
    Breaks        \* what may end a watch: disconnect, timeout, close, shutdown

ASSUME RoomAssumption == Capacity \in Nat \ {0} /\ WireRoom \in Nat \ {0}
ASSUME BreaksAssumption == Breaks \subseteq {"disconnect", "timeout", "close", "shutdown"}

Watches == Subscribers

VARIABLES
    srv,          \* the stream of each watch
    cl,           \* the client of each watch
    seen,         \* what its reader knows of the source
    told,         \* its reader got the rejection, or done
    serving       \* the API server takes requests

vars == <<storeVars, srv, cl, seen, told, serving>>

Start == [epoch |-> 1, position |-> 0]

Init ==
    /\ InitStore
    /\ srv = [w \in Watches |-> [phase |-> "none", queue |-> << >>, beat |-> FALSE,
                                 delivered |-> Start, out |-> << >>, eof |-> FALSE]]
    /\ cl = [w \in Watches |-> [state |-> "idle", cursor |-> Start, inbox |-> << >>,
                                waiting |-> FALSE, alarm |-> FALSE]]
    /\ seen = [w \in Watches |-> {}]
    /\ told = [w \in Watches |-> FALSE]
    /\ serving = TRUE

Snapshot(k) == [type |-> "snapshot", cursor |-> cursor, items |-> items[k]]
Change(from, to) == [type |-> "change", cursor |-> to, previous |-> from]
Error == [type |-> "error"]
Heartbeat(c, delivered) == [type |-> "heartbeat", cursor |-> c, delivered |-> delivered]

\* The snapshot that is still pending goes first; the rest are changes.
Pending(frames) ==
    IF frames # << >> /\ Head(frames).type = "snapshot" THEN <<Head(frames)>> ELSE << >>
Waiting(frames) == Len(frames) - Len(Pending(frames))

IsOver(frames) == \E i \in DOMAIN frames : frames[i].type = "error"

-----------------------------------------------------------------------------
(* The stream.  Its queue holds the snapshot, the changes (live) and the   *)
(* terminal error, in the order pump() takes them.                         *)

\* The cursor of the last change among frames of the queue, if they have one:
\* nothing but an error follows a change.
LastChange(frames, default) ==
    IF frames # << >> /\ frames[Len(frames)].type = "change"
    THEN frames[Len(frames)].cursor ELSE default

\* pump(): the queue, then a heartbeat with the cursor of the source, as long
\* as the stream takes frames.  The error is the last frame.
Pump(s, c) ==
    LET room == WireRoom - Len(s.out)
        n == IF room < Len(s.queue) THEN room ELSE Len(s.queue)
        sent == SubSeq(s.queue, 1, n)
        ended == IsOver(sent)
        delivered == LastChange(sent, s.delivered)
        beats == s.beat /\ n = Len(s.queue) /\ n < room /\ ~ended
    IN IF s.phase # "open" THEN s
       ELSE [phase |-> IF ended THEN "closed" ELSE "open",
             queue |-> SubSeq(s.queue, n + 1, Len(s.queue)),
             beat |-> s.beat /\ ~beats /\ ~ended,
             delivered |-> delivered,
             out |-> s.out \o sent \o IF beats THEN <<Heartbeat(c, delivered)>> ELSE << >>,
             eof |-> ended]

Blocked(s) == Len(s.out) = WireRoom

\* fail(): the queued changes are dropped for the error.
Failed(s) ==
    IF s.phase # "open" \/ IsOver(s.queue) THEN s
    ELSE [s EXCEPT !.queue = Append(Pending(@), Error),
                   !.beat = FALSE]

\* Mutant: one change more than the queue may hold.
OverflowsLate(s) == Waiting(s.queue) > Capacity

Overflows(s) == Waiting(s.queue) >= Capacity

\* Mutant: the change that finds the queue full is dropped.
EnqueuedDropping(s, change) ==
    IF Overflows(s) THEN s ELSE [s EXCEPT !.queue = Append(@, change)]

\* enqueue()
Enqueued(s, change) ==
    IF Overflows(s) THEN Failed(s) ELSE [s EXCEPT !.queue = Append(@, change)]

Notified(w) == w \in subscribed /\ previous'[w] # previous[w]

\* What a step of the source does to a stream: a change, or a failure.
Handed(w) ==
    IF Notified(w) THEN Enqueued(srv[w], Change(previous[w], previous'[w]))
    ELSE IF w \in subscribed \ subscribed' THEN Failed(srv[w])
    ELSE srv[w]

\* A step of the source; a stream that overflows closes its subscription in the callback.
Source ==
    /\ SourceStep
    /\ \A w \in Watches : Notified(w) => (w \in subscribed' <=> ~Overflows(srv[w]))
    /\ srv' = [w \in Watches |-> Pump(Handed(w), cursor')]
    /\ UNCHANGED <<cl, seen, told, serving>>

\* The request of a client reaches the hub (createHubEventWatchStream).
Open(w) ==
    /\ srv[w].phase = "none" /\ cl[w].state = "opening" /\ serving
    /\ IF CanSubscribe
       THEN /\ Subscribe(w)
            /\ srv' = [srv EXCEPT ![w] =
                   Pump([@ EXCEPT !.phase = "open", !.queue = <<Snapshot(KindOf[w])>>,
                                  !.delivered = cursor], cursor)]
       ELSE /\ srv' = [srv EXCEPT ![w].phase = "closed", ![w].eof = TRUE]
            /\ UNCHANGED storeVars
    /\ UNCHANGED <<cl, seen, told, serving>>

\* The heartbeat interval elapses.
Beat(w) ==
    /\ srv[w].phase = "open" /\ ~srv[w].beat /\ ~IsOver(srv[w].queue)
    /\ srv' = [srv EXCEPT ![w] = Pump([@ EXCEPT !.beat = TRUE], cursor)]
    /\ UNCHANGED <<storeVars, cl, seen, told, serving>>

\* The frames of a destroyed stream that the client may still read.
Destroyed(s, n) ==
    [s EXCEPT !.phase = "closed", !.queue = << >>, !.beat = FALSE,
              !.out = SubSeq(@, 1, n), !.eof = TRUE]

Gone(w) == cl[w].state \in {"lost", "closed"}

\* Mutant: the subscription is kept (no subscription.close in detach).
DisconnectKeeping(w) ==
    /\ srv[w].phase = "open"
    /\ Gone(w) \/ "disconnect" \in Breaks
    /\ \E n \in 0 .. Len(srv[w].out) : srv' = [srv EXCEPT ![w] = Destroyed(@, n)]
    /\ UNCHANGED <<storeVars, cl, seen, told, serving>>

\* onDisconnect(): the client hung up, or the connection broke.
Disconnect(w) ==
    /\ srv[w].phase = "open"
    /\ Gone(w) \/ "disconnect" \in Breaks
    /\ \E n \in 0 .. Len(srv[w].out) : srv' = [srv EXCEPT ![w] = Destroyed(@, n)]
    /\ Unsubscribe({w})
    /\ UNCHANGED <<cl, seen, told, serving>>

\* Host.stop() releases the streams (closeHubEventWatchStreams) and stops serving;
\* a stream that is blocked is destroyed without its error.
ReleaseStreams ==
    LET Released(w) == Pump(Failed(srv[w]), cursor)
        Stuck(w) == srv[w].phase = "open" /\ Blocked(Released(w)) /\ Released(w).phase = "open"
    IN /\ "shutdown" \in Breaks /\ serving
       /\ serving' = FALSE
       /\ srv' = [w \in Watches |-> IF Stuck(w) THEN Destroyed(Released(w), Len(Released(w).out))
                                    ELSE Released(w)]
       /\ Unsubscribe({w \in Watches : srv[w].phase = "open"})
       /\ UNCHANGED <<cl, seen, told>>

\* The API server has closed: the store is closed too.
CloseSource ==
    /\ ~serving /\ Close
    /\ srv' = [w \in Watches |-> Pump(Handed(w), cursor')]
    /\ UNCHANGED <<cl, seen, told, serving>>

-----------------------------------------------------------------------------
(* The client and its reader.                                              *)

Known(frame, before) ==
    IF frame.type = "snapshot" THEN frame.items ELSE before \cup {Index(frame.cursor)}

\* selectTerminal(): what was queued is dropped, and a waiting reader is told.
Ends(w, next, alarm) ==
    /\ cl' = [cl EXCEPT ![w] = [@ EXCEPT !.state = next, !.inbox = << >>, !.waiting = FALSE,
                                         !.alarm = alarm]]
    /\ told' = [told EXCEPT ![w] = @ \/ cl[w].waiting]
    /\ UNCHANGED seen

\* Mutant: an event that finds the queue full is dropped, its cursor taken.
DeliveredDropping(w, frame) ==
    IF cl[w].waiting
    THEN /\ cl' = [cl EXCEPT ![w] = [@ EXCEPT !.state = "live", !.cursor = frame.cursor,
                                             !.waiting = FALSE]]
         /\ seen' = [seen EXCEPT ![w] = Known(frame, @)]
         /\ UNCHANGED told
    ELSE /\ cl' = [cl EXCEPT ![w] = [@ EXCEPT !.state = "live", !.cursor = frame.cursor,
                         !.inbox = IF Waiting(@) >= Capacity THEN @ ELSE Append(@, frame)]]
         /\ UNCHANGED <<seen, told>>

\* deliver(), for the snapshot too: to the waiting reader, or to the queue.
Delivered(w, frame) ==
    IF cl[w].waiting
    THEN /\ cl' = [cl EXCEPT ![w] = [@ EXCEPT !.state = "live", !.cursor = frame.cursor,
                                             !.waiting = FALSE]]
         /\ seen' = [seen EXCEPT ![w] = Known(frame, @)]
         /\ UNCHANGED told
    ELSE IF frame.type = "change" /\ Waiting(cl[w].inbox) >= Capacity
    THEN Ends(w, "lost", FALSE)
    ELSE /\ cl' = [cl EXCEPT ![w] = [@ EXCEPT !.state = "live", !.cursor = frame.cursor,
                                             !.inbox = Append(cl[w].inbox, frame)]]
         /\ UNCHANGED <<seen, told>>

\* A change must be linked to the cursor of the client.
Continues(f, c) ==
    f.cursor.epoch = c.epoch /\ f.previous = c /\ f.cursor.position > c.position

\* A heartbeat must name the cursor of the client as the last one delivered.
Confirms(f, c) ==
    f.delivered = c /\ f.cursor.epoch = c.epoch /\ f.cursor.position >= c.position

\* Mutant: reading does not wake the stream (blocked is kept).
ReadFromUnwoken(s) == [s EXCEPT !.out = Tail(@)]

\* The connection takes a frame, which makes room in the stream (read).
ReadFrom(s) == Pump([s EXCEPT !.out = Tail(@)], cursor)

\* readPump() parses the next frame and checks it against its cursor.
Parse(w) ==
    LET f == Head(srv[w].out)
        live == cl[w].state = "live"
    IN /\ cl[w].state \in {"opening", "live"} /\ srv[w].out # << >>
       /\ srv' = [srv EXCEPT ![w] = ReadFrom(@)]
       /\ \/ f.type = "error" /\ Ends(w, "lost", FALSE)
          \/ f.type = "heartbeat"
             /\ IF live /\ Confirms(f, cl[w].cursor)
                THEN UNCHANGED <<cl, seen, told>> ELSE Ends(w, "lost", TRUE)
          \/ f.type = "snapshot"
             /\ IF live THEN Ends(w, "lost", TRUE) ELSE Delivered(w, f)
          \/ f.type = "change"
             /\ IF live /\ Continues(f, cl[w].cursor)
                THEN Delivered(w, f) ELSE Ends(w, "lost", TRUE)
       /\ UNCHANGED <<storeVars, serving>>

\* The response ended without an error frame.
EndOfStream(w) ==
    /\ cl[w].state \in {"opening", "live"} /\ srv[w].out = << >> /\ srv[w].eof
    /\ Ends(w, "lost", FALSE)
    /\ UNCHANGED <<storeVars, srv, serving>>

\* createHubEventWatch() sends its request.
Connect(w) ==
    /\ cl[w].state = "idle"
    /\ cl' = [cl EXCEPT ![w].state = "opening"]
    /\ UNCHANGED <<storeVars, srv, seen, told, serving>>

\* The open or the silence timer fires; the reader closes the watch or aborts it.
Stop(w) ==
    /\ cl[w].state \in {"opening", "live"}
    /\ \/ "timeout" \in Breaks /\ Ends(w, "lost", FALSE)
       \/ "close" \in Breaks /\ Ends(w, "closed", FALSE)
    /\ UNCHANGED <<storeVars, srv, serving>>

\* Mutant: the queue goes before the snapshot that is pending.
ReadNextQueueFirst(w) ==
    LET q == cl[w].inbox
    IN /\ cl[w].state # "idle" /\ ~cl[w].waiting /\ ~told[w]
       /\ IF q # << >>
          THEN /\ seen' = [seen EXCEPT ![w] = Known(q[Len(q)], @)]
               /\ cl' = [cl EXCEPT ![w].inbox = SubSeq(q, 1, Len(q) - 1)]
               /\ UNCHANGED told
          ELSE IF Gone(w)
          THEN told' = [told EXCEPT ![w] = TRUE] /\ UNCHANGED <<cl, seen>>
          ELSE cl' = [cl EXCEPT ![w].waiting = TRUE] /\ UNCHANGED <<seen, told>>
       /\ UNCHANGED <<storeVars, srv, serving>>

\* The reader asks for the next event.
ReadNext(w) ==
    /\ cl[w].state # "idle" /\ ~cl[w].waiting /\ ~told[w]
    /\ IF cl[w].inbox # << >>
       THEN /\ seen' = [seen EXCEPT ![w] = Known(Head(cl[w].inbox), @)]
            /\ cl' = [cl EXCEPT ![w].inbox = Tail(@)]
            /\ UNCHANGED told
       ELSE IF Gone(w)
       THEN told' = [told EXCEPT ![w] = TRUE] /\ UNCHANGED <<cl, seen>>
       ELSE cl' = [cl EXCEPT ![w].waiting = TRUE] /\ UNCHANGED <<seen, told>>
    /\ UNCHANGED <<storeVars, srv, serving>>

Next ==
    \/ Source \/ ReleaseStreams \/ CloseSource
    \/ \E w \in Watches :
          \/ Connect(w) \/ Open(w) \/ Beat(w) \/ Disconnect(w)
          \/ Parse(w) \/ EndOfStream(w) \/ Stop(w) \/ ReadNext(w)

Spec == Init /\ [][Next]_vars

\* The client reads its response, and its reader keeps asking.
FairSpec ==
    /\ Spec
    /\ \A w \in Watches :
          WF_vars(Parse(w)) /\ WF_vars(EndOfStream(w)) /\ WF_vars(ReadNext(w))

-----------------------------------------------------------------------------
TypeOK ==
    /\ StoreTypeOK
    /\ \A w \in Watches :
          /\ srv[w].phase \in {"none", "open", "closed"}
          /\ Len(srv[w].out) <= WireRoom /\ Waiting(srv[w].queue) <= Capacity
          /\ cl[w].state \in {"idle", "opening", "live", "lost", "closed"}
          /\ Waiting(cl[w].inbox) <= Capacity
    /\ DOMAIN srv = Watches /\ DOMAIN cl = Watches
    /\ seen \in [Watches -> SUBSET Nat] /\ told \in [Watches -> BOOLEAN]

\* What the reader knows once it has read what is queued for it.
Inbox(w) ==
    LET q == cl[w].inbox
        base0 == IF q # << >> /\ Head(q).type = "snapshot" THEN Head(q).items ELSE seen[w]
    IN base0 \cup {Index(q[i].cursor) : i \in {j \in DOMAIN q : q[j].type = "change"}}

\* The reader of a live watch misses nothing up to the cursor of its client,
\* whatever happened to records, connection and queues (readPump, enqueue).
ReaderMissesNothing ==
    \A w \in Watches :
        cl[w].state = "live" => Inbox(w) = ItemsAt(KindOf[w], Index(cl[w].cursor))

\* The client never suspects a stream that serves it well: the checks of
\* readPump() agree with the order of pump() and the links of notify().
NoFalseAlarm == \A w \in Watches : ~cl[w].alarm

\* A subscriber of the store has a stream that can still use what it is handed.
SubscriptionsAreServed ==
    \A w \in subscribed : srv[w].phase = "open" /\ ~IsOver(srv[w].queue)

\* Nobody who watches is left behind for ever: what the store holds while a
\* watch is subscribed reaches its reader, or the reader is told of the end.
ChangesReachReader ==
    \A w \in Watches : \A i \in 1 .. MaxChanges :
        (w \in subscribed /\ i \in items[KindOf[w]]) ~> (i \in seen[w] \/ told[w])

\* A reader's view of the hub is what a watch promises (WatchedLog).
Promise == INSTANCE WatchedLog WITH Readers <- Watches, view <- seen, over <- told
ReadsTheLog == Promise!Spec
=============================================================================
