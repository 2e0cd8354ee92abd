--------------------------- MODULE HubWatchProofs ---------------------------
(***************************************************************************)
(* Theorems of HubWatch, for any watches, kinds, faults and capacities.    *)
(*                                                                         *)
(* The watches use the store as HubStateStore says it may be used, so what *)
(* is proved of the store holds under its streams and clients.  A reader   *)
(* misses nothing because every queue on the way goes on where the one     *)
(* before it ends: the store links a subscriber to the end of the queue of *)
(* its stream, the queue goes on where the wire ends, the wire where the   *)
(* client stands, and the inbox where the reader stands.  The invariant    *)
(* WInv says so, and that each frame tells the truth of the log; the log   *)
(* and its epochs are parameters of these definitions, as a frame is made  *)
(* under one log and read under a longer one.                              *)
(***************************************************************************)
EXTENDS HubWatch, HubStateStoreProofs

LEMMA SourceUsesStore ==
  ASSUME Source \/ ReleaseStreams \/ CloseSource
  PROVE  StoreNext
<1>1. CASE Source
  BY <1>1, Zenon DEF Source, StoreNext
<1>2. CASE ReleaseStreams
  <2>1. Unsubscribe({w \in Watches : srv[w].phase = "open"})
    BY <1>2, Zenon DEF ReleaseStreams
  <2>2. {w \in Watches : srv[w].phase = "open"} \in SUBSET Subscribers
    BY DEF Watches
  <2> QED
    BY <2>1, <2>2, Zenon DEF StoreNext
<1>3. CASE CloseSource
  BY <1>3, Zenon DEF CloseSource, StoreNext
<1> QED
  BY <1>1, <1>2, <1>3, Zenon

LEMMA WatchUsesStore ==
  ASSUME NEW w \in Watches,
         \/ Connect(w) \/ Open(w) \/ Beat(w) \/ Disconnect(w)
         \/ Parse(w) \/ EndOfStream(w) \/ Stop(w) \/ ReadNext(w)
  PROVE  StoreNext \/ UNCHANGED storeVars
<1>1. CASE Open(w)
  <2>1. w \in Subscribers
    BY DEF Watches
  <2>2. Subscribe(w) \/ UNCHANGED storeVars
    BY <1>1, Zenon DEF Open
  <2> QED
    BY <2>1, <2>2, Zenon DEF StoreNext
<1>2. CASE Disconnect(w)
  <2>1. Unsubscribe({w})
    BY <1>2, Zenon DEF Disconnect
  <2>2. {w} \in SUBSET Subscribers
    BY DEF Watches
  <2> QED
    BY <2>1, <2>2, Zenon DEF StoreNext
<1>3. CASE Connect(w) \/ Beat(w)
  <2>1. UNCHANGED <<storeVars, cl, seen, told, serving>> \/ UNCHANGED <<storeVars, srv, seen, told, serving>>
    BY <1>3, Zenon DEF Connect, Beat
  <2> QED
    BY <2>1
<1>4. CASE Parse(w)
  <2>1. UNCHANGED <<storeVars, serving>>
    BY <1>4, Zenon DEF Parse
  <2> QED
    BY <2>1
<1>5. CASE EndOfStream(w) \/ Stop(w) \/ ReadNext(w)
  <2>1. UNCHANGED <<storeVars, srv, serving>>
    BY <1>5, Zenon DEF EndOfStream, Stop, ReadNext
  <2> QED
    BY <2>1
<1> QED
  BY <1>1, <1>2, <1>3, <1>4, <1>5, Zenon

\* The system of watches implements the store with its auditor: no stream,
\* connection or client changes the store but through subscribe() and close().
THEOREM UsesTheStore == Spec => StoreSpec
<1>1. Init => InitStore
  BY Zenon DEF Init
<1>2. [Next]_vars => [StoreNext]_storeVars
  <2> SUFFICES ASSUME [Next]_vars PROVE StoreNext \/ UNCHANGED storeVars
    OBVIOUS
  <2>1. CASE UNCHANGED vars
    BY <2>1 DEF vars
  <2>2. CASE Next
    BY <2>2, SourceUsesStore, WatchUsesStore, Zenon DEF Next
  <2> QED
    BY <2>1, <2>2
<1> QED
  BY <1>1, <1>2, PTL DEF Spec, StoreSpec

\* Under every watch, an available store offers the replay of the log
\* (consume, checkpoint), whatever breaks or blocks.
THEOREM WatchedStoreReplays == Spec => []StoreIsReplay
  BY UsesTheStore, StoreReplays, PTL

\* A watch is never linked to a cursor with a change of its kind left out (notify).
THEOREM WatchesAreLinked == Spec => []LinksSkipNothing
  BY UsesTheStore, NoLinkSkips, PTL

-----------------------------------------------------------------------------
(* What a watch holds, from the queue of its stream to its reader.  The log *)
(* l and the epochs b are parameters: frames are made under one log and    *)
(* read under a longer one.                                                *)

Frames ==
    [type : {"snapshot"}, cursor : Cursor, items : SUBSET Nat]
    \cup [type : {"change"}, cursor : Cursor, previous : Cursor]
    \cup [type : {"heartbeat"}, cursor : Cursor, delivered : Cursor]
    \cup [type : {"error"}]
Streams == [phase : {"none", "open", "closed"}, queue : Seq(Frames), beat : BOOLEAN,
            delivered : Cursor, out : Seq(Frames), eof : BOOLEAN]
Clients == [state : {"idle", "opening", "live", "lost", "closed"}, cursor : Cursor,
            inbox : Seq(Frames), waiting : BOOLEAN, alarm : BOOLEAN]
Typed ==
    /\ srv \in [Watches -> Streams] /\ cl \in [Watches -> Clients]
    /\ seen \in [Watches -> SUBSET Nat] /\ told \in [Watches -> BOOLEAN]

\* A cursor that stands for a moment of the log, and what was held then.
Inside(c, l, b) == c \in Cursor /\ c.epoch <= Len(b) /\ Place(b, c) <= Len(l)
Upto(k, c, l, b) == HeldOf(l, k, Place(b, c))

\* A frame says what is true of the log: a snapshot is whole, a change leaves
\* nothing of its kind out, and a heartbeat does not fall behind.
Sound(f, k, l, b) ==
    /\ f.type = "snapshot" =>
          Inside(f.cursor, l, b) /\ f.items = Upto(k, f.cursor, l, b)
    /\ f.type = "change" =>
          /\ Inside(f.previous, l, b) /\ Inside(f.cursor, l, b)
          /\ f.cursor.epoch = f.previous.epoch /\ f.cursor.position > f.previous.position
          /\ Upto(k, f.cursor, l, b) = Upto(k, f.previous, l, b) \cup {Place(b, f.cursor)}
    /\ f.type = "heartbeat" =>
          f.cursor.epoch = f.delivered.epoch /\ f.cursor.position >= f.delivered.position

\* The queue of a stream goes on where the stream stands.
QueueOK(s, k, l, b) ==
    /\ s.phase # "open" => s.queue = << >> /\ ~s.beat
    /\ s.phase = "open" => Inside(s.delivered, l, b)
    /\ Waiting(s.queue) <= Capacity
    /\ \A i \in DOMAIN s.queue :
          /\ s.queue[i].type # "heartbeat" /\ Sound(s.queue[i], k, l, b)
          /\ s.queue[i].type = "snapshot" => i = 1 /\ s.queue[i].cursor = s.delivered
          /\ s.queue[i].type = "error" => i = Len(s.queue) /\ ~s.beat
          /\ s.queue[i].type = "change" =>
                s.queue[i].previous = IF i = 1 THEN s.delivered ELSE s.queue[i - 1].cursor

\* The cursor at the end of the queue.
LastIn(s) == IF s.queue = << >> THEN s.delivered ELSE s.queue[Len(s.queue)].cursor

\* The cursors a client has before and after a frame that it accepts.
Enters(f) == IF f.type = "heartbeat" THEN f.delivered ELSE f.previous
Leaves(f) == IF f.type = "heartbeat" THEN f.delivered ELSE f.cursor

\* Each frame on the wire goes on where the one before it ends, and the last
\* ends where the stream stands.
WireOK(s, k, l, b) ==
    /\ Len(s.out) <= WireRoom
    /\ \A i \in DOMAIN s.out :
          /\ Sound(s.out[i], k, l, b)
          /\ s.out[i].type = "snapshot" => i = 1
          /\ s.out[i].type = "error" => i = Len(s.out) /\ s.phase = "closed"
          /\ i > 1 /\ s.out[i].type # "error" => Enters(s.out[i]) = Leaves(s.out[i - 1])
    /\ s.phase = "open" /\ s.out # << >> => Leaves(s.out[Len(s.out)]) = s.delivered
    /\ Pending(s.queue) # << >> => s.out = << >>
    /\ s.phase = "none" => s.out = << >>

\* The first frame on the wire is one that the client expects.
Meets(s, c) ==
    /\ c.state = "live" =>
          /\ s.phase # "none" /\ Pending(s.queue) = << >>
          /\ s.out # << >> => /\ s.out[1].type # "snapshot"
                              /\ s.out[1].type = "error" \/ Enters(s.out[1]) = c.cursor
          /\ s.out = << >> /\ s.phase = "open" => s.delivered = c.cursor
    /\ c.state \in {"idle", "opening"} =>
          /\ s.out # << >> => s.out[1].type = "snapshot"
          /\ s.out = << >> /\ s.phase = "open" => Pending(s.queue) # << >>
    /\ c.state = "idle" => s.phase = "none"

\* The places of the changes in a queue.
Told(q, b) == {Place(b, q[i].cursor) : i \in {j \in DOMAIN q : q[j].type = "change"}}

\* What the reader will know once it has read its inbox.
InboxOf(c, known, b) ==
    (IF c.inbox # << >> /\ Head(c.inbox).type = "snapshot" THEN Head(c.inbox).items ELSE known)
        \cup Told(c.inbox, b)

\* The inbox goes on where the reader stands, and ends where the client does.
ReadsOK(c, known, over, k, l, b) ==
    /\ ~c.alarm
    /\ c.state # "live" => c.inbox = << >>
    /\ c.waiting => c.inbox = << >> /\ ~over /\ c.state \in {"opening", "live"}
    /\ c.state \in {"idle", "opening"} => known = {}
    /\ Waiting(c.inbox) <= Capacity
    /\ \A i \in DOMAIN c.inbox :
          /\ c.inbox[i].type \in {"snapshot", "change"} /\ Sound(c.inbox[i], k, l, b)
          /\ c.inbox[i].type = "snapshot" => i = 1
          /\ i > 1 => c.inbox[i].previous = c.inbox[i - 1].cursor
    /\ c.inbox # << >> =>
          /\ c.inbox[Len(c.inbox)].cursor = c.cursor
          /\ known = IF c.inbox[1].type = "snapshot" THEN {} ELSE Upto(k, c.inbox[1].previous, l, b)
    /\ c.state = "live" =>
          /\ Inside(c.cursor, l, b)
          /\ c.inbox = << >> => known = Upto(k, c.cursor, l, b)
          /\ InboxOf(c, known, b) = Upto(k, c.cursor, l, b)

\* A stream that can still use what it is handed, and the client that meets it.
Live(s) == s.phase = "open" /\ ~IsOver(s.queue)
StreamOK(s, client, k, l, b) == QueueOK(s, k, l, b) /\ WireOK(s, k, l, b) /\ Meets(s, client)

\* A live stream is subscribed, and linked to the end of its queue.
Fed(s, w) ==
    /\ w \in subscribed <=> Live(s)
    /\ w \in subscribed => previous[w] = LastIn(s)

WatchOK(w) ==
    /\ StreamOK(srv[w], cl[w], KindOf[w], log, base) /\ Fed(srv[w], w)
    /\ ReadsOK(cl[w], seen[w], told[w], KindOf[w], log, base)

\* The inductive invariant of the watches.
WInv == IInv /\ Typed /\ \A w \in Watches : WatchOK(w)

-----------------------------------------------------------------------------
(* What is true of a frame stays true when the log grows.                  *)

LEMMA FrameFields ==
  ASSUME NEW f \in Frames
  PROVE  /\ f.type \in {"snapshot", "change", "heartbeat", "error"}
         /\ f.type # "error" => f.cursor \in Cursor
         /\ f.type = "snapshot" => f.items \in SUBSET Nat
         /\ f.type = "change" => f.previous \in Cursor
         /\ f.type = "heartbeat" => f.delivered \in Cursor
  BY DEF Frames

LEMMA InsideKept ==
  ASSUME LogOK, LogOK', Grows, NEW c, Inside(c, log, base)
  PROVE  Inside(c, log', base') /\ Place(base', c) = Place(base, c) /\ Place(base, c) \in Nat
<1>1. c \in Cursor /\ c.epoch <= Len(base) /\ Place(base, c) <= Len(log)
  BY DEF Inside
<1>2. Place(base', c) = Place(base, c) /\ Place(base, c) \in Nat
  BY <1>1, PlaceKept
<1>3. /\ Len(log) \in Nat /\ Len(log') \in Nat /\ Len(log) <= Len(log')
      /\ Len(base) \in Nat /\ Len(base') \in Nat /\ Len(base) <= Len(base')
  BY DEF LogOK, Grows
<1>4. c.epoch <= Len(base')
  BY <1>1, <1>3 DEF Cursor
<1>5. Place(base', c) <= Len(log')
  BY <1>1, <1>2, <1>3
<1> QED
  BY <1>1, <1>2, <1>4, <1>5 DEF Inside

LEMMA UptoKept ==
  ASSUME LogOK, LogOK', Grows, NEW k, NEW c, Inside(c, log, base)
  PROVE  Upto(k, c, log', base') = Upto(k, c, log, base)
<1>1. Place(base', c) = Place(base, c) /\ Place(base, c) \in Nat
  BY InsideKept
<1>2. Place(base, c) <= Len(log) /\ Len(log) \in Nat
  BY DEF Inside, LogOK
<1>3. HeldOf(log', k, Place(base, c)) = HeldOf(log, k, Place(base, c))
  BY <1>1, <1>2, HeldKept
<1> QED
  BY <1>1, <1>3 DEF Upto

LEMMA SoundKept ==
  ASSUME LogOK, LogOK', Grows, NEW f, NEW k, Sound(f, k, log, base)
  PROVE  Sound(f, k, log', base')
<1>1. CASE f.type = "snapshot"
  <2>1. Inside(f.cursor, log, base) /\ f.items = Upto(k, f.cursor, log, base)
    BY <1>1 DEF Sound
  <2>2. Inside(f.cursor, log', base') /\ f.items = Upto(k, f.cursor, log', base')
    BY <2>1, InsideKept, UptoKept
  <2> QED
    BY <1>1, <2>2 DEF Sound
<1>2. CASE f.type = "change"
  <2>1. /\ Inside(f.previous, log, base) /\ Inside(f.cursor, log, base)
        /\ f.cursor.epoch = f.previous.epoch /\ f.cursor.position > f.previous.position
        /\ Upto(k, f.cursor, log, base) = Upto(k, f.previous, log, base) \cup {Place(base, f.cursor)}
    BY <1>2 DEF Sound
  <2>2. /\ Inside(f.previous, log', base') /\ Inside(f.cursor, log', base')
        /\ Place(base', f.cursor) = Place(base, f.cursor)
    BY <2>1, InsideKept
  <2>3. /\ Upto(k, f.cursor, log', base') = Upto(k, f.cursor, log, base)
        /\ Upto(k, f.previous, log', base') = Upto(k, f.previous, log, base)
    BY <2>1, UptoKept
  <2> QED
    BY <1>2, <2>1, <2>2, <2>3 DEF Sound
<1>3. CASE f.type \notin {"snapshot", "change"}
  BY <1>3 DEF Sound
<1> QED
  BY <1>1, <1>2, <1>3

LEMMA QueueKept ==
  ASSUME LogOK, LogOK', Grows, NEW s, NEW k, QueueOK(s, k, log, base)
  PROVE  QueueOK(s, k, log', base')
<1>1. \A f : Sound(f, k, log, base) => Sound(f, k, log', base')
  BY SoundKept
<1>2. Inside(s.delivered, log, base) => Inside(s.delivered, log', base')
  BY InsideKept
<1> QED
  BY <1>1, <1>2, Zenon DEF QueueOK

LEMMA WireKept ==
  ASSUME LogOK, LogOK', Grows, NEW s, NEW k, WireOK(s, k, log, base)
  PROVE  WireOK(s, k, log', base')
<1>1. \A f : Sound(f, k, log, base) => Sound(f, k, log', base')
  BY SoundKept
<1> QED
  BY <1>1, Zenon DEF WireOK

LEMMA ReadsKept ==
  ASSUME LogOK, LogOK', Grows, NEW c \in Clients, NEW known, NEW over, NEW k,
         ReadsOK(c, known, over, k, log, base)
  PROVE  ReadsOK(c, known, over, k, log', base')
<1>1. \A f : Sound(f, k, log, base) => Sound(f, k, log', base')
  BY SoundKept
<1>2. ASSUME NEW d, Inside(d, log, base)
      PROVE  /\ Inside(d, log', base') /\ Upto(k, d, log', base') = Upto(k, d, log, base)
             /\ Place(base', d) = Place(base, d)
  BY <1>2, InsideKept, UptoKept
<1>3. InboxOf(c, known, base') = InboxOf(c, known, base)
  <2>1. \A i \in {j \in DOMAIN c.inbox : c.inbox[j].type = "change"} :
            Place(base', c.inbox[i].cursor) = Place(base, c.inbox[i].cursor)
    BY <1>2 DEF ReadsOK, Sound
  <2>2. {Place(base', c.inbox[i].cursor) : i \in {j \in DOMAIN c.inbox : c.inbox[j].type = "change"}}
        = {Place(base, c.inbox[i].cursor) : i \in {j \in DOMAIN c.inbox : c.inbox[j].type = "change"}}
    BY <2>1
  <2> QED
    BY <2>2, Zenon DEF InboxOf, Told
<1>4. c.inbox # << >> /\ c.inbox[1].type # "snapshot"
      => 1 \in DOMAIN c.inbox /\ Inside(c.inbox[1].previous, log, base)
  BY DEF ReadsOK, Sound, Clients
<1>5. c.inbox # << >> =>
          known = IF c.inbox[1].type = "snapshot" THEN {} ELSE Upto(k, c.inbox[1].previous, log', base')
  BY <1>2, <1>4 DEF ReadsOK
<1>6. c.state = "live" =>
          /\ Inside(c.cursor, log', base')
          /\ c.inbox = << >> => known = Upto(k, c.cursor, log', base')
          /\ InboxOf(c, known, base') = Upto(k, c.cursor, log', base')
  BY <1>2, <1>3 DEF ReadsOK
<1> QED
  BY <1>1, <1>5, <1>6, Zenon DEF ReadsOK

-----------------------------------------------------------------------------
(* The stream.                                                             *)

\* pump() moves n frames from the queue to the wire, and may add a heartbeat
\* to them when the queue is empty.
Moves(s, t, n, c) ==
    /\ n \in 0 .. Len(s.queue) /\ n <= WireRoom - Len(s.out)
    /\ Len(s.queue) > 0 /\ Len(s.out) < WireRoom => n > 0
    /\ t.queue = SubSeq(s.queue, n + 1, Len(s.queue))
    /\ t.delivered = IF n > 0 /\ s.queue[n].type = "change" THEN s.queue[n].cursor ELSE s.delivered
    /\ \/ t.out = s.out \o SubSeq(s.queue, 1, n)
       \/ /\ n = Len(s.queue) /\ n < WireRoom - Len(s.out) /\ s.beat /\ t.phase = "open"
          /\ t.out = s.out \o SubSeq(s.queue, 1, n) \o <<Heartbeat(c, t.delivered)>>
    /\ t.phase = IF \E i \in 1 .. n : s.queue[i].type = "error" THEN "closed" ELSE "open"
    /\ t.beat => s.beat /\ t.phase = "open"
    /\ t.beat \in BOOLEAN /\ t.eof \in BOOLEAN

LEMMA Least ==
  ASSUME NEW a \in Nat, NEW b \in Nat
  PROVE  LET n == IF a < b THEN a ELSE b
         IN n \in 0 .. b /\ n <= a /\ (b > 0 /\ a > 0 => n > 0)
  OBVIOUS

LEMMA PumpMoves ==
  ASSUME NEW s \in Streams, s.phase = "open", Len(s.out) <= WireRoom, NEW c
  PROVE  \E n : Moves(s, Pump(s, c), n, c)
<1> DEFINE room == WireRoom - Len(s.out)
           n == IF room < Len(s.queue) THEN room ELSE Len(s.queue)
           sent == SubSeq(s.queue, 1, n)
           ended == IsOver(sent)
           delivered == LastChange(sent, s.delivered)
           beats == s.beat /\ n = Len(s.queue) /\ n < room /\ ~ended
           t == Pump(s, c)
<1>1. /\ s.queue \in Seq(Frames) /\ s.out \in Seq(Frames) /\ s.beat \in BOOLEAN
      /\ Len(s.queue) \in Nat /\ Len(s.out) \in Nat /\ WireRoom \in Nat
  BY RoomAssumption DEF Streams
<1>2. n \in 0 .. Len(s.queue) /\ n <= room /\ (Len(s.queue) > 0 /\ Len(s.out) < WireRoom => n > 0)
  <2>1. room \in Nat /\ (Len(s.out) < WireRoom => room > 0)
    BY <1>1
  <2> HIDE DEF room
  <2> QED
    BY <1>1, <2>1, Least
<1>3. Len(sent) = n /\ \A i \in 1 .. n : sent[i] = s.queue[i]
  BY <1>1, <1>2
<1>4. ended <=> \E i \in 1 .. n : s.queue[i].type = "error"
  <2>1. DOMAIN sent = 1 .. n
    BY <1>1, <1>2
  <2> HIDE DEF sent, n
  <2> QED
    BY <1>3, <2>1, Zenon DEF IsOver
<1>5. delivered = IF n > 0 /\ s.queue[n].type = "change" THEN s.queue[n].cursor ELSE s.delivered
  BY <1>1, <1>2, <1>3 DEF LastChange
<1>6. t = [phase |-> IF ended THEN "closed" ELSE "open",
           queue |-> SubSeq(s.queue, n + 1, Len(s.queue)),
           beat |-> s.beat /\ ~beats /\ ~ended,
           delivered |-> delivered,
           out |-> s.out \o sent \o IF beats THEN <<Heartbeat(c, delivered)>> ELSE << >>,
           eof |-> ended]
  BY Zenon DEF Pump
<1> HIDE DEF n, ended, delivered, beats, t
<1>7. /\ t.queue = SubSeq(s.queue, n + 1, Len(s.queue)) /\ t.delivered = delivered
      /\ t.phase = IF ended THEN "closed" ELSE "open"
      /\ t.beat = (s.beat /\ ~beats /\ ~ended) /\ t.eof = ended
      /\ t.out = s.out \o sent \o IF beats THEN <<Heartbeat(c, delivered)>> ELSE << >>
  BY <1>6
<1>8. t.beat \in BOOLEAN /\ t.eof \in BOOLEAN /\ (t.beat => s.beat /\ t.phase = "open")
  <2>1. ended \in BOOLEAN
    BY DEF ended, IsOver
  <2> QED
    BY <1>7, <2>1, Zenon
<1>11. /\ t.delivered = IF n > 0 /\ s.queue[n].type = "change" THEN s.queue[n].cursor ELSE s.delivered
       /\ t.phase = IF \E i \in 1 .. n : s.queue[i].type = "error" THEN "closed" ELSE "open"
  BY <1>4, <1>5, <1>7, Zenon
<1>9. CASE beats
  <2>1. n = Len(s.queue) /\ n < WireRoom - Len(s.out) /\ s.beat /\ t.phase = "open"
    BY <1>7, <1>9, Zenon DEF beats
  <2>2. t.out = s.out \o sent \o <<Heartbeat(c, t.delivered)>>
    BY <1>7, <1>9
  <2> QED
    BY <1>2, <1>7, <1>8, <1>11, <2>1, <2>2, Zenon DEF Moves, t
<1>10. CASE ~beats
  <2>1. t.out = s.out \o sent
    <3>1. sent \in Seq(Frames)
      BY <1>1, <1>2
    <3>2. t.out = s.out \o sent \o << >>
      BY <1>7, <1>10, Zenon
    <3> HIDE DEF sent
    <3>3. s.out \o sent \in Seq(Frames)
      BY <1>1, <3>1
    <3> QED
      BY <3>2, <3>3
  <2> QED
    BY <1>2, <1>7, <1>8, <1>11, <2>1, Zenon DEF Moves, t
<1> QED
  BY <1>9, <1>10, Zenon

LEMMA HeartbeatFrame ==
  ASSUME NEW c \in Cursor, NEW d \in Cursor
  PROVE  /\ Heartbeat(c, d) \in Frames /\ Heartbeat(c, d).type = "heartbeat"
         /\ Heartbeat(c, d).cursor = c /\ Heartbeat(c, d).delivered = d
  BY DEF Heartbeat, Frames

\* The frames after pump() are the frames before it.
LEMMA MovedQueue ==
  ASSUME NEW s \in Streams, NEW t, NEW n, NEW c, Moves(s, t, n, c)
  PROVE  /\ t.queue \in Seq(Frames) /\ Len(t.queue) = Len(s.queue) - n /\ n \in Nat /\ n <= Len(s.queue)
         /\ \A i \in DOMAIN t.queue : i + n \in DOMAIN s.queue /\ t.queue[i] = s.queue[i + n]
<1>1. s.queue \in Seq(Frames) /\ Len(s.queue) \in Nat
  BY DEF Streams
<1>2. n \in 0 .. Len(s.queue) /\ t.queue = SubSeq(s.queue, n + 1, Len(s.queue))
  BY Zenon DEF Moves
<1> QED
  BY <1>1, <1>2

LEMMA MovedDelivered ==
  ASSUME NEW s \in Streams, NEW t, NEW n, NEW c, Moves(s, t, n, c)
  PROVE  t.delivered \in Cursor
<1>1. s.queue \in Seq(Frames) /\ Len(s.queue) \in Nat /\ s.delivered \in Cursor /\ n \in 0 .. Len(s.queue)
  BY DEF Streams, Moves
<1>2. n > 0 => s.queue[n] \in Frames
  BY <1>1
<1>3. t.delivered = IF n > 0 /\ s.queue[n].type = "change" THEN s.queue[n].cursor ELSE s.delivered
  BY Zenon DEF Moves
<1> QED
  BY <1>1, <1>2, <1>3, FrameFields

LEMMA Concatenated ==
  ASSUME NEW S, NEW a \in Seq(S), NEW b \in Seq(S)
  PROVE  /\ a \o b \in Seq(S) /\ Len(a) \in Nat /\ Len(b) \in Nat /\ Len(a \o b) = Len(a) + Len(b)
         /\ \A i \in 1 .. Len(a) : (a \o b)[i] = a[i]
         /\ \A i \in 1 .. Len(b) : (a \o b)[Len(a) + i] = b[i]
  OBVIOUS

LEMMA Appended ==
  ASSUME NEW S, NEW a \in Seq(S), NEW e \in S
  PROVE  /\ Append(a, e) \in Seq(S) /\ Len(Append(a, e)) = Len(a) + 1
         /\ Append(a, e)[Len(a) + 1] = e /\ \A i \in 1 .. Len(a) : Append(a, e)[i] = a[i]
  OBVIOUS

LEMMA MovedOut ==
  ASSUME NEW s \in Streams, NEW t, NEW n, NEW c \in Cursor, Moves(s, t, n, c), Len(s.out) <= WireRoom
  PROVE  /\ t.out \in Seq(Frames) /\ Len(t.out) <= WireRoom /\ Len(s.out) \in Nat
         /\ \A i \in 1 .. Len(s.out) : t.out[i] = s.out[i]
         /\ \A i \in 1 .. n : t.out[Len(s.out) + i] = s.queue[i]
         /\ \/ Len(t.out) = Len(s.out) + n
            \/ /\ n = Len(s.queue) /\ s.beat /\ t.phase = "open" /\ Len(t.out) = Len(s.out) + n + 1
               /\ t.out[Len(s.out) + n + 1] = Heartbeat(c, t.delivered)
<1>1. /\ s.queue \in Seq(Frames) /\ Len(s.queue) \in Nat /\ s.out \in Seq(Frames) /\ Len(s.out) \in Nat
      /\ WireRoom \in Nat
  BY RoomAssumption DEF Streams
<1>2. n \in 0 .. Len(s.queue) /\ n <= WireRoom - Len(s.out)
  BY Zenon DEF Moves
<1>3. t.delivered \in Cursor
  BY MovedDelivered
<1>4. Heartbeat(c, t.delivered) \in Frames
  BY <1>3, HeartbeatFrame
<1> DEFINE sent == SubSeq(s.queue, 1, n)
           h == Heartbeat(c, t.delivered)
<1>5. sent \in Seq(Frames) /\ Len(sent) = n /\ \A i \in 1 .. n : sent[i] = s.queue[i]
  BY <1>1, <1>2
<1>6. \/ t.out = s.out \o sent
      \/ /\ n = Len(s.queue) /\ n < WireRoom - Len(s.out) /\ s.beat /\ t.phase = "open"
         /\ t.out = s.out \o sent \o <<h>>
  BY Zenon DEF Moves
<1> HIDE DEF sent, h
<1>7. /\ s.out \o sent \in Seq(Frames) /\ Len(s.out \o sent) = Len(s.out) + n
      /\ \A i \in 1 .. Len(s.out) : (s.out \o sent)[i] = s.out[i]
      /\ \A i \in 1 .. n : (s.out \o sent)[Len(s.out) + i] = s.queue[i]
  <2>1. PICK a \in Seq(Frames) : a = s.out
    BY <1>1
  <2>2. PICK b \in Seq(Frames) : b = sent
    BY <1>5
  <2>3. /\ a \o b \in Seq(Frames) /\ Len(a \o b) = Len(a) + Len(b)
        /\ \A i \in 1 .. Len(a) : (a \o b)[i] = a[i]
        /\ \A i \in 1 .. Len(b) : (a \o b)[Len(a) + i] = b[i]
    BY Concatenated
  <2> QED
    BY <1>5, <2>1, <2>2, <2>3, Zenon
<1>8. n \in Nat /\ Len(s.out) + n <= WireRoom
  BY <1>1, <1>2
<1>9. CASE t.out = s.out \o sent
  BY <1>1, <1>7, <1>8, <1>9, Zenon
<1>10. CASE /\ n = Len(s.queue) /\ n < WireRoom - Len(s.out) /\ s.beat /\ t.phase = "open"
            /\ t.out = s.out \o sent \o <<h>>
  <2> DEFINE front == s.out \o sent
  <2>1. h \in Frames /\ front \in Seq(Frames) /\ Len(front) = Len(s.out) + n
    BY <1>4, <1>7 DEF h
  <2>2. t.out = Append(front, h)
    <3> HIDE DEF front
    <3>1. t.out = front \o <<h>>
      BY <1>10, Zenon DEF front
    <3> QED
      BY <2>1, <3>1
  <2>3. /\ \A i \in 1 .. Len(s.out) : front[i] = s.out[i]
        /\ \A i \in 1 .. n : front[Len(s.out) + i] = s.queue[i]
    BY <1>7
  <2> HIDE DEF front
  <2>4. /\ t.out \in Seq(Frames) /\ Len(t.out) = Len(s.out) + n + 1 /\ t.out[Len(s.out) + n + 1] = h
        /\ \A i \in 1 .. Len(s.out) + n : t.out[i] = front[i]
    <3>1. PICK a \in Seq(Frames) : a = front
      BY <2>1
    <3>2. /\ Append(a, h) \in Seq(Frames) /\ Len(Append(a, h)) = Len(a) + 1
          /\ Append(a, h)[Len(a) + 1] = h /\ \A i \in 1 .. Len(a) : Append(a, h)[i] = a[i]
      BY <2>1, Appended
    <3> QED
      BY <2>1, <2>2, <3>1, <3>2, Zenon
  <2>5. /\ \A i \in 1 .. Len(s.out) : t.out[i] = s.out[i]
        /\ \A i \in 1 .. n : t.out[Len(s.out) + i] = s.queue[i]
    <3>1. /\ \A i \in 1 .. Len(s.out) : i \in 1 .. Len(s.out) + n
          /\ \A i \in 1 .. n : Len(s.out) + i \in 1 .. Len(s.out) + n
      BY <1>1, <1>8
    <3> QED
      BY <2>3, <2>4, <3>1, Zenon
  <2>6. Len(t.out) <= WireRoom
    <3>1. n < WireRoom - Len(s.out)
      BY <1>10, Zenon
    <3> QED
      BY <1>1, <1>8, <2>4, <3>1
  <2> QED
    BY <1>1, <1>10, <2>4, <2>5, <2>6, Zenon DEF h
<1> QED
  BY <1>6, <1>9, <1>10, Zenon

LEMMA PumpTyped ==
  ASSUME NEW s \in Streams, Len(s.out) <= WireRoom, NEW c \in Cursor
  PROVE  Pump(s, c) \in Streams
<1>1. CASE s.phase # "open"
  BY <1>1 DEF Pump
<1>2. CASE s.phase = "open"
  <2> DEFINE t == Pump(s, c)
  <2>1. PICK n : Moves(s, t, n, c)
    BY <1>2, PumpMoves
  <2>2. t = [phase |-> t.phase, queue |-> t.queue, beat |-> t.beat, delivered |-> t.delivered,
             out |-> t.out, eof |-> t.eof]
    BY <1>2 DEF Pump
  <2> HIDE DEF t
  <2>3. t.queue \in Seq(Frames) /\ t.delivered \in Cursor /\ t.out \in Seq(Frames)
    BY <2>1, MovedQueue, MovedDelivered, MovedOut
  <2>4. t.phase \in {"none", "open", "closed"} /\ t.beat \in BOOLEAN /\ t.eof \in BOOLEAN
    BY <2>1, Zenon DEF Moves
  <2>5. t \in Streams
    BY <2>2, <2>3, <2>4 DEF Streams
  <2> QED
    BY <2>5 DEF t
<1> QED
  BY <1>1, <1>2

LEMMA PendingLength ==
  ASSUME NEW q \in Seq(Frames)
  PROVE  /\ Len(Pending(q)) \in {0, 1} /\ (Pending(q) = << >> <=> Len(Pending(q)) = 0)
         /\ Len(q) = 0 => Len(Pending(q)) = 0
         /\ Len(q) > 0 => (q[1].type = "snapshot" <=> Len(Pending(q)) = 1)
  BY DEF Pending

\* The place at which pump() leaves the stream.
LEMMA MovedPlace ==
  ASSUME NEW s \in Streams, NEW t, NEW n, NEW c, NEW k, NEW l, NEW b,
         Moves(s, t, n, c), QueueOK(s, k, l, b)
  PROVE  /\ n = 0 => t.delivered = s.delivered
         /\ n > 0 /\ s.queue[n].type # "error" => t.delivered = s.queue[n].cursor
<1>1. /\ t.delivered = IF n > 0 /\ s.queue[n].type = "change" THEN s.queue[n].cursor ELSE s.delivered
      /\ n \in 0 .. Len(s.queue)
  BY Zenon DEF Moves
<1>2. s.queue \in Seq(Frames) /\ Len(s.queue) \in Nat
  BY DEF Streams
<1>3. CASE n = 0
  BY <1>1, <1>3
<1>4. CASE n > 0
  <2>1. n \in DOMAIN s.queue /\ s.queue[n] \in Frames
    BY <1>1, <1>2, <1>4
  <2>2. /\ s.queue[n].type # "heartbeat"
        /\ s.queue[n].type = "snapshot" => s.queue[n].cursor = s.delivered
    BY <2>1, Zenon DEF QueueOK
  <2>3. s.queue[n].type \in {"snapshot", "change", "error"}
    BY <2>1, <2>2, FrameFields
  <2> QED
    BY <1>1, <1>4, <2>2, <2>3
<1> QED
  BY <1>1, <1>3, <1>4

LEMMA MovedWaiting ==
  ASSUME NEW s \in Streams, NEW t, NEW n, NEW c, NEW k, NEW l, NEW b,
         Moves(s, t, n, c), QueueOK(s, k, l, b)
  PROVE  Waiting(t.queue) <= Capacity
<1>1. s.queue \in Seq(Frames) /\ Len(s.queue) \in Nat /\ Capacity \in Nat
  BY RoomAssumption DEF Streams
<1>2. /\ t.queue \in Seq(Frames) /\ Len(t.queue) = Len(s.queue) - n /\ n \in Nat /\ n <= Len(s.queue)
      /\ \A i \in DOMAIN t.queue : i + n \in DOMAIN s.queue /\ t.queue[i] = s.queue[i + n]
  BY MovedQueue
<1>3. Waiting(s.queue) <= Capacity
  BY Zenon DEF QueueOK
<1>4. CASE n = 0
  <2>1. t.queue = s.queue
    BY <1>1, <1>2, <1>4
  <2> QED
    BY <1>3, <2>1
<1>5. CASE n > 0
  <2>1. Len(Pending(s.queue)) \in {0, 1} /\ Len(Pending(t.queue)) \in {0, 1}
    BY <1>1, <1>2, PendingLength
  <2>2. ASSUME NEW p \in {0, 1}, NEW r \in {0, 1}, NEW x \in Nat, NEW y \in Nat, NEW m \in Nat,
               y = x - n, x - p <= m
        PROVE  y - r <= m
    BY <1>2, <1>5, <2>2
  <2>3. Len(t.queue) \in Nat /\ Len(t.queue) = Len(s.queue) - n
    BY <1>2
  <2>4. Len(s.queue) - Len(Pending(s.queue)) <= Capacity
    BY <1>3, Zenon DEF Waiting
  <2>5. Len(t.queue) - Len(Pending(t.queue)) <= Capacity
    BY <1>1, <2>1, <2>2, <2>3, <2>4, Zenon
  <2> QED
    BY <2>5, Zenon DEF Waiting
<1> QED
  BY <1>2, <1>4, <1>5

LEMMA PumpQueue ==
  ASSUME NEW s \in Streams, NEW k, NEW l, NEW b, NEW c \in Cursor,
         Len(s.out) <= WireRoom, QueueOK(s, k, l, b)
  PROVE  QueueOK(Pump(s, c), k, l, b)
<1>1. CASE s.phase # "open"
  BY <1>1 DEF Pump
<1>2. CASE s.phase = "open"
  <2>0. PICK n : Moves(s, Pump(s, c), n, c)
    BY <1>2, PumpMoves
  <2> DEFINE t == Pump(s, c)
  <2>1. Moves(s, t, n, c)
    BY <2>0
  <2> HIDE DEF t
  <2>2. /\ t.queue \in Seq(Frames) /\ Len(t.queue) = Len(s.queue) - n /\ n \in Nat /\ n <= Len(s.queue)
        /\ \A i \in DOMAIN t.queue : i + n \in DOMAIN s.queue /\ t.queue[i] = s.queue[i + n]
    BY <2>1, MovedQueue
  <2>3. s.queue \in Seq(Frames) /\ Len(s.queue) \in Nat
    BY DEF Streams
  <2>4. \A i \in DOMAIN s.queue :
          /\ s.queue[i].type # "heartbeat" /\ Sound(s.queue[i], k, l, b)
          /\ s.queue[i].type = "snapshot" => i = 1 /\ s.queue[i].cursor = s.delivered
          /\ s.queue[i].type = "error" => i = Len(s.queue) /\ ~s.beat
          /\ s.queue[i].type = "change" =>
                s.queue[i].previous = IF i = 1 THEN s.delivered ELSE s.queue[i - 1].cursor
    BY Zenon DEF QueueOK
  <2>5. /\ t.phase = IF \E i \in 1 .. n : s.queue[i].type = "error" THEN "closed" ELSE "open"
        /\ t.beat => s.beat /\ t.phase = "open"
    BY <2>1, Zenon DEF Moves
  <2>6. /\ n = 0 => t.delivered = s.delivered
        /\ n > 0 /\ s.queue[n].type # "error" => t.delivered = s.queue[n].cursor
    BY <2>1, MovedPlace
  <2>7. t.phase # "open" => t.queue = << >> /\ ~t.beat
    <3>1. ASSUME NEW i \in 1 .. n, s.queue[i].type = "error" PROVE t.queue = << >>
      <4>1. i \in DOMAIN s.queue
        BY <2>2, <2>3
      <4>2. i = Len(s.queue)
        BY <2>4, <3>1, <4>1, Zenon
      <4>3. Len(t.queue) = 0
        BY <2>2, <2>3, <4>2
      <4> QED
        BY <2>2, <4>3
    <3> QED
      BY <2>5, <3>1, Zenon
  <2>8. Inside(t.delivered, l, b)
    <3>1. Inside(s.delivered, l, b)
      BY <1>2, Zenon DEF QueueOK
    <3>2. n > 0 => n \in DOMAIN s.queue
      BY <2>2, <2>3
    <3>3. t.delivered = IF n > 0 /\ s.queue[n].type = "change" THEN s.queue[n].cursor ELSE s.delivered
      BY <2>1, Zenon DEF Moves
    <3>4. n > 0 /\ s.queue[n].type = "change" => Inside(s.queue[n].cursor, l, b)
      BY <2>4, <3>2, Zenon DEF Sound
    <3> QED
      BY <3>1, <3>3, <3>4, Zenon
  <2>9. Waiting(t.queue) <= Capacity
    BY <2>1, MovedWaiting
  <2>10. ASSUME NEW i \in DOMAIN t.queue
         PROVE  /\ t.queue[i].type # "heartbeat" /\ Sound(t.queue[i], k, l, b)
                /\ t.queue[i].type = "snapshot" => i = 1 /\ t.queue[i].cursor = t.delivered
                /\ t.queue[i].type = "error" => i = Len(t.queue) /\ ~t.beat
                /\ t.queue[i].type = "change" =>
                      t.queue[i].previous = IF i = 1 THEN t.delivered ELSE t.queue[i - 1].cursor
    <3>1. i \in Nat /\ i > 0 /\ i + n \in DOMAIN s.queue /\ t.queue[i] = s.queue[i + n]
      BY <2>2
    <3>2. t.queue[i].type # "heartbeat" /\ Sound(t.queue[i], k, l, b)
      BY <2>4, <3>1, Zenon
    <3>3. t.queue[i].type = "snapshot" => i = 1 /\ t.queue[i].cursor = t.delivered
      <4>1. i + n = 1 => i = 1 /\ n = 0
        BY <2>2, <3>1
      <4> QED
        BY <2>4, <2>6, <3>1, <4>1, Zenon
    <3>4. t.queue[i].type = "error" => i = Len(t.queue) /\ ~t.beat
      <4>1. i + n = Len(s.queue) => i = Len(t.queue)
        BY <2>2, <2>3, <3>1
      <4> QED
        BY <2>4, <2>5, <3>1, <4>1, Zenon
    <3>5. t.queue[i].type = "change" => t.queue[i].previous = IF i = 1 THEN t.delivered ELSE t.queue[i - 1].cursor
      <4>1. t.queue[i].type = "change" =>
              t.queue[i].previous = IF i + n = 1 THEN s.delivered ELSE s.queue[(i + n) - 1].cursor
        BY <2>4, <3>1, Zenon
      <4>2. CASE i = 1 /\ n = 0
        BY <2>6, <4>1, <4>2
      <4>3. CASE i = 1 /\ n > 0
        <5>1. n \in DOMAIN s.queue /\ n # Len(s.queue) /\ (i + n) - 1 = n /\ i + n # 1
          BY <2>2, <2>3, <3>1, <4>3
        <5>2. s.queue[n].type # "error"
          BY <2>4, <5>1, Zenon
        <5> QED
          BY <2>6, <4>1, <4>3, <5>1, <5>2, Zenon
      <4>4. CASE i # 1
        <5>3. Len(t.queue) \in Nat /\ DOMAIN t.queue = 1 .. Len(t.queue)
          BY <2>2
        <5>4. i \in 1 .. Len(t.queue)
          BY <5>3
        <5>5. i - 1 \in 1 .. Len(t.queue) /\ (i + n) - 1 = (i - 1) + n /\ i + n # 1
          <6>1. n \in Nat
            BY <2>2
          <6> QED
            BY <3>1, <4>4, <5>3, <5>4, <6>1
        <5>1. i - 1 \in DOMAIN t.queue /\ (i + n) - 1 = (i - 1) + n /\ i + n # 1
          BY <5>3, <5>5
        <5>2. t.queue[i - 1] = s.queue[(i + n) - 1]
          BY <2>2, <5>1
        <5> QED
          BY <4>1, <4>4, <5>1, <5>2, Zenon
      <4> QED
        BY <2>2, <4>2, <4>3, <4>4
    <3> QED
      BY <3>2, <3>3, <3>4, <3>5
  <2>11. QueueOK(t, k, l, b)
    BY <2>7, <2>8, <2>9, <2>10, Zenon DEF QueueOK
  <2> QED
    BY <2>11 DEF t
<1> QED
  BY <1>1, <1>2

\* pump() neither ends nor revives a stream: an error that is queued stays so,
\* or closes the stream, and the queue ends where it ended.
LEMMA PumpFed ==
  ASSUME NEW s \in Streams, NEW k, NEW l, NEW b, NEW c \in Cursor,
         Len(s.out) <= WireRoom, QueueOK(s, k, l, b)
  PROVE  /\ Pump(s, c).phase = "open" /\ ~IsOver(Pump(s, c).queue) <=> s.phase = "open" /\ ~IsOver(s.queue)
         /\ s.phase = "open" /\ ~IsOver(s.queue) => LastIn(Pump(s, c)) = LastIn(s)
<1>1. CASE s.phase # "open"
  BY <1>1 DEF Pump
<1>2. CASE s.phase = "open"
  <2>0. PICK n : Moves(s, Pump(s, c), n, c)
    BY <1>2, PumpMoves
  <2> DEFINE t == Pump(s, c)
  <2>1. Moves(s, t, n, c)
    BY <2>0
  <2> HIDE DEF t
  <2>2. /\ t.queue \in Seq(Frames) /\ Len(t.queue) = Len(s.queue) - n /\ n \in Nat /\ n <= Len(s.queue)
        /\ \A i \in DOMAIN t.queue : i + n \in DOMAIN s.queue /\ t.queue[i] = s.queue[i + n]
    BY <2>1, MovedQueue
  <2>3. s.queue \in Seq(Frames) /\ Len(s.queue) \in Nat
    BY DEF Streams
  <2>4. t.phase = IF \E i \in 1 .. n : s.queue[i].type = "error" THEN "closed" ELSE "open"
    BY <2>1, Zenon DEF Moves
  <2>5. /\ n = 0 => t.delivered = s.delivered
        /\ n > 0 /\ s.queue[n].type # "error" => t.delivered = s.queue[n].cursor
    BY <2>1, MovedPlace
  <2>6. ASSUME IsOver(s.queue) PROVE t.phase # "open" \/ IsOver(t.queue)
    <3>1. PICK i \in DOMAIN s.queue : s.queue[i].type = "error"
      BY <2>6, Zenon DEF IsOver
    <3>2. CASE i \in 1 .. n
      BY <2>4, <3>1, <3>2, Zenon
    <3>3. CASE i \notin 1 .. n
      <4>1. i - n \in DOMAIN t.queue /\ (i - n) + n = i
        BY <2>2, <2>3, <3>3
      <4>2. t.queue[i - n].type = "error"
        BY <2>2, <3>1, <4>1
      <4> QED
        BY <4>1, <4>2, Zenon DEF IsOver
    <3> QED
      BY <3>2, <3>3
  <2>7. ASSUME ~IsOver(s.queue) PROVE t.phase = "open" /\ ~IsOver(t.queue) /\ LastIn(t) = LastIn(s)
    <3>1. \A i \in DOMAIN s.queue : s.queue[i].type # "error"
      BY <2>7, Zenon DEF IsOver
    <3>2. \A i \in 1 .. n : i \in DOMAIN s.queue
      BY <2>2, <2>3
    <3>3. t.phase = "open"
      BY <2>4, <3>1, <3>2, Zenon
    <3>4. ~IsOver(t.queue)
      BY <2>2, <3>1, Zenon DEF IsOver
    <3>5. CASE t.queue = << >> /\ n = 0
      <4>1. s.queue = << >>
        BY <2>2, <2>3, <3>5
      <4> QED
        BY <2>5, <3>3, <3>4, <3>5, <4>1 DEF LastIn
    <3>6. CASE t.queue = << >> /\ n > 0
      <4>1. n = Len(s.queue) /\ n \in DOMAIN s.queue /\ s.queue # << >>
        BY <2>2, <2>3, <3>6
      <4> QED
        BY <2>5, <3>1, <3>3, <3>4, <3>6, <4>1 DEF LastIn
    <3>7. CASE t.queue # << >>
      <4>1. Len(t.queue) \in DOMAIN t.queue /\ Len(t.queue) + n = Len(s.queue) /\ s.queue # << >>
        BY <2>2, <2>3, <3>7
      <4>2. t.queue[Len(t.queue)] = s.queue[Len(s.queue)]
        BY <2>2, <4>1
      <4> QED
        BY <3>3, <3>4, <3>7, <4>1, <4>2 DEF LastIn
    <3> QED
      BY <2>2, <3>5, <3>6, <3>7
  <2> QED
    BY <1>2, <2>6, <2>7 DEF t
<1> QED
  BY <1>1, <1>2

\* A snapshot does not stay in the queue: it is the first frame and finds room.
LEMMA PumpSnapshot ==
  ASSUME NEW s \in Streams, NEW k, NEW l, NEW b, NEW t, NEW n, NEW c, Moves(s, t, n, c),
         QueueOK(s, k, l, b), WireOK(s, k, l, b)
  PROVE  /\ Pending(t.queue) = << >>
         /\ Pending(s.queue) # << >> => n > 0 /\ Len(s.out) = 0 /\ s.queue[1].type = "snapshot"
<1>1. /\ t.queue \in Seq(Frames) /\ Len(t.queue) = Len(s.queue) - n /\ n \in Nat /\ n <= Len(s.queue)
      /\ \A i \in DOMAIN t.queue : i + n \in DOMAIN s.queue /\ t.queue[i] = s.queue[i + n]
  BY MovedQueue
<1>2. /\ s.queue \in Seq(Frames) /\ s.out \in Seq(Frames) /\ Len(s.queue) \in Nat /\ Len(s.out) \in Nat
      /\ WireRoom \in Nat /\ WireRoom > 0
  BY RoomAssumption DEF Streams
<1>3. ASSUME Pending(s.queue) # << >>
      PROVE  n > 0 /\ Len(s.out) = 0 /\ s.queue[1].type = "snapshot"
  <2>1. s.out = << >>
    BY <1>3, Zenon DEF WireOK
  <2>2. Len(s.out) = 0 /\ Len(s.out) < WireRoom
    BY <1>2, <2>1
  <2>3. Len(s.queue) > 0 /\ s.queue[1].type = "snapshot"
    BY <1>2, <1>3 DEF Pending
  <2>4. Len(s.queue) > 0 /\ Len(s.out) < WireRoom => n > 0
    BY Zenon DEF Moves
  <2> QED
    BY <2>2, <2>3, <2>4
<1>4. ASSUME Pending(t.queue) # << >> PROVE FALSE
  <2>1. 1 \in DOMAIN t.queue /\ t.queue[1].type = "snapshot"
    BY <1>1, <1>4 DEF Pending
  <2>2. 1 + n \in DOMAIN s.queue /\ s.queue[1 + n].type = "snapshot"
    BY <1>1, <2>1
  <2>3. 1 + n = 1
    BY <2>2, Zenon DEF QueueOK
  <2>4. n = 0 /\ s.queue[1].type = "snapshot" /\ 1 \in DOMAIN s.queue
    BY <1>1, <2>2, <2>3
  <2>5. Pending(s.queue) # << >>
    BY <1>2, <2>4 DEF Pending
  <2> QED
    BY <1>3, <2>4, <2>5
<1> QED
  BY <1>3, <1>4

LEMMA Beyond ==
  ASSUME NEW i \in Nat, NEW a \in Nat, NEW n \in Nat, i > 0,
         ~(i \in 1 .. a), ~(\E j \in 1 .. n : i = a + j)
  PROVE  i > a + n
<1>1. i <= a + n => i - a \in 1 .. n /\ i = a + (i - a)
  OBVIOUS
<1> QED
  BY <1>1

\* Where the wire ends after pump(), and what comes after each of its frames.
LEMMA MovedFrames ==
  ASSUME NEW s \in Streams, NEW k, NEW l, NEW b, NEW t, NEW n, NEW c \in Cursor, Moves(s, t, n, c),
         QueueOK(s, k, l, b), WireOK(s, k, l, b), s.phase = "open",
         ~IsOver(s.queue) => c.epoch = LastIn(s).epoch /\ c.position >= LastIn(s).position,
         NEW i \in DOMAIN t.out
  PROVE  /\ Sound(t.out[i], k, l, b)
         /\ t.out[i].type = "snapshot" => i = 1
         /\ t.out[i].type = "error" => i = Len(t.out) /\ t.phase = "closed"
         /\ i > 1 /\ t.out[i].type # "error" => Enters(t.out[i]) = Leaves(t.out[i - 1])
         /\ i = Len(t.out) /\ t.phase = "open" => Leaves(t.out[i]) = t.delivered
<1>1. /\ s.queue \in Seq(Frames) /\ s.out \in Seq(Frames) /\ Len(s.queue) \in Nat /\ Len(s.out) \in Nat
      /\ DOMAIN s.queue = 1 .. Len(s.queue) /\ DOMAIN s.out = 1 .. Len(s.out)
  BY DEF Streams
<1>2. n \in Nat /\ n <= Len(s.queue)
  BY MovedQueue
<1>3. /\ t.out \in Seq(Frames) /\ Len(s.out) <= WireRoom
      /\ \A j \in 1 .. Len(s.out) : t.out[j] = s.out[j]
      /\ \A j \in 1 .. n : t.out[Len(s.out) + j] = s.queue[j]
      /\ \/ Len(t.out) = Len(s.out) + n
         \/ /\ n = Len(s.queue) /\ s.beat /\ t.phase = "open" /\ Len(t.out) = Len(s.out) + n + 1
            /\ t.out[Len(s.out) + n + 1] = Heartbeat(c, t.delivered)
  <2>1. Len(s.out) <= WireRoom
    BY Zenon DEF WireOK
  <2> QED
    BY <2>1, MovedOut
<1>4. \A j \in DOMAIN s.queue :
        /\ s.queue[j].type # "heartbeat" /\ Sound(s.queue[j], k, l, b)
        /\ s.queue[j].type = "snapshot" => j = 1 /\ s.queue[j].cursor = s.delivered
        /\ s.queue[j].type = "error" => j = Len(s.queue) /\ ~s.beat
        /\ s.queue[j].type = "change" =>
              s.queue[j].previous = IF j = 1 THEN s.delivered ELSE s.queue[j - 1].cursor
  BY Zenon DEF QueueOK
<1>5. /\ \A j \in DOMAIN s.out :
            /\ Sound(s.out[j], k, l, b)
            /\ s.out[j].type = "snapshot" => j = 1
            /\ s.out[j].type = "error" => j = Len(s.out) /\ s.phase = "closed"
            /\ j > 1 /\ s.out[j].type # "error" => Enters(s.out[j]) = Leaves(s.out[j - 1])
      /\ s.phase = "open" /\ s.out # << >> => Leaves(s.out[Len(s.out)]) = s.delivered
  BY Zenon DEF WireOK
<1>6. t.phase = IF \E j \in 1 .. n : s.queue[j].type = "error" THEN "closed" ELSE "open"
  BY Zenon DEF Moves
<1>7. /\ n = 0 => t.delivered = s.delivered
      /\ n > 0 /\ s.queue[n].type # "error" => t.delivered = s.queue[n].cursor
  BY MovedPlace
<1>8. Pending(s.queue) # << >> => Len(s.out) = 0
  BY PumpSnapshot
<1>9. \A j \in 1 .. n : j \in DOMAIN s.queue
  BY <1>1, <1>2
<1>10. n > 0 => n \in 1 .. n
  BY <1>2
<1>11. t.phase = "open" => \A j \in 1 .. n : s.queue[j].type # "error"
  BY <1>6, Zenon
<1>12. Len(s.out) > 0 => Leaves(s.out[Len(s.out)]) = s.delivered
  BY <1>1, <1>5
<1>13. \A j \in 1 .. n : s.queue[j].type # "error" => Leaves(s.queue[j]) = s.queue[j].cursor
  BY <1>4, <1>9, Zenon DEF Leaves
\* The end of the wire, before a heartbeat.
<1>14. ASSUME t.phase = "open"
       PROVE  /\ n > 0 => Leaves(s.queue[n]) = t.delivered
              /\ n = 0 /\ Len(s.out) > 0 => Leaves(s.out[Len(s.out)]) = t.delivered
  BY <1>7, <1>10, <1>11, <1>12, <1>13, <1>14
<1>20. CASE i \in 1 .. Len(s.out)
  <2>1. i \in DOMAIN s.out /\ t.out[i] = s.out[i]
    BY <1>1, <1>3, <1>20
  <2>2. i > 1 => i - 1 \in 1 .. Len(s.out) /\ t.out[i - 1] = s.out[i - 1]
    BY <1>1, <1>3, <1>20
  <2>3. i = Len(t.out) => n = 0 /\ i = Len(s.out) /\ Len(s.out) > 0
    BY <1>1, <1>2, <1>3, <1>20
  <2>4. i = Len(t.out) /\ t.phase = "open" => Leaves(t.out[i]) = t.delivered
    BY <1>14, <2>1, <2>3
  <2>5. t.out[i].type # "error"
    BY <1>5, <2>1
  <2> QED
    BY <1>5, <2>1, <2>2, <2>4, <2>5, Zenon
<1>21. CASE \E j \in 1 .. n : i = Len(s.out) + j
  <2>1. PICK j \in 1 .. n : i = Len(s.out) + j
    BY <1>21
  <2>2. j \in DOMAIN s.queue /\ t.out[i] = s.queue[j] /\ j \in Nat
    BY <1>3, <1>9, <2>1
  <2>3. t.out[i].type = "snapshot" => i = 1
    <3>1. ASSUME s.queue[j].type = "snapshot" PROVE i = 1
      <4>1. j = 1
        BY <1>4, <2>2, <3>1, Zenon
      <4>2. Pending(s.queue) # << >>
        BY <1>1, <2>2, <3>1, <4>1 DEF Pending
      <4> QED
        BY <1>8, <2>1, <4>1, <4>2
    <3> QED
      BY <2>2, <3>1
  <2>4. t.out[i].type = "error" => i = Len(t.out) /\ t.phase = "closed"
    <3>1. ASSUME s.queue[j].type = "error" PROVE i = Len(t.out) /\ t.phase = "closed"
      <4>1. t.phase = "closed" /\ j = Len(s.queue)
        BY <1>4, <1>6, <2>1, <2>2, <3>1, Zenon
      <4>2. j = n
        BY <1>1, <1>2, <2>1, <4>1
      <4>3. Len(t.out) = Len(s.out) + n
        BY <1>3, <4>1
      <4> QED
        BY <2>1, <4>1, <4>2, <4>3
    <3> QED
      BY <2>2, <3>1
  <2>5. ASSUME i > 1, t.out[i].type # "error" PROVE Enters(t.out[i]) = Leaves(t.out[i - 1])
    <3>1. s.queue[j].type = "change"
      <4>1. s.queue[j].type \in {"snapshot", "change", "heartbeat", "error"}
        BY <1>1, <2>2, FrameFields
      <4> QED
        BY <1>4, <2>2, <2>3, <2>5, <4>1
    <3>2. Enters(t.out[i]) = s.queue[j].previous
      BY <2>2, <3>1 DEF Enters
    <3>3. s.queue[j].previous = IF j = 1 THEN s.delivered ELSE s.queue[j - 1].cursor
      BY <1>4, <2>2, <3>1, Zenon
    <3>4. CASE j = 1
      <4>1. i - 1 = Len(s.out) /\ Len(s.out) > 0 /\ Len(s.out) \in 1 .. Len(s.out)
        BY <1>1, <2>1, <2>5, <3>4
      <4>2. t.out[i - 1] = s.out[Len(s.out)]
        BY <1>3, <4>1
      <4> QED
        BY <1>12, <3>2, <3>3, <3>4, <4>1, <4>2
    <3>5. CASE j # 1
      <4>1. j - 1 \in 1 .. n /\ i - 1 = Len(s.out) + (j - 1) /\ j - 1 # Len(s.queue)
        BY <1>1, <1>2, <2>1, <3>5
      <4>2. t.out[i - 1] = s.queue[j - 1]
        BY <1>3, <4>1
      <4>3. s.queue[j - 1].type # "error"
        BY <1>4, <1>9, <4>1, Zenon
      <4> QED
        BY <1>13, <3>2, <3>3, <3>5, <4>1, <4>2, <4>3, Zenon
    <3> QED
      BY <3>4, <3>5
  <2>6. ASSUME i = Len(t.out), t.phase = "open" PROVE Leaves(t.out[i]) = t.delivered
    <3>1. j = n /\ n > 0
      BY <1>1, <1>2, <1>3, <2>1, <2>6
    <3> QED
      BY <1>14, <2>2, <2>6, <3>1
  <2> QED
    BY <1>4, <2>2, <2>3, <2>4, <2>5, <2>6, Zenon
<1>22. CASE ~(i \in 1 .. Len(s.out)) /\ ~(\E j \in 1 .. n : i = Len(s.out) + j)
  <2>1. i \in 1 .. Len(t.out) /\ Len(t.out) \in Nat
    BY <1>3
  <2>2. i > Len(s.out) + n
    <3>1. i \in Nat /\ i > 0
      BY <2>1
    <3> QED
      BY <1>1, <1>2, <1>22, <3>1, Beyond
  <2>3. /\ n = Len(s.queue) /\ s.beat /\ t.phase = "open" /\ Len(t.out) = Len(s.out) + n + 1
        /\ t.out[Len(s.out) + n + 1] = Heartbeat(c, t.delivered) /\ i = Len(s.out) + n + 1
    BY <1>1, <1>2, <1>3, <2>1, <2>2
  <2>10. t.out[i] = Heartbeat(c, t.delivered)
    BY <2>3
  <2>4. t.delivered \in Cursor
    BY MovedDelivered
  <2>5. /\ t.out[i].type = "heartbeat" /\ t.out[i].cursor = c /\ t.out[i].delivered = t.delivered
    <3>1. /\ Heartbeat(c, t.delivered).type = "heartbeat" /\ Heartbeat(c, t.delivered).cursor = c
          /\ Heartbeat(c, t.delivered).delivered = t.delivered
      BY <2>4, HeartbeatFrame
    <3> QED
      BY <2>10, <3>1, Zenon
  <2>6. t.delivered = LastIn(s) /\ ~IsOver(s.queue)
    <3>1. ~IsOver(s.queue)
      BY <1>1, <1>11, <2>3, Zenon DEF IsOver
    <3>2. CASE n = 0
      <4>2. s.queue \in Seq(Frames) /\ Len(s.queue) = 0
        BY <1>1, <2>3, <3>2, Zenon
      <4>1. s.queue = << >>
        BY <4>2
      <4> QED
        BY <1>7, <3>1, <3>2, <4>1 DEF LastIn
    <3>3. CASE n > 0
      <4>1. s.queue[n].type # "error" /\ s.queue # << >>
        BY <1>1, <1>10, <1>11, <2>3, <3>3
      <4> QED
        BY <1>7, <2>3, <3>1, <3>3, <4>1 DEF LastIn
    <3> QED
      BY <1>2, <3>2, <3>3
  <2>7. Sound(t.out[i], k, l, b)
    BY <2>5, <2>6 DEF Sound
  <2>8. Leaves(t.out[i]) = t.delivered /\ Enters(t.out[i]) = t.delivered
    BY <2>5 DEF Leaves, Enters
  <2>9. ASSUME i > 1 PROVE Leaves(t.out[i - 1]) = t.delivered
    <3>1. CASE n > 0
      <4>1. i - 1 = Len(s.out) + n
        BY <1>1, <1>2, <2>3
      <4> QED
        BY <1>3, <1>10, <1>14, <2>3, <3>1, <4>1
    <3>2. CASE n = 0
      <4>1. i - 1 = Len(s.out) /\ Len(s.out) > 0 /\ i - 1 \in 1 .. Len(s.out)
        BY <1>1, <2>1, <2>3, <2>9, <3>2
      <4> QED
        BY <1>3, <1>14, <2>3, <3>2, <4>1
    <3> QED
      BY <1>2, <3>1, <3>2
  <2> QED
    BY <2>5, <2>7, <2>8, <2>9
<1> QED
  BY <1>20, <1>21, <1>22, Zenon

LEMMA PumpWire ==
  ASSUME NEW s \in Streams, NEW k, NEW l, NEW b, NEW c \in Cursor,
         QueueOK(s, k, l, b), WireOK(s, k, l, b),
         s.phase = "open" /\ ~IsOver(s.queue) =>
            c.epoch = LastIn(s).epoch /\ c.position >= LastIn(s).position
  PROVE  WireOK(Pump(s, c), k, l, b)
<1>1. CASE s.phase # "open"
  BY <1>1 DEF Pump
<1>2. CASE s.phase = "open"
  <2>1. Len(s.out) <= WireRoom
    BY Zenon DEF WireOK
  <2>0. PICK n : Moves(s, Pump(s, c), n, c)
    BY <1>2, <2>1, PumpMoves
  <2> DEFINE t == Pump(s, c)
  <2>2. Moves(s, t, n, c)
    BY <2>0
  <2> HIDE DEF t
  <2>3. t.out \in Seq(Frames) /\ Len(t.out) <= WireRoom
    BY <2>1, <2>2, MovedOut
  <2>4. Pending(t.queue) = << >>
    BY <2>2, PumpSnapshot
  <2>5. t.phase # "none"
    <3>1. t.phase = IF \E j \in 1 .. n : s.queue[j].type = "error" THEN "closed" ELSE "open"
      BY <2>2, Zenon DEF Moves
    <3> QED
      BY <3>1
  <2>6. \A i \in DOMAIN t.out :
         /\ Sound(t.out[i], k, l, b)
         /\ t.out[i].type = "snapshot" => i = 1
         /\ t.out[i].type = "error" => i = Len(t.out) /\ t.phase = "closed"
         /\ i > 1 /\ t.out[i].type # "error" => Enters(t.out[i]) = Leaves(t.out[i - 1])
         /\ i = Len(t.out) /\ t.phase = "open" => Leaves(t.out[i]) = t.delivered
    BY <1>2, <2>2, MovedFrames
  <2>7. t.out # << >> => Len(t.out) \in DOMAIN t.out
    BY <2>3
  <2>8. WireOK(t, k, l, b)
    BY <2>3, <2>4, <2>5, <2>6, <2>7, Zenon DEF WireOK
  <2> QED
    BY <2>8 DEF t
<1> QED
  BY <1>1, <1>2

LEMMA PumpMeets ==
  ASSUME NEW s \in Streams, NEW k, NEW l, NEW b, NEW c \in Cursor, NEW client,
         QueueOK(s, k, l, b), WireOK(s, k, l, b), Meets(s, client)
  PROVE  Meets(Pump(s, c), client)
<1>1. CASE s.phase # "open"
  BY <1>1 DEF Pump
<1>2. CASE s.phase = "open"
  <2>1. Len(s.out) <= WireRoom
    BY Zenon DEF WireOK
  <2>0. PICK n : Moves(s, Pump(s, c), n, c)
    BY <1>2, <2>1, PumpMoves
  <2> DEFINE t == Pump(s, c)
  <2>2. Moves(s, t, n, c)
    BY <2>0
  <2> HIDE DEF t
  <2>3. /\ s.queue \in Seq(Frames) /\ s.out \in Seq(Frames) /\ Len(s.queue) \in Nat /\ Len(s.out) \in Nat
        /\ n \in Nat /\ n <= Len(s.queue)
    BY <2>2, MovedQueue DEF Streams
  <2>4. /\ t.out \in Seq(Frames)
        /\ \A j \in 1 .. Len(s.out) : t.out[j] = s.out[j]
        /\ \A j \in 1 .. n : t.out[Len(s.out) + j] = s.queue[j]
        /\ \/ Len(t.out) = Len(s.out) + n
           \/ /\ n = Len(s.queue) /\ Len(t.out) = Len(s.out) + n + 1
              /\ t.out[Len(s.out) + n + 1] = Heartbeat(c, t.delivered)
    BY <2>1, <2>2, MovedOut
  <2>5. /\ Pending(t.queue) = << >>
        /\ Pending(s.queue) # << >> => n > 0 /\ Len(s.out) = 0 /\ s.queue[1].type = "snapshot"
    BY <2>2, PumpSnapshot
  <2>6. t.phase # "none"
    <3>1. t.phase = IF \E j \in 1 .. n : s.queue[j].type = "error" THEN "closed" ELSE "open"
      BY <2>2, Zenon DEF Moves
    <3> QED
      BY <3>1
  <2>7. s.out # << >> => Len(s.out) > 0 /\ t.out # << >> /\ t.out[1] = s.out[1]
    BY <2>3, <2>4
  <2>8. s.out = << >> /\ n > 0 => t.out # << >> /\ t.out[1] = s.queue[1]
    BY <2>3, <2>4
  <2>9. s.out = << >> /\ n = 0 /\ t.out # << >> => t.out[1] = Heartbeat(c, t.delivered)
    BY <2>3, <2>4
  <2>10. n = 0 => t.delivered = s.delivered
    BY <2>2, MovedPlace
  <2>11. t.delivered \in Cursor
    BY <2>2, MovedDelivered
  <2>12. client.state # "idle"
    BY <1>2 DEF Meets
  <2>13. ASSUME client.state = "live"
         PROVE  /\ t.out # << >> => /\ t.out[1].type # "snapshot"
                                    /\ t.out[1].type = "error" \/ Enters(t.out[1]) = client.cursor
                /\ t.out = << >> => t.delivered = client.cursor
    <3>1. /\ Pending(s.queue) = << >>
          /\ s.out # << >> => /\ s.out[1].type # "snapshot"
                              /\ s.out[1].type = "error" \/ Enters(s.out[1]) = client.cursor
          /\ s.out = << >> => s.delivered = client.cursor
      BY <1>2, <2>13, Zenon DEF Meets
    <3>2. CASE s.out # << >>
      BY <2>7, <3>1, <3>2
    <3>3. CASE s.out = << >> /\ n > 0
      <4>1. 1 \in DOMAIN s.queue /\ s.queue[1] \in Frames
        BY <2>3, <3>3
      <4>2. /\ s.queue[1].type # "heartbeat"
            /\ s.queue[1].type = "change" => s.queue[1].previous = s.delivered
        BY <4>1 DEF QueueOK
      <4>3. s.queue[1].type # "snapshot"
        BY <2>3, <3>1, <3>3 DEF Pending
      <4>4. s.queue[1].type \in {"change", "error"}
        BY <4>1, <4>2, <4>3, FrameFields
      <4> QED
        BY <2>8, <3>1, <3>3, <4>2, <4>4 DEF Enters
    <3>4. CASE s.out = << >> /\ n = 0
      <4>1. Heartbeat(c, t.delivered).type = "heartbeat" /\ Heartbeat(c, t.delivered).delivered = t.delivered
        BY <2>11, HeartbeatFrame
      <4> QED
        BY <2>9, <2>10, <3>1, <3>4, <4>1 DEF Enters
    <3> QED
      BY <2>3, <3>2, <3>3, <3>4
  <2>14. ASSUME client.state = "opening"
         PROVE  t.out # << >> /\ t.out[1].type = "snapshot"
    <3>1. /\ s.out # << >> => s.out[1].type = "snapshot"
          /\ s.out = << >> => Pending(s.queue) # << >>
      BY <1>2, <2>14, Zenon DEF Meets
    <3> QED
      BY <2>5, <2>7, <2>8, <3>1
  <2>15. Meets(t, client)
    BY <2>5, <2>6, <2>12, <2>13, <2>14, Zenon DEF Meets
  <2> QED
    BY <2>15 DEF t
<1> QED
  BY <1>1, <1>2

-----------------------------------------------------------------------------
(* What the operations do to a stream that a client meets.                 *)

LEMMA PumpedStream ==
  ASSUME NEW s \in Streams, NEW client, NEW k, NEW l, NEW b, NEW c \in Cursor, StreamOK(s, client, k, l, b),
         Live(s) => c.epoch = LastIn(s).epoch /\ c.position >= LastIn(s).position
  PROVE  /\ Pump(s, c) \in Streams /\ StreamOK(Pump(s, c), client, k, l, b)
         /\ Live(Pump(s, c)) <=> Live(s)
         /\ Live(s) => LastIn(Pump(s, c)) = LastIn(s)
<1>1. QueueOK(s, k, l, b) /\ WireOK(s, k, l, b) /\ Meets(s, client)
  BY Zenon DEF StreamOK
<1>2. Len(s.out) <= WireRoom
  BY <1>1, Zenon DEF WireOK
<1>3. Pump(s, c) \in Streams
  BY <1>2, PumpTyped
<1>4. QueueOK(Pump(s, c), k, l, b)
  BY <1>1, <1>2, PumpQueue
<1>5. WireOK(Pump(s, c), k, l, b)
  BY <1>1, PumpWire DEF Live
<1>6. Meets(Pump(s, c), client)
  BY <1>1, PumpMeets
<1>7. /\ Pump(s, c).phase = "open" /\ ~IsOver(Pump(s, c).queue) <=> s.phase = "open" /\ ~IsOver(s.queue)
      /\ s.phase = "open" /\ ~IsOver(s.queue) => LastIn(Pump(s, c)) = LastIn(s)
  BY <1>1, <1>2, PumpFed
<1> QED
  BY <1>3, <1>4, <1>5, <1>6, <1>7, Zenon DEF StreamOK, Live

\* A stream whose queue is replaced by one with the same snapshot pending.
LEMMA RequeuedStream ==
  ASSUME NEW s \in Streams, NEW t, NEW client, NEW k, NEW l, NEW b, StreamOK(s, client, k, l, b),
         QueueOK(t, k, l, b), t.phase = s.phase, t.out = s.out, t.delivered = s.delivered,
         Pending(t.queue) = Pending(s.queue)
  PROVE  StreamOK(t, client, k, l, b)
<1>1. WireOK(s, k, l, b) /\ Meets(s, client)
  BY Zenon DEF StreamOK
<1>2. WireOK(t, k, l, b)
  BY <1>1, Zenon DEF WireOK
<1>3. Meets(t, client)
  BY <1>1, Zenon DEF Meets
<1> QED
  BY <1>2, <1>3, Zenon DEF StreamOK

LEMMA ErrorFrame == Error \in Frames /\ Error.type = "error"
  BY DEF Error, Frames

LEMMA FailedStream ==
  ASSUME NEW s \in Streams, NEW client, NEW k, NEW l, NEW b, StreamOK(s, client, k, l, b)
  PROVE  /\ Failed(s) \in Streams /\ StreamOK(Failed(s), client, k, l, b)
         /\ ~Live(Failed(s)) /\ Failed(s).phase = s.phase
<1>1. CASE ~Live(s)
  BY <1>1 DEF Live, Failed
<1>2. CASE Live(s)
  <2> DEFINE p == Pending(s.queue)
             q == Append(p, Error)
             t == [s EXCEPT !.queue = q, !.beat = FALSE]
  <2>1. Failed(s) = t /\ s.phase = "open"
    BY <1>2 DEF Failed, Live
  <2>2. /\ s.queue \in Seq(Frames) /\ Len(s.queue) \in Nat
        /\ Capacity \in Nat /\ Capacity >= 1
    BY RoomAssumption DEF Streams
  <2>3. /\ p \in Seq(Frames) /\ Len(p) \in {0, 1}
        /\ Len(p) = 1 => 1 \in DOMAIN s.queue /\ p[1] = s.queue[1] /\ p[1].type = "snapshot"
    BY <2>2 DEF Pending
  <2> HIDE DEF p
  <2>4. /\ q \in Seq(Frames) /\ Len(q) = Len(p) + 1 /\ q[Len(q)] = Error
        /\ DOMAIN q = 1 .. Len(q)
        /\ Len(p) = 1 => q[1] = p[1]
    BY <2>3, ErrorFrame
  <2> HIDE DEF q
  <2>5. t \in Streams /\ t.queue = q /\ t.beat = FALSE /\ t.phase = s.phase /\ t.out = s.out /\ t.delivered = s.delivered
    BY <2>4 DEF Streams
  <2> HIDE DEF t
  <2>6. Pending(q) = p
    <3>1. CASE Len(p) = 1
      <4>1. q # << >> /\ Head(q) = p[1]
        BY <2>3, <2>4, <3>1
      <4>2. Pending(q) = <<p[1]>>
        BY <2>3, <3>1, <4>1 DEF Pending
      <4> QED
        BY <2>3, <3>1, <4>2
    <3>2. CASE Len(p) = 0
      <4>1. q # << >> /\ Head(q) = Error
        BY <2>3, <2>4, <3>2
      <4>2. Pending(q) = << >>
        BY <4>1, ErrorFrame DEF Pending
      <4> QED
        BY <2>3, <3>2, <4>2
    <3> QED
      BY <2>3, <3>1, <3>2
  <2>7. QueueOK(t, k, l, b)
    <3>1. QueueOK(s, k, l, b)
      BY Zenon DEF StreamOK
    <3>2. Inside(t.delivered, l, b)
      BY <2>1, <2>5, <3>1, Zenon DEF QueueOK
    <3>3. Waiting(t.queue) <= Capacity
      <4>1. Waiting(q) = 1
        BY <2>3, <2>4, <2>6 DEF Waiting
      <4> QED
        BY <2>2, <2>5, <4>1
    <3>4. ASSUME NEW i \in DOMAIN q
          PROVE  /\ q[i].type # "heartbeat" /\ Sound(q[i], k, l, b)
                 /\ q[i].type = "snapshot" => i = 1 /\ q[i].cursor = t.delivered
                 /\ q[i].type = "error" => i = Len(q)
                 /\ q[i].type # "change"
      <4>1. CASE i = Len(q)
        BY <2>4, <4>1, ErrorFrame DEF Sound
      <4>2. CASE i # Len(q)
        <5>4. i \in 1 .. (Len(p) + 1) /\ i # Len(p) + 1
          BY <2>4, <4>2, Zenon
        <5>5. ASSUME NEW m \in {0, 1}, NEW j \in 1 .. (m + 1), j # m + 1
              PROVE  j = 1 /\ m = 1
          BY <5>5
        <5>1. i = 1 /\ Len(p) = 1
          BY <2>3, <5>4, <5>5, Zenon
        <5>2. q[i] = s.queue[1] /\ 1 \in DOMAIN s.queue /\ q[i].type = "snapshot"
          BY <2>3, <2>4, <5>1
        <5>3. Sound(s.queue[1], k, l, b) /\ s.queue[1].cursor = s.delivered
          BY <3>1, <5>2, Zenon DEF QueueOK
        <5> QED
          BY <2>5, <5>1, <5>2, <5>3
      <4> QED
        BY <4>1, <4>2
    <3> QED
      BY <2>1, <2>5, <3>2, <3>3, <3>4, Zenon DEF QueueOK
  <2>8. StreamOK(t, client, k, l, b)
    <3>1. Pending(t.queue) = Pending(s.queue)
      BY <2>5, <2>6, Zenon DEF p
    <3> QED
      BY <2>5, <2>7, <3>1, RequeuedStream
  <2>9. IsOver(t.queue)
    <3>1. Len(q) \in DOMAIN q /\ q[Len(q)].type = "error"
      BY <2>3, <2>4, ErrorFrame
    <3> QED
      BY <2>5, <3>1, Zenon DEF IsOver
  <2> QED
    BY <2>1, <2>5, <2>8, <2>9, Zenon DEF Live
<1> QED
  BY <1>1, <1>2

LEMMA EnqueuedStream ==
  ASSUME NEW s \in Streams, NEW client, NEW k, NEW l, NEW b, StreamOK(s, client, k, l, b), Live(s),
         NEW f \in Frames, f.type = "change", Sound(f, k, l, b), f.previous = LastIn(s)
  PROVE  /\ Enqueued(s, f) \in Streams /\ StreamOK(Enqueued(s, f), client, k, l, b)
         /\ Live(Enqueued(s, f)) <=> ~Overflows(s)
         /\ Live(Enqueued(s, f)) => LastIn(Enqueued(s, f)) = f.cursor
<1>1. CASE Overflows(s)
  <2>1. Enqueued(s, f) = Failed(s)
    BY <1>1, Zenon DEF Enqueued
  <2> QED
    BY <1>1, <2>1, FailedStream
<1>2. CASE ~Overflows(s)
  <2> DEFINE q == Append(s.queue, f)
             t == [s EXCEPT !.queue = q]
  <2>1. Enqueued(s, f) = t
    BY <1>2 DEF Enqueued
  <2>2. /\ s.queue \in Seq(Frames) /\ Len(s.queue) \in Nat /\ DOMAIN s.queue = 1 .. Len(s.queue)
        /\ Capacity \in Nat /\ s.phase = "open"
    BY RoomAssumption DEF Streams, Live
  <2>3. /\ q \in Seq(Frames) /\ Len(q) = Len(s.queue) + 1 /\ DOMAIN q = 1 .. Len(q) /\ q # << >>
        /\ q[Len(s.queue) + 1] = f /\ \A i \in 1 .. Len(s.queue) : q[i] = s.queue[i]
    BY <2>2
  <2>4. Pending(q) = Pending(s.queue)
    <3>1. CASE s.queue = << >>
      <4>1. Head(q) = f /\ q # << >>
        BY <2>2, <2>3, <3>1
      <4> QED
        BY <3>1, <4>1 DEF Pending
    <3>2. CASE s.queue # << >>
      <4>1. Head(q) = Head(s.queue) /\ q # << >>
        BY <2>2, <2>3, <3>2
      <4> QED
        BY <3>2, <4>1, Zenon DEF Pending
    <3> QED
      BY <3>1, <3>2
  <2> HIDE DEF q
  <2>5. t \in Streams /\ t.queue = q /\ t.beat = s.beat /\ t.phase = s.phase /\ t.out = s.out /\ t.delivered = s.delivered
    BY <2>3 DEF Streams
  <2> HIDE DEF t
  <2>6. QueueOK(s, k, l, b)
    BY Zenon DEF StreamOK
  <2>7. Waiting(t.queue) <= Capacity
    <3>1. Len(Pending(s.queue)) \in {0, 1}
      BY <2>2, PendingLength
    <3>2. ~(Len(s.queue) - Len(Pending(s.queue)) >= Capacity)
      BY <1>2, Zenon DEF Overflows, Waiting
    <3>3. ASSUME NEW x \in Nat, NEW y \in Nat, NEW p \in {0, 1}, NEW m \in Nat, ~(x - p >= m), y = x + 1
          PROVE  y - p <= m
      BY <3>3
    <3>4. Len(q) \in Nat
      BY <2>3
    <3>5. Len(q) - Len(Pending(s.queue)) <= Capacity
      BY <2>2, <2>3, <3>1, <3>2, <3>3, <3>4, Zenon
    <3> QED
      BY <2>4, <2>5, <3>5, Zenon DEF Waiting
  <2>8. \A i \in DOMAIN s.queue : s.queue[i].type # "error"
    BY Zenon DEF Live, IsOver
  <2>9. ASSUME NEW i \in DOMAIN q
        PROVE  /\ q[i].type # "heartbeat" /\ Sound(q[i], k, l, b) /\ q[i].type # "error"
               /\ q[i].type = "snapshot" => i = 1 /\ q[i].cursor = t.delivered
               /\ q[i].type = "change" => q[i].previous = IF i = 1 THEN t.delivered ELSE q[i - 1].cursor
    <3>1. CASE i = Len(s.queue) + 1
      <4>1. q[i] = f
        BY <2>3, <3>1
      <4>2. f.previous = IF i = 1 THEN t.delivered ELSE q[i - 1].cursor
        <5>1. CASE s.queue = << >>
          BY <2>5, <3>1, <5>1 DEF LastIn
        <5>2. CASE s.queue # << >>
          <6>1. i # 1 /\ i - 1 = Len(s.queue) /\ i - 1 \in 1 .. Len(s.queue)
            BY <2>2, <3>1, <5>2
          <6>2. q[i - 1] = s.queue[Len(s.queue)]
            BY <2>3, <6>1
          <6> QED
            BY <5>2, <6>1, <6>2 DEF LastIn
        <5> QED
          BY <5>1, <5>2
      <4> QED
        BY <4>1, <4>2
    <3>2. CASE i # Len(s.queue) + 1
      <4>1. i \in DOMAIN s.queue /\ i \in 1 .. Len(s.queue)
        BY <2>2, <2>3, <3>2
      <4>2. q[i] = s.queue[i]
        BY <2>3, <4>1
      <4>3. i # 1 => i - 1 \in 1 .. Len(s.queue)
        BY <2>2, <4>1
      <4>4. i # 1 => q[i - 1] = s.queue[i - 1]
        BY <2>3, <4>3
      <4>5. /\ s.queue[i].type # "heartbeat" /\ Sound(s.queue[i], k, l, b)
            /\ s.queue[i].type = "snapshot" => i = 1 /\ s.queue[i].cursor = s.delivered
            /\ s.queue[i].type = "change" =>
                  s.queue[i].previous = IF i = 1 THEN s.delivered ELSE s.queue[i - 1].cursor
        BY <2>6, <4>1, Zenon DEF QueueOK
      <4> QED
        BY <2>5, <2>8, <4>1, <4>2, <4>4, <4>5
    <3> QED
      BY <3>1, <3>2
  <2>10. QueueOK(t, k, l, b)
    BY <2>2, <2>5, <2>6, <2>7, <2>9, Zenon DEF QueueOK
  <2>11. StreamOK(t, client, k, l, b)
    BY <2>4, <2>5, <2>10, RequeuedStream
  <2>12. Live(t)
    BY <2>2, <2>5, <2>9, Zenon DEF Live, IsOver
  <2>13. LastIn(t) = f.cursor
    BY <2>3, <2>5 DEF LastIn
  <2> QED
    BY <1>2, <2>1, <2>5, <2>11, <2>12, <2>13
<1> QED
  BY <1>1, <1>2

LEMMA DestroyedStream ==
  ASSUME NEW s \in Streams, NEW client, NEW k, NEW l, NEW b, StreamOK(s, client, k, l, b),
         s.phase = "open", NEW n \in 0 .. Len(s.out)
  PROVE  /\ Destroyed(s, n) \in Streams /\ StreamOK(Destroyed(s, n), client, k, l, b)
         /\ ~Live(Destroyed(s, n))
<1> DEFINE o == SubSeq(s.out, 1, n)
           t == [s EXCEPT !.phase = "closed", !.queue = << >>, !.beat = FALSE, !.out = o, !.eof = TRUE]
<1>1. Destroyed(s, n) = t
  BY DEF Destroyed
<1>2. /\ s.out \in Seq(Frames) /\ Len(s.out) \in Nat /\ WireRoom \in Nat /\ Capacity \in Nat
      /\ n \in Nat /\ n <= Len(s.out)
  BY RoomAssumption DEF Streams
<1>3. /\ o \in Seq(Frames) /\ Len(o) = n /\ \A i \in 1 .. n : o[i] = s.out[i]
      /\ DOMAIN o = 1 .. n
  BY <1>2
<1> HIDE DEF o
<1>13. << >> \in Seq(Frames) /\ "closed" \in {"none", "open", "closed"}
  OBVIOUS
<1>14. t \in Streams
  BY <1>3, <1>13 DEF Streams
<1>15. t.phase = "closed" /\ t.queue = << >> /\ t.beat = FALSE /\ t.out = o
  BY DEF Streams
<1> HIDE DEF t
<1>4. t \in Streams /\ t.phase = "closed" /\ t.queue = << >> /\ t.beat = FALSE /\ t.out = o
  BY <1>14, <1>15
<1>5. Waiting(t.queue) = 0 /\ Pending(t.queue) = << >>
  BY <1>4 DEF Waiting, Pending
<1>6. DOMAIN t.queue = {}
  BY <1>4
<1>7. QueueOK(t, k, l, b)
  <2>1. Waiting(t.queue) <= Capacity
    BY <1>2, <1>5
  <2> QED
    BY <1>4, <1>6, <2>1, Zenon DEF QueueOK
<1>8. /\ Len(s.out) <= WireRoom
      /\ \A i \in DOMAIN s.out :
          /\ Sound(s.out[i], k, l, b)
          /\ s.out[i].type = "snapshot" => i = 1
          /\ s.out[i].type = "error" => i = Len(s.out) /\ s.phase = "closed"
          /\ i > 1 /\ s.out[i].type # "error" => Enters(s.out[i]) = Leaves(s.out[i - 1])
  BY Zenon DEF StreamOK, WireOK
<1>9. \A i \in 1 .. n : i \in DOMAIN s.out /\ (i > 1 => i - 1 \in 1 .. n)
  BY <1>2
<1>10. WireOK(t, k, l, b)
  <2>1. Len(t.out) <= WireRoom
    BY <1>2, <1>3, <1>4, <1>8
  <2>2. ASSUME NEW i \in DOMAIN t.out
        PROVE  /\ Sound(t.out[i], k, l, b)
               /\ t.out[i].type = "snapshot" => i = 1
               /\ t.out[i].type # "error"
               /\ i > 1 => Enters(t.out[i]) = Leaves(t.out[i - 1])
    <3>1. i \in 1 .. n
      BY <1>3, <1>4
    <3>2. i \in DOMAIN s.out /\ t.out[i] = s.out[i]
      BY <1>3, <1>4, <1>9, <3>1
    <3>3. i > 1 => t.out[i - 1] = s.out[i - 1]
      BY <1>3, <1>4, <1>9, <3>1
    <3>4. t.out[i].type # "error"
      BY <1>8, <3>2
    <3> QED
      BY <1>8, <3>2, <3>3, <3>4, Zenon
  <2> QED
    BY <1>4, <1>5, <2>1, <2>2, Zenon DEF WireOK
<1>11. Meets(t, client)
  <2>1. Meets(s, client)
    BY Zenon DEF StreamOK
  <2>2. t.out # << >> => s.out # << >> /\ t.out[1] = s.out[1]
    BY <1>2, <1>3, <1>4
  <2>3. client.state # "idle"
    BY <2>1 DEF Meets
  <2> QED
    BY <1>4, <1>5, <2>1, <2>2, <2>3, Zenon DEF Meets
<1>12. ~Live(t)
  BY <1>4, Zenon DEF Live
<1> QED
  BY <1>1, <1>4, <1>7, <1>10, <1>11, <1>12, Zenon DEF StreamOK

\* The client has read the first frame: it stands where the frame ends, or it
\* has ended.
LEMMA ReadStream ==
  ASSUME NEW s \in Streams, NEW client, NEW next, NEW k, NEW l, NEW b, StreamOK(s, client, k, l, b),
         s.out # << >>, next.state \notin {"idle", "opening"},
         next.state = "live" => s.out[1].type # "error" /\ next.cursor = Leaves(s.out[1])
  PROVE  LET u == [s EXCEPT !.out = Tail(@)]
         IN /\ u \in Streams /\ StreamOK(u, next, k, l, b)
            /\ (Live(u) <=> Live(s)) /\ LastIn(u) = LastIn(s)
<1> DEFINE o == Tail(s.out)
           u == [s EXCEPT !.out = o]
<1>2. s.out \in Seq(Frames) /\ Len(s.out) \in Nat /\ Len(s.out) > 0 /\ WireRoom \in Nat
  BY RoomAssumption DEF Streams
<1>3. /\ o \in Seq(Frames) /\ Len(o) = Len(s.out) - 1 /\ Len(o) \in Nat /\ DOMAIN o = 1 .. Len(o)
      /\ \A i \in 1 .. Len(o) : o[i] = s.out[i + 1]
  BY <1>2
<1> HIDE DEF o
<1>4. /\ u \in Streams /\ u.out = o /\ u.queue = s.queue /\ u.phase = s.phase /\ u.beat = s.beat
      /\ u.delivered = s.delivered
  BY <1>3 DEF Streams
<1> HIDE DEF u
<1>5. QueueOK(s, k, l, b) /\ WireOK(s, k, l, b)
  BY Zenon DEF StreamOK
<1>6. QueueOK(u, k, l, b)
  BY <1>4, <1>5, Zenon DEF QueueOK
<1>7. /\ Len(s.out) <= WireRoom
      /\ \A i \in DOMAIN s.out :
          /\ Sound(s.out[i], k, l, b)
          /\ s.out[i].type = "snapshot" => i = 1
          /\ s.out[i].type = "error" => i = Len(s.out) /\ s.phase = "closed"
          /\ i > 1 /\ s.out[i].type # "error" => Enters(s.out[i]) = Leaves(s.out[i - 1])
      /\ s.phase = "open" => Leaves(s.out[Len(s.out)]) = s.delivered
      /\ Pending(s.queue) = << >> /\ s.phase # "none"
  BY <1>5, Zenon DEF WireOK
<1>8. \A i \in 1 .. Len(o) : i + 1 \in DOMAIN s.out /\ i + 1 > 1 /\ i + 1 # 1 /\ (i + 1) - 1 = i
  BY <1>2, <1>3
<1>9. WireOK(u, k, l, b)
  <2>1. Len(o) <= WireRoom
    BY <1>2, <1>3, <1>7
  <2>2. ASSUME NEW i \in DOMAIN o
        PROVE  /\ Sound(o[i], k, l, b)
               /\ o[i].type # "snapshot"
               /\ o[i].type = "error" => i = Len(o) /\ s.phase = "closed"
               /\ i > 1 /\ o[i].type # "error" => Enters(o[i]) = Leaves(o[i - 1])
    <3>1. i \in 1 .. Len(o) /\ o[i] = s.out[i + 1]
      BY <1>3
    <3>2. i + 1 \in DOMAIN s.out /\ i + 1 > 1 /\ i + 1 # 1 /\ (i + 1) - 1 = i
      BY <1>8, <3>1
    <3>3. i > 1 => i - 1 \in 1 .. Len(o) /\ (i - 1) + 1 = i
      BY <1>3, <3>1
    <3>4. i > 1 => o[i - 1] = s.out[i]
      BY <1>3, <3>3
    <3>5. i + 1 = Len(s.out) => i = Len(o)
      BY <1>2, <1>3, <3>1
    <3> QED
      BY <1>7, <3>1, <3>2, <3>4, <3>5
  <2>3. o # << >> => o[Len(o)] = s.out[Len(s.out)]
    BY <1>2, <1>3
  <2> QED
    BY <1>4, <1>7, <2>1, <2>2, <2>3, Zenon DEF WireOK
<1>10. Meets(u, next)
  <2>1. CASE next.state # "live"
    BY <2>1, Zenon DEF Meets
  <2>2. CASE next.state = "live"
    <3>1. next.cursor = Leaves(s.out[1]) /\ s.out[1].type # "error"
      BY <2>2
    <3>2. CASE o # << >>
      <4>1. 1 \in 1 .. Len(o) /\ 1 + 1 = 2
        BY <1>3, <3>2
      <4>2. o[1] = s.out[2] /\ 2 \in DOMAIN s.out
        BY <1>3, <1>8, <4>1
      <4>4. /\ s.out[2].type = "snapshot" => 2 = 1
            /\ s.out[2].type # "error" => Enters(s.out[2]) = Leaves(s.out[2 - 1])
        BY <1>7, <4>2
      <4>3. o[1].type # "snapshot" /\ (o[1].type = "error" \/ Enters(o[1]) = next.cursor)
        BY <3>1, <4>2, <4>4
      <4> QED
        BY <1>4, <1>7, <2>2, <3>2, <4>3 DEF Meets
    <3>3. CASE o = << >>
      <4>1. Len(s.out) = 1
        BY <1>2, <1>3, <3>3
      <4> QED
        BY <1>4, <1>7, <2>2, <3>1, <3>3, <4>1 DEF Meets
    <3> QED
      BY <3>2, <3>3
  <2> QED
    BY <2>1, <2>2
<1>11. (Live(u) <=> Live(s)) /\ LastIn(u) = LastIn(s)
  BY <1>4, Zenon DEF Live, LastIn
<1> QED
  BY <1>4, <1>6, <1>9, <1>10, <1>11, Zenon DEF StreamOK, u, o

LEMMA BeatenStream ==
  ASSUME NEW s \in Streams, NEW client, NEW k, NEW l, NEW b, StreamOK(s, client, k, l, b), Live(s)
  PROVE  LET u == [s EXCEPT !.beat = TRUE]
         IN u \in Streams /\ StreamOK(u, client, k, l, b) /\ Live(u) /\ LastIn(u) = LastIn(s)
<1> DEFINE u == [s EXCEPT !.beat = TRUE]
<1>1. /\ u \in Streams /\ u.out = s.out /\ u.queue = s.queue /\ u.phase = s.phase
      /\ u.delivered = s.delivered
  BY DEF Streams
<1> HIDE DEF u
<1>2. QueueOK(u, k, l, b)
  <2>1. QueueOK(s, k, l, b)
    BY Zenon DEF StreamOK
  <2>2. s.phase = "open" /\ \A i \in DOMAIN s.queue : s.queue[i].type # "error"
    BY Zenon DEF Live, IsOver
  <2> QED
    BY <1>1, <2>1, <2>2, Zenon DEF QueueOK
<1>3. StreamOK(u, client, k, l, b)
  BY <1>1, <1>2, RequeuedStream
<1>4. Live(u) /\ LastIn(u) = LastIn(s)
  BY <1>1, Zenon DEF Live, LastIn
<1> QED
  BY <1>1, <1>3, <1>4, Zenon DEF u

\* The stream that createHubEventWatchStream() opens with a snapshot.
OpensWith(s, f, u) == u = [s EXCEPT !.phase = "open", !.queue = <<f>>, !.delivered = f.cursor]

LEMMA OpenedStream ==
  ASSUME NEW s \in Streams, NEW client, NEW k, NEW l, NEW b, StreamOK(s, client, k, l, b),
         s.phase = "none", client.state = "opening",
         NEW f \in Frames, f.type = "snapshot", Sound(f, k, l, b), NEW u, OpensWith(s, f, u)
  PROVE  u \in Streams /\ StreamOK(u, client, k, l, b) /\ Live(u) /\ LastIn(u) = f.cursor
<1> DEFINE q == <<f>>
<1>0. u = [s EXCEPT !.phase = "open", !.queue = q, !.delivered = f.cursor]
  BY Zenon DEF OpensWith
<1>1. q \in Seq(Frames) /\ Len(q) = 1 /\ DOMAIN q = {1} /\ q[1] = f /\ q # << >> /\ Head(q) = f
  OBVIOUS
<1>2. Waiting(q) = 0 /\ Pending(q) # << >> /\ ~IsOver(q)
  BY <1>1 DEF Waiting, Pending, IsOver
<1>3. f.cursor \in Cursor
  BY FrameFields
<1> HIDE DEF q
<1>4. /\ u \in Streams /\ u.out = s.out /\ u.queue = q /\ u.phase = "open" /\ u.beat = s.beat
      /\ u.delivered = f.cursor
  BY <1>0, <1>1, <1>3 DEF Streams
<1>5. s.out = << >> /\ ~s.beat
  BY Zenon DEF StreamOK, WireOK, QueueOK
<1>6. Inside(f.cursor, l, b)
  BY Zenon DEF Sound
<1>7. QueueOK(u, k, l, b)
  <2>1. Waiting(u.queue) <= Capacity
    BY <1>2, <1>4, RoomAssumption
  <2>2. ASSUME NEW i \in DOMAIN q
        PROVE q[i] = f /\ i = 1
    BY <1>1
  <2> QED
    BY <1>4, <1>6, <2>1, <2>2 DEF QueueOK
<1>8. WireOK(u, k, l, b)
  <2>1. Len(u.out) <= WireRoom /\ DOMAIN u.out = {}
    BY <1>4, <1>5, RoomAssumption
  <2> QED
    BY <1>4, <1>5, <2>1, Zenon DEF WireOK
<1>9. Meets(u, client)
  BY <1>2, <1>4, <1>5 DEF Meets
<1>10. Live(u) /\ LastIn(u) = f.cursor
  BY <1>1, <1>2, <1>4 DEF Live, LastIn
<1> QED
  BY <1>4, <1>7, <1>8, <1>9, <1>10, Zenon DEF StreamOK

LEMMA RefusedStream ==
  ASSUME NEW s \in Streams, NEW client, NEW k, NEW l, NEW b, StreamOK(s, client, k, l, b),
         s.phase = "none", client.state = "opening"
  PROVE  LET u == [s EXCEPT !.phase = "closed", !.eof = TRUE]
         IN u \in Streams /\ StreamOK(u, client, k, l, b) /\ ~Live(u)
<1> DEFINE u == [s EXCEPT !.phase = "closed", !.eof = TRUE]
<1>1. /\ u \in Streams /\ u.out = s.out /\ u.queue = s.queue /\ u.phase = "closed" /\ u.beat = s.beat
      /\ u.delivered = s.delivered
  BY DEF Streams
<1> HIDE DEF u
<1>2. QueueOK(s, k, l, b) /\ WireOK(s, k, l, b)
  BY Zenon DEF StreamOK
<1>3. s.out = << >>
  BY <1>2, Zenon DEF WireOK
<1>4. QueueOK(u, k, l, b)
  BY <1>1, <1>2, Zenon DEF QueueOK
<1>5. WireOK(u, k, l, b)
  <2>1. Len(u.out) <= WireRoom /\ DOMAIN u.out = {}
    BY <1>1, <1>3, RoomAssumption
  <2> QED
    BY <1>1, <1>3, <2>1, Zenon DEF WireOK
<1>6. Meets(u, client)
  BY <1>1, <1>3 DEF Meets
<1> QED
  BY <1>1, <1>4, <1>5, <1>6, Zenon DEF StreamOK, Live, u

-----------------------------------------------------------------------------
(* What a step of the source does to a watch.                              *)

LEMMA ChangeFrame ==
  ASSUME NEW from \in Cursor, NEW to \in Cursor
  PROVE  /\ Change(from, to) \in Frames /\ Change(from, to).type = "change"
         /\ Change(from, to).cursor = to /\ Change(from, to).previous = from
  BY DEF Change, Frames

\* The change that takes a linked subscriber to the next record of its kind.
LEMMA LinkedChange ==
  ASSUME IInv, LogOK', Grows, base' = base, Replayed, NEW w, Link(w), previous[w] \in Cursor,
         NEW to \in Cursor, to.epoch = cursor.epoch, to.position = cursor.position + 1,
         Place(base, cursor) + 1 <= Len(log'), log'[Place(base, cursor) + 1] = KindOf[w]
  PROVE  Sound(Change(previous[w], to), KindOf[w], log', base')
<1> DEFINE n == Place(base, cursor)
           k == KindOf[w]
<1>1. LogOK /\ StateOK
  BY Zenon DEF IInv
<1>2. /\ cursor \in Cursor /\ cursor.epoch = Len(base) /\ Len(base) \in Nat /\ Len(log) \in Nat
      /\ n <= Len(log) /\ cursor.position \in Nat /\ cursor.epoch \in 1 .. Len(base)
  BY <1>1 DEF StateOK, Replayed, LogOK, Cursor
<1>3. base[cursor.epoch] \in Nat /\ n = base[cursor.epoch] + cursor.position /\ n \in Nat
  BY <1>1, <1>2 DEF LogOK, Place
<1>4. /\ previous[w].epoch = cursor.epoch /\ previous[w].position <= cursor.position
      /\ previous[w].position \in Nat /\ HeldOf(log, k, Place(base, previous[w])) = HeldOf(log, k, n)
  BY DEF Link, Cursor
<1>5. Place(base, previous[w]) = base[cursor.epoch] + previous[w].position
  BY <1>4 DEF Place
<1>6. Inside(previous[w], log, base)
  BY <1>2, <1>3, <1>4, <1>5 DEF Inside
<1>7. Place(base', to) = n + 1
  BY <1>2, <1>3 DEF Place
<1>8. Inside(to, log', base')
  BY <1>2, <1>7 DEF Inside
<1>9. HeldOf(log', k, n + 1) = HeldOf(log, k, n) \cup {n + 1}
  BY <1>2, <1>3, HeldNext
<1>10. /\ Inside(previous[w], log', base')
       /\ Upto(k, previous[w], log', base') = HeldOf(log, k, Place(base, previous[w]))
  BY <1>1, <1>6, InsideKept, UptoKept DEF Upto
<1>11. Upto(k, to, log', base') = Upto(k, previous[w], log', base') \cup {Place(base', to)}
  BY <1>4, <1>7, <1>9, <1>10, Zenon DEF Upto
<1>12. to.epoch = previous[w].epoch /\ to.position > previous[w].position
  BY <1>2, <1>4
<1> QED
  BY <1>8, <1>10, <1>11, <1>12, ChangeFrame DEF Sound

\* Who is handed a change, and that it is sound.
HandsOver ==
    /\ Grows /\ subscribed' \subseteq subscribed
    /\ \A w \in Watches : previous'[w] # previous[w] =>
          w \in subscribed /\ Sound(Change(previous[w], previous'[w]), KindOf[w], log', base')

LEMMA ConsumeHands ==
  ASSUME IInv, LogOK', Grows, base' = base,
         NEW i, NEW from, NEW to \in Cursor, NEW valid \in BOOLEAN,
         ConsumeChange(i, from, to, valid),
         from = cursor => i = Place(base, cursor) + 1 /\ i <= Len(log')
  PROVE  HandsOver
<1>1. CASE valid /\ Follows(from, to)
  <2>1. /\ Notify(log'[i], to)
        /\ \E leaving \in SUBSET {s \in subscribed : KindOf[s] = log'[i]} : subscribed' = subscribed \ leaving
    BY <1>1, Zenon DEF ConsumeChange
  <2>2. i = Place(base, cursor) + 1 /\ i <= Len(log') /\ available
    BY <1>1, Zenon DEF Follows
  <2>3. to.epoch = cursor.epoch /\ to.position = cursor.position + 1
    BY <1>1, Zenon DEF Follows
  <2>4. Replayed /\ Linked /\ StateOK
    BY <2>2, Zenon DEF IInv
  <2>5. ASSUME NEW w \in Watches, previous'[w] # previous[w]
        PROVE  w \in subscribed /\ Sound(Change(previous[w], previous'[w]), KindOf[w], log', base')
    <3>1. w \in subscribed /\ KindOf[w] = log'[i] /\ previous'[w] = to
      BY <2>1, <2>5 DEF Notify, Watches
    <3>2. previous[w] \in Cursor
      BY <2>4 DEF StateOK, Watches
    <3>3. Link(w)
      BY <2>4, <3>1, Zenon DEF Linked
    <3>4. Sound(Change(previous[w], to), KindOf[w], log', base')
      BY <2>2, <2>3, <2>4, <3>1, <3>2, <3>3, LinkedChange
    <3> QED
      BY <3>1, <3>4, Zenon
  <2>6. subscribed' \subseteq subscribed
    BY <2>1
  <2> QED
    BY <2>5, <2>6, Zenon DEF HandsOver
<1>2. CASE ~(valid /\ Follows(from, to))
  <2>1. Invalidate /\ previous' = previous
    BY <1>2, Zenon DEF ConsumeChange
  <2>2. subscribed' = {}
    BY <2>1, Zenon DEF Invalidate
  <2> QED
    BY <2>1, <2>2, Zenon DEF HandsOver
<1> QED
  BY <1>1, <1>2, Zenon

LEMMA NobodyHanded ==
  ASSUME Grows, subscribed' \subseteq subscribed, previous' = previous
  PROVE  HandsOver
  BY Zenon DEF HandsOver

LEMMA CheckpointHands ==
  ASSUME Grows, NEW c, NEW valid, ConsumeCheckpoint(c, valid)
  PROVE  HandsOver
<1>1. previous' = previous
  BY Zenon DEF ConsumeCheckpoint
<1>2. subscribed' = {} \/ subscribed' = subscribed
  <2>1. CASE ~valid
    BY <2>1, Zenon DEF ConsumeCheckpoint, Invalidate
  <2>2. CASE valid /\ CheckpointIgnored(c)
    <3>1. UNCHANGED <<available, cursor, items, subscribed>>
      BY <2>2, Zenon DEF ConsumeCheckpoint
    <3> QED
      BY <3>1
  <2>3. CASE valid /\ ~CheckpointIgnored(c)
    <3>1. subscribed' = IF CheckpointFails(c) THEN {} ELSE subscribed
      BY <2>3, Zenon DEF ConsumeCheckpoint
    <3> QED
      BY <3>1, Zenon
  <2> QED
    BY <2>1, <2>2, <2>3, Zenon
<1>3. subscribed' \subseteq subscribed
  BY <1>2
<1> QED
  BY <1>1, <1>3, NobodyHanded

LEMMA SourceHands ==
  ASSUME IInv, IInv', SourceStep \/ Close
  PROVE  HandsOver
<1>0. LogOK /\ LogOK'
  BY Zenon DEF IInv
<1>1. ASSUME NEW k \in Kinds, NEW valid \in BOOLEAN, AuditChange(k, valid) PROVE HandsOver
  <2>1. /\ Len(log) < MaxChanges /\ log' = Append(log, k) /\ base' = base
        /\ ConsumeChange(Len(log) + 1, AuditCursor, NextPosition, valid)
    BY <1>1, Zenon DEF AuditChange
  <2>2. Grows /\ Len(log') = Len(log) + 1
    BY <1>0, <2>1, LogGrows
  <2>3. NextPosition \in Cursor
    BY <1>0, AuditCursorTyped, BoundAssumption DEF NextPosition, Cursor, LogOK
  <2>4. AuditCursor = cursor => Len(log) + 1 = Place(base, cursor) + 1 /\ Len(log) + 1 <= Len(log')
    BY <1>0, <2>2, AuditedPlace, AuditCursorTyped
  <2> QED
    BY <1>0, <2>1, <2>2, <2>3, <2>4, ConsumeHands
<1>2. ASSUME NEW k \in Kinds, ChangeLost(k) PROVE HandsOver
  <2>1. Len(log) < MaxChanges /\ log' = Append(log, k) /\ base' = base /\ UNCHANGED <<store, subs>>
    BY <1>2, Zenon DEF ChangeLost
  <2>2. Grows
    BY <1>0, <2>1, LogGrows
  <2>3. subscribed' \subseteq subscribed /\ previous' = previous
    BY <2>1 DEF subs
  <2> QED
    BY <2>2, <2>3, NobodyHanded
<1>3. CASE ChangeRepeated
  <2>1. Position > 0 /\ UNCHANGED audit /\ ConsumeChange(Len(log), Before, AuditCursor, TRUE)
    BY <1>3, Zenon DEF ChangeRepeated
  <2>2. Grows /\ base' = base /\ log' = log
    BY <1>0, <2>1, SameLog
  <2>3. AuditCursor \in Cursor /\ Len(log) \in Nat
    BY <1>0, AuditCursorTyped
  <2>4. Before = cursor => Len(log) = Place(base, cursor) + 1 /\ Len(log) <= Len(log')
    BY <2>1, <2>2, <2>3, AuditedPlace
  <2> QED
    BY <1>0, <2>1, <2>2, <2>3, <2>4, ConsumeHands
<1>4. ASSUME NEW valid \in BOOLEAN, Reidentify(valid) PROVE HandsOver
  <2>1. /\ Epoch < MaxEpochs /\ base' = Append(base, Len(log)) /\ log' = log
        /\ ConsumeCheckpoint([epoch |-> Epoch + 1, position |-> 0], valid)
    BY <1>4, Zenon DEF Reidentify
  <2>2. Grows
    BY <1>0, <2>1, EpochBegins
  <2> QED
    BY <2>1, <2>2, CheckpointHands
<1>5. ASSUME NEW p \in 0 .. Position, Checkpoint(p) PROVE HandsOver
  <2>1. UNCHANGED audit /\ ConsumeCheckpoint([epoch |-> Epoch, position |-> p], TRUE)
    BY <1>5, Zenon DEF Checkpoint
  <2>2. Grows
    BY <1>0, <2>1, SameLog
  <2> QED
    BY <2>1, <2>2, CheckpointHands
<1>6. CASE Close
  <2>1. UNCHANGED <<audit, cursor, previous>> /\ Invalidate
    BY <1>6, Zenon DEF Close
  <2>2. previous' = previous /\ UNCHANGED audit
    BY <2>1
  <2>3. Grows
    BY <1>0, <2>2, SameLog
  <2>4. subscribed' \subseteq subscribed
    BY <2>1 DEF Invalidate
  <2> QED
    BY <2>2, <2>3, <2>4, NobodyHanded
<1> QED
  BY <1>1, <1>2, <1>3, <1>4, <1>5, <1>6, Zenon DEF SourceStep

\* The stream after the callbacks of the source: it has the change, or it has
\* failed, and it is linked to where the store has it now.
LEMMA HandedStream ==
  ASSUME IInv, IInv', Typed, HandsOver, NEW w \in Watches, WatchOK(w),
         Notified(w) => (w \in subscribed' <=> ~Overflows(srv[w]))
  PROVE  /\ Handed(w) \in Streams /\ StreamOK(Handed(w), cl[w], KindOf[w], log', base')
         /\ w \in subscribed' <=> Live(Handed(w))
         /\ w \in subscribed' => previous'[w] = LastIn(Handed(w))
<1>1. LogOK /\ LogOK' /\ Grows /\ StateOK /\ StateOK' /\ subscribed' \subseteq subscribed
  BY Zenon DEF IInv, HandsOver
<1>2. srv[w] \in Streams
  BY DEF Typed
<1>3. StreamOK(srv[w], cl[w], KindOf[w], log, base) /\ Fed(srv[w], w)
  BY Zenon DEF WatchOK
<1>4. StreamOK(srv[w], cl[w], KindOf[w], log', base')
  <2>1. QueueOK(srv[w], KindOf[w], log, base) /\ WireOK(srv[w], KindOf[w], log, base)
    BY <1>3, Zenon DEF StreamOK
  <2>2. QueueOK(srv[w], KindOf[w], log', base') /\ WireOK(srv[w], KindOf[w], log', base')
    BY <1>1, <2>1, QueueKept, WireKept
  <2> QED
    BY <1>3, <2>2, Zenon DEF StreamOK
<1>5. previous[w] \in Cursor /\ previous'[w] \in Cursor
  BY <1>1 DEF StateOK, Watches
<1>6. CASE Notified(w)
  <2> DEFINE f == Change(previous[w], previous'[w])
  <2>1. Handed(w) = Enqueued(srv[w], f) /\ w \in subscribed /\ previous'[w] # previous[w]
    BY <1>6, Zenon DEF Handed, Notified
  <2>2. Sound(f, KindOf[w], log', base')
    BY <2>1, Zenon DEF HandsOver
  <2>3. f \in Frames /\ f.type = "change" /\ f.cursor = previous'[w] /\ f.previous = previous[w]
    BY <1>5, ChangeFrame
  <2>4. Live(srv[w]) /\ previous[w] = LastIn(srv[w])
    BY <1>3, <2>1, Zenon DEF Fed
  <2> HIDE DEF f
  <2>5. /\ Enqueued(srv[w], f) \in Streams /\ StreamOK(Enqueued(srv[w], f), cl[w], KindOf[w], log', base')
        /\ Live(Enqueued(srv[w], f)) <=> ~Overflows(srv[w])
        /\ Live(Enqueued(srv[w], f)) => LastIn(Enqueued(srv[w], f)) = f.cursor
    <3>1. f.previous = LastIn(srv[w])
      BY <2>3, <2>4, Zenon
    <3> QED
      BY <1>2, <1>4, <2>2, <2>3, <2>4, <3>1, EnqueuedStream
  <2> QED
    BY <1>6, <2>1, <2>3, <2>5, Zenon
<1>7. CASE ~Notified(w) /\ w \in subscribed \ subscribed'
  <2>1. Handed(w) = Failed(srv[w])
    BY <1>7, Zenon DEF Handed
  <2> QED
    BY <1>2, <1>4, <1>7, <2>1, FailedStream
<1>8. CASE ~Notified(w) /\ ~(w \in subscribed \ subscribed')
  <2>1. Handed(w) = srv[w]
    BY <1>8, Zenon DEF Handed
  <2>2. w \in subscribed' <=> w \in subscribed
    BY <1>1, <1>8
  <2>3. w \in subscribed => previous'[w] = previous[w]
    BY <1>8, Zenon DEF Notified
  <2> QED
    BY <1>2, <1>3, <1>4, <2>1, <2>2, <2>3, Zenon DEF Fed
<1> QED
  BY <1>6, <1>7, <1>8, Zenon

\* A subscriber does not run ahead of the store.
LEMMA StoreAhead ==
  ASSUME IInv, NEW w \in subscribed
  PROVE  cursor.epoch = previous[w].epoch /\ cursor.position >= previous[w].position
<1>1. StateOK /\ Link(w)
  BY Zenon DEF IInv, Linked
<1>2. previous[w] \in Cursor /\ cursor \in Cursor
  BY <1>1 DEF StateOK
<1> QED
  BY <1>1, <1>2 DEF Link, Cursor

LEMMA SourceWatch ==
  ASSUME IInv, IInv', Typed, HandsOver, NEW w \in Watches, WatchOK(w),
         Notified(w) => (w \in subscribed' <=> ~Overflows(srv[w])),
         srv'[w] = Pump(Handed(w), cursor'), UNCHANGED <<cl, seen, told, serving>>
  PROVE  srv'[w] \in Streams /\ WatchOK(w)'
<1>1. LogOK /\ LogOK' /\ Grows /\ StateOK' /\ cursor' \in Cursor
  BY DEF IInv, HandsOver, StateOK
<1> DEFINE h == Handed(w)
<1>2. /\ h \in Streams /\ StreamOK(h, cl[w], KindOf[w], log', base')
      /\ w \in subscribed' <=> Live(h)
      /\ w \in subscribed' => previous'[w] = LastIn(h)
  BY HandedStream
<1>3. w \in subscribed' => cursor'.epoch = previous'[w].epoch /\ cursor'.position >= previous'[w].position
  <2>1. ASSUME NEW v \in subscribed' PROVE cursor'.epoch = previous'[v].epoch /\ cursor'.position >= previous'[v].position
    <3>1. StateOK' /\ Link(v)'
      BY <2>1, Zenon DEF IInv, Linked, Link
    <3>2. previous'[v] \in Cursor /\ cursor' \in Cursor
      BY <2>1, <3>1 DEF StateOK
    <3> QED
      BY <3>1, <3>2 DEF Link, Cursor
  <2> QED
    BY <2>1
<1> HIDE DEF h
<1>4. Live(h) => cursor'.epoch = LastIn(h).epoch /\ cursor'.position >= LastIn(h).position
  BY <1>2, <1>3, Zenon
<1>5. PICK c \in Cursor : c = cursor'
  BY <1>1
<1>6. srv'[w] = Pump(h, c)
  BY <1>5, Zenon DEF h
<1>7. /\ Pump(h, c) \in Streams /\ StreamOK(Pump(h, c), cl[w], KindOf[w], log', base')
      /\ Live(Pump(h, c)) <=> Live(h)
      /\ Live(h) => LastIn(Pump(h, c)) = LastIn(h)
  <2>1. Live(h) => c.epoch = LastIn(h).epoch /\ c.position >= LastIn(h).position
    BY <1>4, <1>5, Zenon
  <2> QED
    BY <1>2, <2>1, PumpedStream
<1>8. cl' = cl /\ seen' = seen /\ told' = told
  BY Zenon
<1>9. ReadsOK(cl[w], seen[w], told[w], KindOf[w], log', base')
  <2>1. ReadsOK(cl[w], seen[w], told[w], KindOf[w], log, base) /\ cl[w] \in Clients
    BY DEF WatchOK, Typed
  <2> QED
    BY <1>1, <2>1, ReadsKept
<1>10. Live(srv'[w]) <=> w \in subscribed'
  BY <1>2, <1>6, <1>7, Zenon
<1>11. w \in subscribed' => previous'[w] = LastIn(srv'[w])
  BY <1>2, <1>6, <1>7, Zenon
<1> QED
  BY <1>6, <1>7, <1>8, <1>9, <1>10, <1>11, Zenon DEF WatchOK, Fed

-----------------------------------------------------------------------------
(* The steps of the whole.                                                 *)

LEMMA SourceKeeps ==
  ASSUME WInv, IInv', SourceStep \/ Close,
         \A w \in Watches : Notified(w) => (w \in subscribed' <=> ~Overflows(srv[w])),
         srv' = [w \in Watches |-> Pump(Handed(w), cursor')], UNCHANGED <<cl, seen, told, serving>>
  PROVE  WInv'
<1>1. IInv /\ Typed
  BY Zenon DEF WInv
<1>2. HandsOver
  BY <1>1, SourceHands
<1>3. ASSUME NEW w \in Watches PROVE srv'[w] \in Streams /\ WatchOK(w)'
  <2>1. WatchOK(w)
    BY Zenon DEF WInv
  <2>2. srv'[w] = Pump(Handed(w), cursor')
    BY Zenon
  <2> QED
    BY <1>1, <1>2, <2>1, <2>2, SourceWatch
<1>4. Typed'
  <2>1. srv' \in [Watches -> Streams]
    BY <1>3
  <2> QED
    BY <1>1, <2>1 DEF Typed
<1> QED
  BY <1>3, <1>4, Zenon DEF WInv

LEMMA SourceInv == WInv /\ IInv' /\ Source => WInv'
<1> SUFFICES ASSUME WInv, IInv', Source PROVE WInv'
  OBVIOUS
<1>1. /\ SourceStep
      /\ \A w \in Watches : Notified(w) => (w \in subscribed' <=> ~Overflows(srv[w]))
      /\ srv' = [w \in Watches |-> Pump(Handed(w), cursor')] /\ UNCHANGED <<cl, seen, told, serving>>
  BY Zenon DEF Source
<1> QED
  BY <1>1, SourceKeeps

LEMMA CloseInv == WInv /\ IInv' /\ CloseSource => WInv'
<1> SUFFICES ASSUME WInv, IInv', CloseSource PROVE WInv'
  OBVIOUS
<1>1. /\ Close /\ srv' = [w \in Watches |-> Pump(Handed(w), cursor')]
      /\ UNCHANGED <<cl, seen, told, serving>>
  BY Zenon DEF CloseSource
<1>2. previous' = previous
  BY <1>1 DEF Close
<1>3. \A w \in Watches : ~Notified(w)
  BY <1>2, Zenon DEF Notified
<1> QED
  BY <1>1, <1>3, SourceKeeps

LEMMA ReleaseInv == WInv /\ IInv' /\ ReleaseStreams => WInv'
<1> SUFFICES ASSUME WInv, IInv', ReleaseStreams PROVE WInv'
  OBVIOUS
<1> DEFINE Released(w) == Pump(Failed(srv[w]), cursor)
           Stuck(w) == srv[w].phase = "open" /\ Blocked(Released(w)) /\ Released(w).phase = "open"
           Opened == {w \in Watches : srv[w].phase = "open"}
<1>1. /\ srv' = [w \in Watches |-> IF Stuck(w) THEN Destroyed(Released(w), Len(Released(w).out))
                                   ELSE Released(w)]
      /\ Unsubscribe(Opened) /\ UNCHANGED <<cl, seen, told>>
  BY Zenon DEF ReleaseStreams
<1>2. IInv /\ Typed /\ StateOK
  BY Zenon DEF WInv, IInv
<1>3. /\ log' = log /\ base' = base /\ previous' = previous /\ cl' = cl /\ seen' = seen /\ told' = told
      /\ subscribed' = subscribed \ Opened
  BY <1>1 DEF Unsubscribe, audit
<1>4. cursor \in Cursor
  BY <1>2 DEF StateOK
<1>5. ASSUME NEW w \in Watches PROVE srv'[w] \in Streams /\ WatchOK(w)'
  <2> DEFINE s == Failed(srv[w])
             r == Released(w)
             t == IF Stuck(w) THEN Destroyed(r, Len(r.out)) ELSE r
  <2>1. srv[w] \in Streams /\ StreamOK(srv[w], cl[w], KindOf[w], log, base) /\ Fed(srv[w], w)
    BY <1>2 DEF WInv, WatchOK, Typed
  <2>2. s \in Streams /\ StreamOK(s, cl[w], KindOf[w], log, base) /\ ~Live(s)
    BY <2>1, FailedStream
  <2>3. r \in Streams /\ StreamOK(r, cl[w], KindOf[w], log, base) /\ ~Live(r)
    <3>1. r = Pump(s, cursor)
      BY Zenon
    <3> HIDE DEF s, r
    <3> QED
      BY <1>4, <2>2, <3>1, PumpedStream
  <2>4. srv'[w] = t
    BY <1>1, Zenon
  <2>5. t \in Streams /\ StreamOK(t, cl[w], KindOf[w], log, base) /\ ~Live(t)
    <3>1. CASE Stuck(w)
      <4>1. r.phase = "open" /\ t = Destroyed(r, Len(r.out))
        BY <3>1, Zenon
      <4>2. Len(r.out) \in 0 .. Len(r.out)
        BY <2>3 DEF Streams
      <4> HIDE DEF r, t
      <4> QED
        BY <2>3, <4>1, <4>2, DestroyedStream
    <3>2. CASE ~Stuck(w)
      BY <2>3, <3>2, Zenon
    <3> QED
      BY <3>1, <3>2, Zenon
  <2>6. w \notin subscribed'
    <3>1. w \in subscribed => srv[w].phase = "open"
      BY <2>1, Zenon DEF Fed, Live
    <3> QED
      BY <1>3, <3>1
  <2>7. ReadsOK(cl[w], seen[w], told[w], KindOf[w], log, base)
    BY Zenon DEF WInv, WatchOK
  <2> HIDE DEF t
  <2> QED
    BY <1>3, <2>4, <2>5, <2>6, <2>7, Zenon DEF WatchOK, Fed
<1>6. Typed'
  <2>1. \A w \in Watches : srv'[w] \in Streams
    BY <1>5
  <2>2. srv' = [w \in Watches |-> srv'[w]]
    BY <1>1
  <2>3. srv' \in [Watches -> Streams]
    BY <2>1, <2>2, Zenon
  <2> QED
    BY <1>2, <1>3, <2>3, Zenon DEF Typed
<1> QED
  BY <1>5, <1>6, Zenon DEF WInv

\* A step of one watch.
LEMMA OneWatch ==
  ASSUME WInv, IInv', NEW w \in Watches, log' = log, base' = base, Typed', WatchOK(w)',
         \A v \in Watches \ {w} :
            /\ srv'[v] = srv[v] /\ cl'[v] = cl[v] /\ seen'[v] = seen[v] /\ told'[v] = told[v]
            /\ (v \in subscribed' <=> v \in subscribed) /\ previous'[v] = previous[v]
  PROVE  WInv'
<1>1. ASSUME NEW v \in Watches, v # w PROVE WatchOK(v)'
  <2>1. WatchOK(v)
    BY Zenon DEF WInv
  <2>2. /\ srv'[v] = srv[v] /\ cl'[v] = cl[v] /\ seen'[v] = seen[v] /\ told'[v] = told[v]
        /\ (v \in subscribed' <=> v \in subscribed) /\ previous'[v] = previous[v]
    BY <1>1
  <2> QED
    BY <2>1, <2>2, Zenon DEF WatchOK, Fed
<1>2. \A v \in Watches : WatchOK(v)'
  BY <1>1, Zenon
<1> QED
  BY <1>2, Zenon DEF WInv

LEMMA WatchStep ==
  ASSUME WInv, IInv', NEW w \in Watches,
         NEW t \in Streams, NEW c \in Clients, NEW known \in SUBSET Nat, NEW over \in BOOLEAN,
         srv' = [srv EXCEPT ![w] = t], cl' = [cl EXCEPT ![w] = c],
         seen' = [seen EXCEPT ![w] = known], told' = [told EXCEPT ![w] = over],
         log' = log, base' = base,
         StreamOK(t, c, KindOf[w], log, base), ReadsOK(c, known, over, KindOf[w], log, base),
         w \in subscribed' <=> Live(t), w \in subscribed' => previous'[w] = LastIn(t),
         \A v \in Watches \ {w} : (v \in subscribed' <=> v \in subscribed) /\ previous'[v] = previous[v]
  PROVE  WInv'
<1>1. Typed
  BY Zenon DEF WInv
<1>2. /\ srv'[w] = t /\ cl'[w] = c /\ seen'[w] = known /\ told'[w] = over
      /\ \A v \in Watches \ {w} :
            srv'[v] = srv[v] /\ cl'[v] = cl[v] /\ seen'[v] = seen[v] /\ told'[v] = told[v]
  BY <1>1 DEF Typed
<1>3. Typed'
  BY <1>1 DEF Typed
<1>4. WatchOK(w)'
  BY <1>2, Zenon DEF WatchOK, Fed
<1> QED
  BY <1>2, <1>3, <1>4, OneWatch

\* A step of the stream of one watch.
LEMMA StreamOnlyStep ==
  ASSUME WInv, IInv', NEW w \in Watches, NEW t \in Streams,
         srv' = [srv EXCEPT ![w] = t], UNCHANGED <<cl, seen, told>>, log' = log, base' = base,
         StreamOK(t, cl[w], KindOf[w], log, base),
         w \in subscribed' <=> Live(t), w \in subscribed' => previous'[w] = LastIn(t),
         \A v \in Watches \ {w} : (v \in subscribed' <=> v \in subscribed) /\ previous'[v] = previous[v]
  PROVE  WInv'
<1>1. Typed /\ ReadsOK(cl[w], seen[w], told[w], KindOf[w], log, base)
  BY Zenon DEF WInv, WatchOK
<1>2. cl[w] \in Clients /\ seen[w] \in SUBSET Nat /\ told[w] \in BOOLEAN
  BY <1>1 DEF Typed
<1>3. cl' = [cl EXCEPT ![w] = cl[w]] /\ seen' = [seen EXCEPT ![w] = seen[w]] /\ told' = [told EXCEPT ![w] = told[w]]
  BY <1>1 DEF Typed
<1> QED
  BY <1>1, <1>2, <1>3, WatchStep

\* The snapshot of an available store is sound.
LEMMA SoundSnapshot ==
  ASSUME IInv, available, NEW k \in Kinds
  PROVE  Snapshot(k) \in Frames /\ Snapshot(k).type = "snapshot" /\ Snapshot(k).cursor = cursor
         /\ Sound(Snapshot(k), k, log, base)
<1>1. Replayed /\ StateOK /\ LogOK
  BY Zenon DEF IInv
<1>2. cursor \in Cursor /\ items[k] \in SUBSET Nat /\ cursor.epoch = Len(base) /\ Len(base) \in Nat
  BY <1>1 DEF StateOK, Replayed, LogOK
<1>3. /\ Snapshot(k) \in Frames /\ Snapshot(k).type = "snapshot" /\ Snapshot(k).cursor = cursor
      /\ Snapshot(k).items = items[k]
  BY <1>2 DEF Snapshot, Frames
<1>4. Inside(cursor, log, base) /\ items[k] = Upto(k, cursor, log, base)
  BY <1>1, <1>2 DEF Replayed, Inside, Upto
<1> QED
  BY <1>3, <1>4 DEF Sound

LEMMA OpenInv == ASSUME WInv, IInv', NEW w \in Watches, Open(w) PROVE WInv'
<1>1. /\ IInv /\ Typed /\ StreamOK(srv[w], cl[w], KindOf[w], log, base) /\ Fed(srv[w], w) /\ FlagsOK /\ StateOK
      /\ srv[w].phase = "none" /\ cl[w].state = "opening" /\ UNCHANGED <<cl, seen, told>>
  <2>1. UNCHANGED <<cl, seen, told, serving>>
    BY Zenon DEF Open
  <2> QED
    BY <2>1, Zenon DEF WInv, WatchOK, Open, IInv
<1>2. srv[w] \in Streams
  BY <1>1 DEF Typed
<1>3. CASE CanSubscribe
  <2> DEFINE f == Snapshot(KindOf[w])
             u == [srv[w] EXCEPT !.phase = "open", !.queue = <<f>>, !.delivered = f.cursor]
             t == Pump(u, cursor)
  <2>1. Subscribe(w) /\ srv' = [srv EXCEPT ![w] = Pump([@ EXCEPT !.phase = "open", !.queue = <<f>>,
                                                        !.delivered = cursor], cursor)]
    BY <1>3, Zenon DEF Open
  <2>2. KindOf[w] \in Kinds
    BY KindAssumption DEF Watches
  <2>3. f \in Frames /\ f.type = "snapshot" /\ f.cursor = cursor /\ Sound(f, KindOf[w], log, base)
    BY <1>1, <1>3, <2>2, SoundSnapshot, Zenon DEF CanSubscribe
  <2>4. srv' = [srv EXCEPT ![w] = t]
    BY <2>1, <2>3
  <2> HIDE DEF f
  <2>5. u \in Streams /\ StreamOK(u, cl[w], KindOf[w], log, base) /\ Live(u) /\ LastIn(u) = f.cursor
    <3>1. OpensWith(srv[w], f, u)
      BY Zenon DEF OpensWith
    <3> HIDE DEF u
    <3> QED
      BY <1>1, <1>2, <2>3, <3>1, OpenedStream
  <2> HIDE DEF u
  <2>6. cursor \in Cursor /\ cursor.epoch = LastIn(u).epoch /\ cursor.position >= LastIn(u).position
    BY <1>1, <2>3, <2>5 DEF StateOK, Cursor
  <2>7. t \in Streams /\ StreamOK(t, cl[w], KindOf[w], log, base) /\ Live(t) /\ LastIn(t) = cursor
    BY <2>3, <2>5, <2>6, PumpedStream
  <2> HIDE DEF t
  <2>8. /\ log' = log /\ base' = base /\ w \in subscribed' /\ previous'[w] = cursor
        /\ \A v \in Watches \ {w} : (v \in subscribed' <=> v \in subscribed) /\ previous'[v] = previous[v]
    BY <1>1, <2>1 DEF Subscribe, audit, StateOK, Watches
  <2> QED
    BY <1>1, <2>4, <2>7, <2>8, StreamOnlyStep
<1>4. CASE ~CanSubscribe
  <2> DEFINE u == [srv[w] EXCEPT !.phase = "closed", !.eof = TRUE]
  <2>1. srv' = [srv EXCEPT ![w].phase = "closed", ![w].eof = TRUE] /\ UNCHANGED storeVars
    BY <1>4, Zenon DEF Open
  <2>2. srv' = [srv EXCEPT ![w] = u]
    BY <1>1, <2>1 DEF Typed
  <2>3. u \in Streams /\ StreamOK(u, cl[w], KindOf[w], log, base) /\ ~Live(u)
    BY <1>1, <1>2, RefusedStream
  <2> HIDE DEF u
  <2>4. log' = log /\ base' = base /\ subscribed' = subscribed /\ previous' = previous
    BY <2>1 DEF storeVars, audit, subs
  <2>5. w \notin subscribed'
    BY <1>1, <2>4, Zenon DEF Fed, Live
  <2> QED
    BY <1>1, <2>2, <2>3, <2>4, <2>5, StreamOnlyStep
<1> QED
  BY <1>3, <1>4

LEMMA BeatInv == ASSUME WInv, IInv', NEW w \in Watches, Beat(w) PROVE WInv'
<1> DEFINE u == [srv[w] EXCEPT !.beat = TRUE]
           t == Pump(u, cursor)
<1>1. /\ IInv /\ Typed /\ StreamOK(srv[w], cl[w], KindOf[w], log, base) /\ Fed(srv[w], w) /\ StateOK
      /\ Live(srv[w]) /\ srv' = [srv EXCEPT ![w] = Pump([@ EXCEPT !.beat = TRUE], cursor)]
      /\ UNCHANGED <<storeVars, cl, seen, told, serving>>
  BY Zenon DEF WInv, WatchOK, Beat, IInv, Live
<1>2. srv[w] \in Streams /\ srv' = [srv EXCEPT ![w] = t]
  BY <1>1 DEF Typed
<1>3. u \in Streams /\ StreamOK(u, cl[w], KindOf[w], log, base) /\ Live(u) /\ LastIn(u) = LastIn(srv[w])
  BY <1>1, <1>2, BeatenStream
<1> HIDE DEF u
<1>4. w \in subscribed /\ previous[w] = LastIn(u)
  BY <1>1, <1>3, Zenon DEF Fed
<1>5. cursor \in Cursor /\ cursor.epoch = LastIn(u).epoch /\ cursor.position >= LastIn(u).position
  BY <1>1, <1>4, StoreAhead DEF StateOK
<1>6. t \in Streams /\ StreamOK(t, cl[w], KindOf[w], log, base) /\ Live(t) /\ LastIn(t) = LastIn(u)
  BY <1>3, <1>5, PumpedStream
<1> HIDE DEF t
<1>7. /\ log' = log /\ base' = base /\ subscribed' = subscribed /\ previous' = previous
      /\ UNCHANGED <<cl, seen, told>>
  BY <1>1 DEF storeVars, audit, subs
<1> QED
  BY <1>2, <1>4, <1>6, <1>7, StreamOnlyStep

LEMMA DisconnectInv == ASSUME WInv, IInv', NEW w \in Watches, Disconnect(w) PROVE WInv'
<1>1. /\ IInv /\ Typed /\ StreamOK(srv[w], cl[w], KindOf[w], log, base) /\ StateOK
      /\ srv[w].phase = "open" /\ Unsubscribe({w}) /\ UNCHANGED <<cl, seen, told, serving>>
      /\ \E n \in 0 .. Len(srv[w].out) : srv' = [srv EXCEPT ![w] = Destroyed(@, n)]
  BY Zenon DEF WInv, WatchOK, Disconnect, IInv
<1>2. PICK n \in 0 .. Len(srv[w].out) : srv' = [srv EXCEPT ![w] = Destroyed(@, n)]
  BY <1>1
<1> DEFINE t == Destroyed(srv[w], n)
<1>3. srv[w] \in Streams /\ srv' = [srv EXCEPT ![w] = t]
  BY <1>1, <1>2 DEF Typed
<1>4. t \in Streams /\ StreamOK(t, cl[w], KindOf[w], log, base) /\ ~Live(t)
  BY <1>1, <1>3, DestroyedStream
<1> HIDE DEF t
<1>5. /\ log' = log /\ base' = base /\ previous' = previous /\ subscribed' = subscribed \ {w}
      /\ UNCHANGED <<cl, seen, told>>
  BY <1>1 DEF Unsubscribe, audit
<1> QED
  BY <1>3, <1>4, <1>5, StreamOnlyStep

-----------------------------------------------------------------------------
(* The client and its reader.                                              *)

LEMMA ToldIn ==
  ASSUME NEW q, NEW b, NEW x
  PROVE  x \in Told(q, b) <=> \E i \in DOMAIN q : q[i].type = "change" /\ x = Place(b, q[i].cursor)
  BY Zenon DEF Told

LEMMA ToldNothing == ASSUME NEW b PROVE Told(<< >>, b) = {}
<1>1. DOMAIN << >> = {}
  OBVIOUS
<1>2. \A x : x \notin Told(<< >>, b)
  BY <1>1, ToldIn, Zenon
<1> QED
  BY <1>2

LEMMA ToldMore ==
  ASSUME NEW q \in Seq(Frames), NEW f \in Frames, NEW b
  PROVE  Told(Append(q, f), b) = Told(q, b) \cup (IF f.type = "change" THEN {Place(b, f.cursor)} ELSE {})
<1> DEFINE r == Append(q, f)
<1>1. /\ DOMAIN q \subseteq DOMAIN r /\ \A i \in DOMAIN q : r[i] = q[i]
      /\ Len(q) + 1 \in DOMAIN r /\ r[Len(q) + 1] = f
      /\ \A i \in DOMAIN r : i \in DOMAIN q \/ i = Len(q) + 1
  OBVIOUS
<1> HIDE DEF r
<1>2. ASSUME NEW x PROVE x \in Told(r, b) <=> x \in Told(q, b) \/ (f.type = "change" /\ x = Place(b, f.cursor))
  <2>1. x \in Told(r, b) <=> \E i \in DOMAIN r : r[i].type = "change" /\ x = Place(b, r[i].cursor)
    BY ToldIn
  <2>2. x \in Told(q, b) <=> \E i \in DOMAIN q : q[i].type = "change" /\ x = Place(b, q[i].cursor)
    BY ToldIn
  <2>3. ASSUME NEW i \in DOMAIN r, r[i].type = "change", x = Place(b, r[i].cursor)
        PROVE  x \in Told(q, b) \/ (f.type = "change" /\ x = Place(b, f.cursor))
    <3>1. CASE i \in DOMAIN q
      BY <1>1, <2>2, <2>3, <3>1, Zenon
    <3>2. CASE i = Len(q) + 1
      BY <1>1, <2>3, <3>2, Zenon
    <3> QED
      BY <1>1, <3>1, <3>2, Zenon
  <2>4. ASSUME NEW i \in DOMAIN q, q[i].type = "change", x = Place(b, q[i].cursor)
        PROVE  x \in Told(r, b)
    <3>1. i \in DOMAIN r /\ r[i] = q[i]
      BY <1>1
    <3> QED
      BY <2>1, <2>4, <3>1, Zenon
  <2>5. f.type = "change" /\ x = Place(b, f.cursor) => x \in Told(r, b)
    BY <1>1, <2>1, Zenon
  <2> QED
    BY <2>1, <2>2, <2>3, <2>4, <2>5, Zenon
<1>3. Told(r, b) = Told(q, b) \cup (IF f.type = "change" THEN {Place(b, f.cursor)} ELSE {})
  BY <1>2
<1> QED
  BY <1>3 DEF r

LEMMA ToldFirst ==
  ASSUME NEW q \in Seq(Frames), q # << >>, NEW b
  PROVE  Told(q, b) = Told(Tail(q), b) \cup (IF q[1].type = "change" THEN {Place(b, q[1].cursor)} ELSE {})
<1> DEFINE r == Tail(q)
<1>1. /\ \A i \in DOMAIN r : i + 1 \in DOMAIN q /\ r[i] = q[i + 1]
      /\ 1 \in DOMAIN q
      /\ \A i \in DOMAIN q : i = 1 \/ (i - 1 \in DOMAIN r /\ r[i - 1] = q[i])
  <2>1. Len(q) \in Nat /\ Len(q) > 0 /\ DOMAIN q = 1 .. Len(q)
    OBVIOUS
  <2>2. /\ r \in Seq(Frames) /\ Len(r) = Len(q) - 1 /\ DOMAIN r = 1 .. (Len(q) - 1)
        /\ \A i \in 1 .. (Len(q) - 1) : r[i] = q[i + 1]
    BY <2>1
  <2> HIDE DEF r
  <2>3. \A i \in DOMAIN r : i + 1 \in DOMAIN q /\ r[i] = q[i + 1]
    BY <2>1, <2>2
  <2>4. ASSUME NEW i \in DOMAIN q, i # 1 PROVE i - 1 \in DOMAIN r /\ r[i - 1] = q[i]
    <3>1. i - 1 \in 1 .. (Len(q) - 1) /\ (i - 1) + 1 = i
      BY <2>1, <2>4
    <3> QED
      BY <2>2, <3>1
  <2> QED
    BY <2>1, <2>3, <2>4
<1> HIDE DEF r
<1>2. ASSUME NEW x PROVE x \in Told(q, b) <=> x \in Told(r, b) \/ (q[1].type = "change" /\ x = Place(b, q[1].cursor))
  <2>1. x \in Told(r, b) <=> \E i \in DOMAIN r : r[i].type = "change" /\ x = Place(b, r[i].cursor)
    BY ToldIn
  <2>2. x \in Told(q, b) <=> \E i \in DOMAIN q : q[i].type = "change" /\ x = Place(b, q[i].cursor)
    BY ToldIn
  <2>3. ASSUME NEW i \in DOMAIN q, q[i].type = "change", x = Place(b, q[i].cursor)
        PROVE  x \in Told(r, b) \/ (q[1].type = "change" /\ x = Place(b, q[1].cursor))
    <3>1. CASE i = 1
      BY <2>3, <3>1, Zenon
    <3>2. CASE i - 1 \in DOMAIN r /\ r[i - 1] = q[i]
      BY <2>1, <2>3, <3>2, Zenon
    <3> QED
      BY <1>1, <3>1, <3>2, Zenon
  <2>4. ASSUME NEW i \in DOMAIN r, r[i].type = "change", x = Place(b, r[i].cursor)
        PROVE  x \in Told(q, b)
    <3>1. i + 1 \in DOMAIN q /\ r[i] = q[i + 1]
      BY <1>1
    <3> QED
      BY <2>2, <2>4, <3>1, Zenon
  <2>5. q[1].type = "change" /\ x = Place(b, q[1].cursor) => x \in Told(q, b)
    BY <1>1, <2>2, Zenon
  <2> QED
    BY <2>1, <2>2, <2>3, <2>4, <2>5, Zenon
<1>3. Told(q, b) = Told(r, b) \cup (IF q[1].type = "change" THEN {Place(b, q[1].cursor)} ELSE {})
  BY <1>2
<1> QED
  BY <1>3 DEF r

\* Known() with the place of a change.
Learnt(f, known, b) == IF f.type = "snapshot" THEN f.items ELSE known \cup {Place(b, f.cursor)}

LEMMA KnownLearnt == ASSUME NEW f, NEW known PROVE Known(f, known) = Learnt(f, known, base)
  BY DEF Known, Learnt, Index, Place

\* The end of a client is quiet: nothing is left for the reader.
Ended(c, next) == [c EXCEPT !.state = next, !.inbox = << >>, !.waiting = FALSE, !.alarm = FALSE]

LEMMA EndedClient ==
  ASSUME NEW c \in Clients, NEW next \in {"lost", "closed"}, NEW known, NEW over, NEW k, NEW l, NEW b
  PROVE  Ended(c, next) \in Clients /\ Ended(c, next).state = next
         /\ ReadsOK(Ended(c, next), known, over, k, l, b)
<1> DEFINE e == Ended(c, next)
<1>1. << >> \in Seq(Frames)
  OBVIOUS
<1>2. /\ e \in Clients /\ e.state = next /\ e.inbox = << >> /\ e.waiting = FALSE /\ e.alarm = FALSE
  BY <1>1 DEF Ended, Clients
<1> HIDE DEF e
<1>3. Waiting(e.inbox) <= Capacity /\ DOMAIN e.inbox = {}
  BY <1>2, RoomAssumption DEF Waiting, Pending
<1>4. next # "live" /\ next \notin {"idle", "opening"}
  OBVIOUS
<1>5. ReadsOK(e, known, over, k, l, b)
  BY <1>2, <1>3, <1>4, Zenon DEF ReadsOK
<1> QED
  BY <1>2, <1>5 DEF e

LEMMA UptoTyped ==
  ASSUME LogOK, NEW k, NEW c, Inside(c, log, base)
  PROVE  Upto(k, c, log, base) \in SUBSET Nat
<1>1. c \in Cursor /\ c.epoch \in 1 .. Len(base)
  BY DEF Inside, Cursor, LogOK
<1>2. Place(base, c) \in Nat
  BY <1>1 DEF Place, Cursor, LogOK
<1> QED
  BY <1>2 DEF Upto, HeldOf

\* A frame that readPump() delivers.
Accepts(f, c, k, l, b) ==
    /\ f \in Frames /\ Sound(f, k, l, b)
    /\ \/ f.type = "snapshot" /\ c.state = "opening"
       \/ f.type = "change" /\ c.state = "live" /\ f.previous = c.cursor

LEMMA AcceptedFrame ==
  ASSUME NEW c \in Clients, NEW f, NEW k, NEW l, NEW b, Accepts(f, c, k, l, b)
  PROVE  /\ f.type \in {"snapshot", "change"} /\ f.cursor \in Cursor /\ Inside(f.cursor, l, b)
         /\ f.type = "snapshot" => c.state = "opening" /\ f.items = Upto(k, f.cursor, l, b)
         /\ f.type = "change" =>
               /\ c.state = "live" /\ f.previous = c.cursor
               /\ Upto(k, f.cursor, l, b) = Upto(k, c.cursor, l, b) \cup {Place(b, f.cursor)}
<1>1. f.type \in {"snapshot", "change"} /\ f \in Frames
  BY Zenon DEF Accepts
<1>2. f.cursor \in Cursor
  BY <1>1, FrameFields
<1> QED
  BY <1>1, <1>2 DEF Accepts, Sound

\* deliver(): the client after a frame that goes to its reader, or waits for it.
GivesTo(c, f, e) == e = [c EXCEPT !.state = "live", !.cursor = f.cursor, !.waiting = FALSE]
Keeps(c, f, e) == e = [c EXCEPT !.state = "live", !.cursor = f.cursor, !.inbox = Append(@, f)]

\* The waiting reader is handed the frame.
LEMMA GivenToReader ==
  ASSUME NEW c \in Clients, NEW known, NEW over, NEW f, NEW k, NEW l, NEW b,
         ReadsOK(c, known, over, k, l, b), Accepts(f, c, k, l, b), c.waiting,
         NEW e, GivesTo(c, f, e)
  PROVE  /\ e \in Clients /\ e.state = "live" /\ e.cursor = f.cursor
         /\ Learnt(f, known, b) = Upto(k, f.cursor, l, b)
         /\ ReadsOK(e, Learnt(f, known, b), over, k, l, b)
<1>1. /\ f.type \in {"snapshot", "change"} /\ f.cursor \in Cursor /\ Inside(f.cursor, l, b)
      /\ f.type = "snapshot" => c.state = "opening" /\ f.items = Upto(k, f.cursor, l, b)
      /\ f.type = "change" =>
            /\ c.state = "live" /\ f.previous = c.cursor
            /\ Upto(k, f.cursor, l, b) = Upto(k, c.cursor, l, b) \cup {Place(b, f.cursor)}
  BY AcceptedFrame
<1>2. /\ e \in Clients /\ e.state = "live" /\ e.cursor = f.cursor /\ e.inbox = c.inbox
      /\ e.waiting = FALSE /\ e.alarm = c.alarm
  BY <1>1 DEF Clients, GivesTo
<1>3. c.inbox = << >> /\ ~c.alarm /\ (c.state = "live" => known = Upto(k, c.cursor, l, b))
  BY Zenon DEF ReadsOK
<1>4. Learnt(f, known, b) = Upto(k, f.cursor, l, b)
  BY <1>1, <1>3 DEF Learnt
<1>5. Waiting(e.inbox) <= Capacity /\ DOMAIN e.inbox = {} /\ Told(e.inbox, b) = {}
  <2>1. e.inbox = << >>
    BY <1>2, <1>3, Zenon
  <2>2. Waiting(<< >>) = 0
    BY DEF Waiting, Pending
  <2>3. Waiting(e.inbox) <= Capacity
    BY <2>1, <2>2, RoomAssumption
  <2>4. Told(e.inbox, b) = {}
    BY <2>1, ToldNothing, Zenon
  <2> QED
    BY <2>1, <2>3, <2>4
<1>6. InboxOf(e, Learnt(f, known, b), b) = Learnt(f, known, b)
  BY <1>2, <1>3, <1>5 DEF InboxOf
<1>7. ReadsOK(e, Learnt(f, known, b), over, k, l, b)
  BY <1>1, <1>2, <1>3, <1>4, <1>5, <1>6, Zenon DEF ReadsOK
<1> QED
  BY <1>2, <1>4, <1>7

\* The frame waits for the reader.
LEMMA KeptForReader ==
  ASSUME NEW c \in Clients, NEW known, NEW over, NEW f, NEW k, NEW l, NEW b,
         ReadsOK(c, known, over, k, l, b), Accepts(f, c, k, l, b), ~c.waiting,
         ~(f.type = "change" /\ Waiting(c.inbox) >= Capacity),
         NEW e, Keeps(c, f, e)
  PROVE  /\ e \in Clients /\ e.state = "live" /\ e.cursor = f.cursor
         /\ ReadsOK(e, known, over, k, l, b)
<1> DEFINE q == Append(c.inbox, f)
<1>1. /\ f.type \in {"snapshot", "change"} /\ f.cursor \in Cursor /\ Inside(f.cursor, l, b)
      /\ f.type = "snapshot" => c.state = "opening" /\ f.items = Upto(k, f.cursor, l, b)
      /\ f.type = "change" =>
            /\ c.state = "live" /\ f.previous = c.cursor
            /\ Upto(k, f.cursor, l, b) = Upto(k, c.cursor, l, b) \cup {Place(b, f.cursor)}
  BY AcceptedFrame
<1>2. f \in Frames /\ Sound(f, k, l, b)
  BY Zenon DEF Accepts
<1>3. c.inbox \in Seq(Frames) /\ Len(c.inbox) \in Nat /\ DOMAIN c.inbox = 1 .. Len(c.inbox) /\ Capacity \in Nat
  BY RoomAssumption DEF Clients
<1>4. /\ q \in Seq(Frames) /\ Len(q) = Len(c.inbox) + 1 /\ DOMAIN q = 1 .. Len(q) /\ q # << >> /\ Head(q) = q[1]
      /\ q[Len(q)] = f /\ \A i \in 1 .. Len(c.inbox) : q[i] = c.inbox[i]
  BY <1>2, <1>3
<1>14. e = [c EXCEPT !.state = "live", !.cursor = f.cursor, !.inbox = q]
  BY DEF Keeps
<1> HIDE DEF q
<1>5. /\ e \in Clients /\ e.state = "live" /\ e.cursor = f.cursor /\ e.inbox = q
      /\ e.waiting = c.waiting /\ e.alarm = c.alarm
  BY <1>1, <1>4, <1>14 DEF Clients
<1>6. /\ ~c.alarm /\ (c.state # "live" => c.inbox = << >>) /\ (c.state \in {"idle", "opening"} => known = {})
      /\ Waiting(c.inbox) <= Capacity
      /\ \A i \in DOMAIN c.inbox :
            /\ c.inbox[i].type \in {"snapshot", "change"} /\ Sound(c.inbox[i], k, l, b)
            /\ c.inbox[i].type = "snapshot" => i = 1
            /\ i > 1 => c.inbox[i].previous = c.inbox[i - 1].cursor
      /\ c.inbox # << >> =>
            /\ c.inbox[Len(c.inbox)].cursor = c.cursor
            /\ known = IF c.inbox[1].type = "snapshot" THEN {} ELSE Upto(k, c.inbox[1].previous, l, b)
      /\ c.state = "live" =>
            /\ c.inbox = << >> => known = Upto(k, c.cursor, l, b)
            /\ InboxOf(c, known, b) = Upto(k, c.cursor, l, b)
  BY Zenon DEF ReadsOK
<1>7. f.type = "snapshot" => c.inbox = << >> /\ known = {}
  BY <1>1, <1>6
<1>8. Waiting(q) <= Capacity
  <2>1. CASE f.type = "snapshot"
    <3>1. Len(q) = 1 /\ Head(q) = f
      BY <1>3, <1>4, <1>7, <2>1
    <3>3. Len(Pending(q)) = 1
      BY <1>4, <2>1, <3>1, PendingLength
    <3>2. Waiting(q) = 0
      BY <3>1, <3>3 DEF Waiting
    <3> QED
      BY <1>3, <3>2
  <2>2. CASE f.type = "change"
    <3>1. Pending(q) = Pending(c.inbox)
      <4>1. CASE c.inbox = << >>
        <5>1. Head(q) = f
          BY <1>3, <1>4, <4>1
        <5> QED
          BY <2>2, <4>1, <5>1 DEF Pending
      <4>2. CASE c.inbox # << >>
        <5>1. Head(q) = Head(c.inbox)
          BY <1>3, <1>4, <4>2
        <5> QED
          BY <1>4, <4>2, <5>1, Zenon DEF Pending
      <4> QED
        BY <4>1, <4>2
    <3>2. ~(Len(c.inbox) - Len(Pending(c.inbox)) >= Capacity)
      BY <2>2, Zenon DEF Waiting
    <3>3. Len(Pending(c.inbox)) \in {0, 1}
      BY <1>3, PendingLength
    <3>4. ASSUME NEW x \in Nat, NEW y \in Nat, NEW p \in {0, 1}, NEW m \in Nat, ~(x - p >= m), y = x + 1
          PROVE  y - p <= m
      BY <3>4
    <3>5. Len(q) \in Nat
      BY <1>4
    <3>6. Len(q) - Len(Pending(c.inbox)) <= Capacity
      BY <1>3, <1>4, <3>2, <3>3, <3>4, <3>5, Zenon
    <3> QED
      BY <3>1, <3>6, Zenon DEF Waiting
  <2> QED
    BY <1>1, <2>1, <2>2
<1>9. ASSUME NEW i \in DOMAIN q
      PROVE  /\ q[i].type \in {"snapshot", "change"} /\ Sound(q[i], k, l, b)
             /\ q[i].type = "snapshot" => i = 1
             /\ i > 1 => q[i].previous = q[i - 1].cursor
  <2>1. CASE i \in DOMAIN c.inbox
    <3>1. q[i] = c.inbox[i]
      BY <1>3, <1>4, <2>1
    <3>2. i > 1 => i - 1 \in 1 .. Len(c.inbox)
      BY <1>3, <2>1
    <3>3. i > 1 => q[i - 1] = c.inbox[i - 1]
      BY <1>4, <3>2
    <3> QED
      BY <1>6, <2>1, <3>1, <3>3
  <2>2. CASE i \notin DOMAIN c.inbox
    <3>1. i = Len(q) /\ i = Len(c.inbox) + 1
      BY <1>3, <1>4, <2>2
    <3>2. f.type = "snapshot" => i = 1
      BY <1>3, <1>7, <3>1
    <3>3. ASSUME i > 1 PROVE f.previous = q[i - 1].cursor
      <4>1. c.inbox # << >> /\ i - 1 = Len(c.inbox) /\ i - 1 \in 1 .. Len(c.inbox)
        BY <1>3, <3>1, <3>3
      <4>2. q[i - 1] = c.inbox[Len(c.inbox)] /\ f.type = "change"
        BY <1>1, <1>4, <1>7, <4>1
      <4> QED
        BY <1>1, <1>6, <4>1, <4>2
    <3> QED
      BY <1>1, <1>2, <1>4, <3>1, <3>2, <3>3
  <2> QED
    BY <2>1, <2>2
<1>10. q[Len(q)].cursor = f.cursor
  BY <1>4
<1>11. known = IF q[1].type = "snapshot" THEN {} ELSE Upto(k, q[1].previous, l, b)
  <2>1. CASE c.inbox = << >>
    <3>1. q[1] = f
      BY <1>3, <1>4, <2>1
    <3> QED
      BY <1>1, <1>6, <1>7, <2>1, <3>1
  <2>2. CASE c.inbox # << >>
    <3>1. q[1] = c.inbox[1]
      BY <1>3, <1>4, <2>2
    <3> QED
      BY <1>6, <2>2, <3>1
  <2> QED
    BY <2>1, <2>2
<1>12. InboxOf(e, known, b) = Upto(k, f.cursor, l, b)
  <2>1. Told(q, b) = Told(c.inbox, b) \cup (IF f.type = "change" THEN {Place(b, f.cursor)} ELSE {})
    BY <1>2, <1>3, ToldMore DEF q
  <2>2. CASE f.type = "snapshot"
    <3>1. Head(q) = f /\ Told(c.inbox, b) = {}
      BY <1>3, <1>4, <1>7, <2>2, ToldNothing
    <3>2. InboxOf(e, known, b) = f.items \cup Told(q, b)
      BY <1>4, <1>5, <2>2, <3>1, Zenon DEF InboxOf
    <3> QED
      BY <1>1, <2>1, <2>2, <3>1, <3>2
  <2>3. CASE f.type = "change"
    <3> DEFINE front == IF c.inbox # << >> /\ Head(c.inbox).type = "snapshot" THEN Head(c.inbox).items ELSE known
    <3>1. InboxOf(e, known, b) = front \cup Told(q, b)
      <4>1. CASE c.inbox = << >>
        <5>1. Head(q) = f
          BY <1>3, <1>4, <4>1
        <5> QED
          BY <1>5, <2>3, <4>1, <5>1 DEF InboxOf
      <4>2. CASE c.inbox # << >>
        <5>1. Head(q) = Head(c.inbox)
          BY <1>3, <1>4, <4>2
        <5> QED
          BY <1>4, <1>5, <4>2, <5>1, Zenon DEF InboxOf
      <4> QED
        BY <4>1, <4>2
    <3>2. InboxOf(c, known, b) = front \cup Told(c.inbox, b)
      BY Zenon DEF InboxOf
    <3> HIDE DEF front
    <3>3. front \cup Told(c.inbox, b) = Upto(k, c.cursor, l, b)
      BY <1>1, <1>6, <2>3, <3>2
    <3> QED
      BY <1>1, <2>1, <2>3, <3>1, <3>3
  <2> QED
    BY <1>1, <2>2, <2>3
<1>13. ReadsOK(e, known, over, k, l, b)
  BY <1>1, <1>4, <1>5, <1>6, <1>8, <1>9, <1>10, <1>11, <1>12, Zenon DEF ReadsOK
<1> QED
  BY <1>5, <1>13

\* The reader takes the first frame of its inbox.
LEMMA TakenByReader ==
  ASSUME NEW c \in Clients, NEW known, NEW over, NEW k, NEW l, NEW b,
         ReadsOK(c, known, over, k, l, b), c.inbox # << >>, ~c.waiting,
         NEW r, r = Tail(c.inbox), NEW e, e = [c EXCEPT !.inbox = r], NEW f, f = Head(c.inbox)
  PROVE  /\ e \in Clients /\ e.state = c.state /\ e.cursor = c.cursor
         /\ Inside(f.cursor, l, b) /\ Learnt(f, known, b) = Upto(k, f.cursor, l, b)
         /\ ReadsOK(e, Learnt(f, known, b), over, k, l, b)
<1> DEFINE q == c.inbox
<1>1. q \in Seq(Frames) /\ Len(q) \in Nat /\ Len(q) > 0 /\ DOMAIN q = 1 .. Len(q) /\ Capacity \in Nat /\ q # << >>
  BY RoomAssumption DEF Clients
<1>2. /\ ~c.alarm /\ (c.state # "live" => q = << >>)
      /\ Waiting(q) <= Capacity
      /\ \A i \in DOMAIN q :
            /\ q[i].type \in {"snapshot", "change"} /\ Sound(q[i], k, l, b)
            /\ q[i].type = "snapshot" => i = 1
            /\ i > 1 => q[i].previous = q[i - 1].cursor
      /\ q # << >> =>
            /\ q[Len(q)].cursor = c.cursor
            /\ known = IF q[1].type = "snapshot" THEN {} ELSE Upto(k, q[1].previous, l, b)
      /\ c.state = "live" =>
            /\ Inside(c.cursor, l, b)
            /\ InboxOf(c, known, b) = Upto(k, c.cursor, l, b)
  BY Zenon DEF ReadsOK
<1>3. e \in Clients /\ e.inbox = r /\ e.state = c.state /\ e.cursor = c.cursor /\ e.waiting = c.waiting /\ e.alarm = c.alarm
  <2>1. r \in Seq(Frames)
    BY <1>1
  <2> QED
    BY <2>1 DEF Clients
<1>4. /\ r \in Seq(Frames) /\ Len(r) = Len(q) - 1 /\ Len(r) \in Nat /\ DOMAIN r = 1 .. Len(r)
      /\ \A i \in 1 .. Len(r) : r[i] = q[i + 1]
      /\ f = q[1] /\ 1 \in DOMAIN q /\ Head(q) = f
  BY <1>1
<1>5. Told(q, b) = Told(r, b) \cup (IF q[1].type = "change" THEN {Place(b, q[1].cursor)} ELSE {})
  <2>1. q \in Seq(Frames) /\ q # << >> /\ r = Tail(q)
    BY <1>1
  <2> HIDE DEF q
  <2> QED
    BY <2>1, ToldFirst
<1>6. InboxOf(c, known, b) = (IF f.type = "snapshot" THEN f.items ELSE known) \cup Told(q, b)
  BY <1>1, <1>4, Zenon DEF InboxOf
<1> HIDE DEF q
<1>7. /\ f.type \in {"snapshot", "change"} /\ Sound(f, k, l, b)
      /\ known = IF f.type = "snapshot" THEN {} ELSE Upto(k, f.previous, l, b)
  BY <1>1, <1>2, <1>4
<1>8. Inside(f.cursor, l, b) /\ Learnt(f, known, b) = Upto(k, f.cursor, l, b)
  BY <1>7 DEF Sound, Learnt
<1>9. \A i \in 1 .. Len(r) : i + 1 \in DOMAIN q /\ i + 1 > 1 /\ i + 1 # 1 /\ (i + 1) - 1 = i
  BY <1>1, <1>4
<1>10. ASSUME NEW i \in DOMAIN r
       PROVE  /\ r[i].type = "change" /\ Sound(r[i], k, l, b)
              /\ r[i].previous = q[i].cursor
              /\ i > 1 => r[i].previous = r[i - 1].cursor
  <2>1. i \in 1 .. Len(r) /\ r[i] = q[i + 1]
    BY <1>4
  <2>2. i + 1 \in DOMAIN q /\ i + 1 > 1 /\ i + 1 # 1 /\ (i + 1) - 1 = i
    BY <1>9, <2>1
  <2>3. i > 1 => i - 1 \in 1 .. Len(r) /\ (i - 1) + 1 = i
    BY <1>4, <2>1
  <2>4. i > 1 => r[i - 1] = q[i]
    BY <1>4, <2>3
  <2> QED
    BY <1>2, <2>1, <2>2, <2>4
<1>11. Waiting(r) <= Capacity
  <2>1. Pending(r) = << >>
    <3>1. r # << >> => 1 \in DOMAIN r /\ Head(r) = r[1]
      BY <1>4
    <3>2. r # << >> => Head(r).type = "change"
      BY <1>10, <3>1
    <3> QED
      BY <3>2 DEF Pending
  <2>2. Len(Pending(q)) \in {0, 1} /\ Len(q) - Len(Pending(q)) <= Capacity
    BY <1>1, <1>2, PendingLength DEF Waiting
  <2>3. ASSUME NEW x \in Nat, NEW p \in {0, 1}, NEW m \in Nat, x - p <= m PROVE x - 1 <= m
    BY <2>3
  <2>4. Len(r) <= Capacity
    BY <1>1, <1>4, <2>2, <2>3
  <2>5. Waiting(r) = Len(r)
    <3>1. Len(Pending(r)) = 0
      BY <2>1
    <3>2. Waiting(r) = Len(r) - Len(Pending(r))
      BY Zenon DEF Waiting
    <3>3. Len(r) \in Nat
      BY <1>4, Zenon
    <3>4. \A x \in Nat : x - 0 = x
      OBVIOUS
    <3> QED
      BY <3>1, <3>2, <3>3, <3>4, Zenon
  <2> QED
    BY <2>4, <2>5
<1>12. r # << >> => /\ r[Len(r)].cursor = c.cursor
                    /\ r[1].type = "change" /\ r[1].previous = f.cursor /\ Head(r) = r[1]
  <2>1. ASSUME r # << >>
        PROVE  Len(r) \in 1 .. Len(r) /\ Len(r) + 1 = Len(q) /\ 1 \in DOMAIN r
    BY <1>4, <2>1
  <2>2. r # << >> => Head(r) = r[1]
    BY <1>4
  <2> QED
    BY <1>1, <1>2, <1>4, <1>10, <2>1, <2>2
<1>13. r = << >> => f.cursor = c.cursor
  <2>1. ASSUME r = << >> PROVE Len(q) = 1
    <3>1. Len(<< >>) = 0
      OBVIOUS
    <3>2. Len(r) = 0
      BY <2>1, <3>1, Zenon
    <3> QED
      BY <1>1, <1>4, <3>2
  <2> QED
    BY <1>1, <1>2, <1>4, <2>1
<1>14. InboxOf(e, Learnt(f, known, b), b) = Learnt(f, known, b) \cup Told(r, b)
  BY <1>3, <1>12 DEF InboxOf
<1>15. Learnt(f, known, b) \cup Told(r, b) = (IF f.type = "snapshot" THEN f.items ELSE known) \cup Told(q, b)
  BY <1>4, <1>5, <1>7 DEF Learnt
<1>16. c.state = "live"
  BY <1>1, <1>2
<1>17. ReadsOK(e, Learnt(f, known, b), over, k, l, b)
  <2>1. \A i \in DOMAIN r :
            /\ r[i].type \in {"snapshot", "change"} /\ Sound(r[i], k, l, b) /\ r[i].type # "snapshot"
            /\ i > 1 => r[i].previous = r[i - 1].cursor
    BY <1>10
  <2>2. InboxOf(e, Learnt(f, known, b), b) = Upto(k, c.cursor, l, b)
    BY <1>2, <1>6, <1>14, <1>15, <1>16
  <2>3. r # << >> => r[Len(r)].cursor = c.cursor
                     /\ Learnt(f, known, b) = IF r[1].type = "snapshot" THEN {} ELSE Upto(k, r[1].previous, l, b)
    BY <1>8, <1>12
  <2>4. r = << >> => Learnt(f, known, b) = Upto(k, c.cursor, l, b)
    BY <1>8, <1>13
  <2>5. "live" \notin {"idle", "opening"}
    OBVIOUS
  <2> QED
    BY <1>2, <1>3, <1>11, <1>16, <2>1, <2>2, <2>3, <2>4, <2>5, Zenon DEF ReadsOK
<1> QED
  BY <1>3, <1>8, <1>17

-----------------------------------------------------------------------------
(* The steps of a client.                                                  *)

\* What is known of a watch before its step.
LEMMA BeforeStep ==
  ASSUME WInv, NEW w \in Watches
  PROVE  /\ IInv /\ Typed /\ LogOK /\ StateOK
         /\ srv[w] \in Streams /\ cl[w] \in Clients /\ seen[w] \in SUBSET Nat /\ told[w] \in BOOLEAN
         /\ StreamOK(srv[w], cl[w], KindOf[w], log, base) /\ Fed(srv[w], w)
         /\ ReadsOK(cl[w], seen[w], told[w], KindOf[w], log, base)
<1>1. IInv /\ Typed /\ LogOK /\ StateOK
  BY Zenon DEF WInv, IInv
<1>2. StreamOK(srv[w], cl[w], KindOf[w], log, base) /\ Fed(srv[w], w)
      /\ ReadsOK(cl[w], seen[w], told[w], KindOf[w], log, base)
  BY Zenon DEF WInv, WatchOK
<1> QED
  BY <1>1, <1>2 DEF Typed

\* A step that leaves the store alone and the stream as live as it was.
LEMMA ClientStep ==
  ASSUME WInv, IInv', NEW w \in Watches,
         NEW t \in Streams, NEW c \in Clients, NEW known \in SUBSET Nat, NEW over \in BOOLEAN,
         srv' = [srv EXCEPT ![w] = t], cl' = [cl EXCEPT ![w] = c],
         seen' = [seen EXCEPT ![w] = known], told' = [told EXCEPT ![w] = over], UNCHANGED storeVars,
         StreamOK(t, c, KindOf[w], log, base), ReadsOK(c, known, over, KindOf[w], log, base),
         Live(t) <=> Live(srv[w]), Live(srv[w]) => LastIn(t) = LastIn(srv[w])
  PROVE  WInv'
<1>1. Fed(srv[w], w)
  BY BeforeStep
<1>2. log' = log /\ base' = base /\ subscribed' = subscribed /\ previous' = previous
  BY DEF storeVars, audit, subs
<1>3. (w \in subscribed' <=> Live(t)) /\ (w \in subscribed' => previous'[w] = LastIn(t))
  BY <1>1, <1>2, Zenon DEF Fed
<1> QED
  BY <1>2, <1>3, WatchStep

\* The step that leaves a watch with this stream, client and reader.
Becomes(w, t, c, known, over) ==
    /\ srv' = [srv EXCEPT ![w] = t] /\ cl' = [cl EXCEPT ![w] = c]
    /\ seen' = [seen EXCEPT ![w] = known] /\ told' = [told EXCEPT ![w] = over]

LEMMA StepTo ==
  ASSUME WInv, IInv', UNCHANGED storeVars, NEW w \in Watches,
         NEW t \in Streams, NEW c \in Clients, NEW known \in SUBSET Nat, NEW over \in BOOLEAN,
         Becomes(w, t, c, known, over),
         StreamOK(t, c, KindOf[w], log, base), ReadsOK(c, known, over, KindOf[w], log, base),
         Live(t) <=> Live(srv[w]), Live(srv[w]) => LastIn(t) = LastIn(srv[w])
  PROVE  WInv'
<1>1. /\ srv' = [srv EXCEPT ![w] = t] /\ cl' = [cl EXCEPT ![w] = c]
      /\ seen' = [seen EXCEPT ![w] = known] /\ told' = [told EXCEPT ![w] = over]
  BY Zenon DEF Becomes
<1> QED
  BY <1>1, ClientStep

LEMMA ReadFromStream ==
  ASSUME WInv, NEW w \in Watches, srv[w].out # << >>, NEW next, next.state \notin {"idle", "opening"},
         next.state = "live" => srv[w].out[1].type # "error" /\ next.cursor = Leaves(srv[w].out[1])
  PROVE  /\ ReadFrom(srv[w]) \in Streams /\ StreamOK(ReadFrom(srv[w]), next, KindOf[w], log, base)
         /\ Live(ReadFrom(srv[w])) <=> Live(srv[w])
         /\ Live(srv[w]) => LastIn(ReadFrom(srv[w])) = LastIn(srv[w])
<1> DEFINE u == [srv[w] EXCEPT !.out = Tail(@)]
<1>1. /\ IInv /\ StateOK /\ srv[w] \in Streams
      /\ StreamOK(srv[w], cl[w], KindOf[w], log, base) /\ Fed(srv[w], w)
  BY BeforeStep
<1>2. u \in Streams /\ StreamOK(u, next, KindOf[w], log, base) /\ (Live(u) <=> Live(srv[w])) /\ LastIn(u) = LastIn(srv[w])
  BY <1>1, ReadStream
<1>3. ReadFrom(srv[w]) = Pump(u, cursor)
  BY Zenon DEF ReadFrom
<1> HIDE DEF u
<1>4. ASSUME Live(u) PROVE cursor.epoch = LastIn(u).epoch /\ cursor.position >= LastIn(u).position
  <2>1. w \in subscribed /\ previous[w] = LastIn(u)
    BY <1>1, <1>2, <1>4, Zenon DEF Fed
  <2> QED
    BY <1>1, <2>1, StoreAhead
<1>5. cursor \in Cursor
  BY <1>1 DEF StateOK
<1>6. /\ Pump(u, cursor) \in Streams /\ StreamOK(Pump(u, cursor), next, KindOf[w], log, base)
      /\ Live(Pump(u, cursor)) <=> Live(u)
      /\ Live(u) => LastIn(Pump(u, cursor)) = LastIn(u)
  BY <1>2, <1>4, <1>5, PumpedStream
<1> QED
  BY <1>2, <1>3, <1>6, Zenon

\* selectTerminal() on a watch whose stream is t after it.
LEMMA EndsStep ==
  ASSUME WInv, IInv', NEW w \in Watches, NEW next \in {"lost", "closed"}, Ends(w, next, FALSE),
         NEW t \in Streams, srv' = [srv EXCEPT ![w] = t], UNCHANGED storeVars,
         StreamOK(t, Ended(cl[w], next), KindOf[w], log, base),
         Live(t) <=> Live(srv[w]), Live(srv[w]) => LastIn(t) = LastIn(srv[w])
  PROVE  WInv'
<1> DEFINE c == Ended(cl[w], next)
           over == told[w] \/ cl[w].waiting
<1>1. Typed /\ cl[w] \in Clients /\ seen[w] \in SUBSET Nat /\ told[w] \in BOOLEAN
  BY BeforeStep
<1>2. cl' = [cl EXCEPT ![w] = c] /\ told' = [told EXCEPT ![w] = over] /\ seen' = seen
  BY Zenon DEF Ends, Ended
<1>3. over \in BOOLEAN
  OBVIOUS
<1>4. seen' = [seen EXCEPT ![w] = seen[w]]
  BY <1>1, <1>2 DEF Typed
<1>5. c \in Clients /\ ReadsOK(c, seen[w], over, KindOf[w], log, base)
  BY <1>1, EndedClient
<1> HIDE DEF c, over
<1>6. StreamOK(t, c, KindOf[w], log, base)
  BY DEF c
<1> QED
  BY <1>1, <1>2, <1>3, <1>4, <1>5, <1>6, ClientStep

LEMMA EndsQuietly ==
  ASSUME WInv, IInv', NEW w \in Watches, NEW next \in {"lost", "closed"}, Ends(w, next, FALSE),
         UNCHANGED <<storeVars, srv, serving>>
  PROVE  WInv'
<1>1. /\ Typed /\ srv[w] \in Streams /\ cl[w] \in Clients
      /\ StreamOK(srv[w], cl[w], KindOf[w], log, base)
  BY BeforeStep
<1>2. srv' = [srv EXCEPT ![w] = srv[w]] /\ UNCHANGED storeVars
  BY <1>1 DEF Typed
<1>3. Ended(cl[w], next).state = next
  BY <1>1, EndedClient
<1>4. Meets(srv[w], Ended(cl[w], next))
  BY <1>3 DEF Meets
<1>5. StreamOK(srv[w], Ended(cl[w], next), KindOf[w], log, base)
  BY <1>1, <1>4, Zenon DEF StreamOK
<1> QED
  BY <1>1, <1>2, <1>5, EndsStep

LEMMA EndOfStreamInv == ASSUME WInv, IInv', NEW w \in Watches, EndOfStream(w) PROVE WInv'
<1>1. Ends(w, "lost", FALSE) /\ UNCHANGED <<storeVars, srv, serving>>
  BY Zenon DEF EndOfStream
<1> QED
  BY <1>1, EndsQuietly

LEMMA StopInv == ASSUME WInv, IInv', NEW w \in Watches, Stop(w) PROVE WInv'
<1>1. (Ends(w, "lost", FALSE) \/ Ends(w, "closed", FALSE)) /\ UNCHANGED <<storeVars, srv, serving>>
  BY Zenon DEF Stop
<1> QED
  BY <1>1, EndsQuietly

LEMMA ConnectInv == ASSUME WInv, IInv', NEW w \in Watches, Connect(w) PROVE WInv'
<1>1. /\ Typed /\ srv[w] \in Streams /\ cl[w] \in Clients /\ seen[w] \in SUBSET Nat /\ told[w] \in BOOLEAN
      /\ StreamOK(srv[w], cl[w], KindOf[w], log, base)
      /\ ReadsOK(cl[w], seen[w], told[w], KindOf[w], log, base)
  BY BeforeStep
<1>2. /\ cl[w].state = "idle" /\ cl' = [cl EXCEPT ![w].state = "opening"]
      /\ UNCHANGED <<storeVars, srv, seen, told, serving>>
  BY Zenon DEF Connect
<1> DEFINE c == [cl[w] EXCEPT !.state = "opening"]
<1>3. /\ cl' = [cl EXCEPT ![w] = c] /\ srv' = [srv EXCEPT ![w] = srv[w]]
      /\ seen' = [seen EXCEPT ![w] = seen[w]] /\ told' = [told EXCEPT ![w] = told[w]] /\ UNCHANGED storeVars
  BY <1>1, <1>2 DEF Typed
<1>4. /\ c \in Clients /\ c.state = "opening" /\ c.cursor = cl[w].cursor /\ c.inbox = cl[w].inbox
      /\ c.waiting = cl[w].waiting /\ c.alarm = cl[w].alarm
  BY <1>1 DEF Clients
<1> HIDE DEF c
<1>5. ReadsOK(c, seen[w], told[w], KindOf[w], log, base)
  <2>1. InboxOf(c, seen[w], base) = InboxOf(cl[w], seen[w], base)
    BY <1>4, Zenon DEF InboxOf
  <2>2. "idle" # "live" /\ "opening" # "live" /\ "idle" \notin {"opening", "live"}
        /\ "idle" \in {"idle", "opening"} /\ "opening" \in {"idle", "opening"}
    OBVIOUS
  <2>3. ~cl[w].waiting
    BY <1>1, <1>2, <2>2, Zenon DEF ReadsOK
  <2> QED
    BY <1>1, <1>2, <1>4, <2>1, <2>2, <2>3, Zenon DEF ReadsOK
<1>6. Meets(srv[w], c)
  BY <1>1, <1>2, <1>4 DEF StreamOK, Meets
<1>7. StreamOK(srv[w], c, KindOf[w], log, base)
  BY <1>1, <1>6, Zenon DEF StreamOK
<1> QED
  BY <1>1, <1>3, <1>4, <1>5, <1>7, ClientStep

\* The frame that readPump() parses next is one its checks allow.
LEMMA ParsedFrame ==
  ASSUME WInv, NEW w \in Watches, cl[w].state \in {"opening", "live"}, srv[w].out # << >>,
         NEW f, f = Head(srv[w].out)
  PROVE  /\ f = srv[w].out[1] /\ f \in Frames
         /\ f.type \in {"snapshot", "change", "heartbeat", "error"}
         /\ f.type = "heartbeat" =>
               cl[w].state = "live" /\ Confirms(f, cl[w].cursor) /\ cl[w].cursor = Leaves(f)
         /\ f.type = "snapshot" => cl[w].state # "live" /\ Accepts(f, cl[w], KindOf[w], log, base)
         /\ f.type = "change" =>
               /\ cl[w].state = "live" /\ Continues(f, cl[w].cursor)
               /\ Accepts(f, cl[w], KindOf[w], log, base)
<1>1. /\ srv[w] \in Streams /\ cl[w] \in Clients
      /\ StreamOK(srv[w], cl[w], KindOf[w], log, base)
  BY BeforeStep
<1>2. srv[w].out \in Seq(Frames)
  BY <1>1 DEF Streams
<1>3. f = srv[w].out[1] /\ 1 \in DOMAIN srv[w].out /\ f \in Frames
  BY <1>2
<1>4. f.type \in {"snapshot", "change", "heartbeat", "error"}
  BY <1>3, FrameFields
<1>5. Sound(f, KindOf[w], log, base)
  BY <1>1, <1>3, Zenon DEF StreamOK, WireOK
<1>6. /\ cl[w].state = "live" => f.type # "snapshot" /\ (f.type = "error" \/ Enters(f) = cl[w].cursor)
      /\ cl[w].state = "opening" => f.type = "snapshot"
  BY <1>1, <1>3 DEF StreamOK, Meets
<1>7. ASSUME f.type = "heartbeat"
      PROVE  cl[w].state = "live" /\ Confirms(f, cl[w].cursor) /\ cl[w].cursor = Leaves(f)
  <2>1. cl[w].state = "live" /\ f.delivered = cl[w].cursor
    BY <1>6, <1>7 DEF Enters
  <2> QED
    BY <1>5, <1>7, <2>1 DEF Sound, Confirms, Leaves
<1>8. ASSUME f.type = "change"
      PROVE  /\ cl[w].state = "live" /\ Continues(f, cl[w].cursor)
             /\ Accepts(f, cl[w], KindOf[w], log, base)
  <2>1. cl[w].state = "live" /\ f.previous = cl[w].cursor
    BY <1>6, <1>8 DEF Enters
  <2> QED
    BY <1>3, <1>5, <1>8, <2>1 DEF Sound, Continues, Accepts
<1>9. ASSUME f.type = "snapshot"
      PROVE  cl[w].state # "live" /\ Accepts(f, cl[w], KindOf[w], log, base)
  BY <1>3, <1>5, <1>6, <1>9 DEF Accepts
<1> QED
  BY <1>3, <1>4, <1>7, <1>8, <1>9

LEMMA DeliveredStep ==
  ASSUME WInv, IInv', NEW w \in Watches, srv[w].out # << >>,
         NEW f, f = srv[w].out[1], Accepts(f, cl[w], KindOf[w], log, base), Delivered(w, f),
         srv' = [srv EXCEPT ![w] = ReadFrom(srv[w])], UNCHANGED storeVars
  PROVE  WInv'
<1>1. /\ Typed /\ LogOK /\ cl[w] \in Clients /\ seen[w] \in SUBSET Nat /\ told[w] \in BOOLEAN
      /\ ReadsOK(cl[w], seen[w], told[w], KindOf[w], log, base)
  BY BeforeStep
<1>2. f.type \in {"snapshot", "change"} /\ Inside(f.cursor, log, base)
  BY <1>1, AcceptedFrame
<1>3. Leaves(f) = f.cursor
  BY <1>2 DEF Leaves
<1> DEFINE t == ReadFrom(srv[w])
<1>4. ASSUME NEW e, e.state \notin {"idle", "opening"}, e.state = "live" => e.cursor = f.cursor
      PROVE  /\ t \in Streams /\ StreamOK(t, e, KindOf[w], log, base)
             /\ Live(t) <=> Live(srv[w])
             /\ Live(srv[w]) => LastIn(t) = LastIn(srv[w])
  BY <1>2, <1>3, <1>4, ReadFromStream
<1> HIDE DEF t
<1>5. srv' = [srv EXCEPT ![w] = t]
  BY DEF t
<1>6. CASE cl[w].waiting
  <2> DEFINE e == [cl[w] EXCEPT !.state = "live", !.cursor = f.cursor, !.waiting = FALSE]
             known == Learnt(f, seen[w], base)
  <2>1. /\ cl' = [cl EXCEPT ![w] = [@ EXCEPT !.state = "live", !.cursor = f.cursor, !.waiting = FALSE]]
        /\ seen' = [seen EXCEPT ![w] = Known(f, @)] /\ UNCHANGED told
    BY <1>6, Zenon DEF Delivered
  <2>2. seen' = [seen EXCEPT ![w] = known] /\ told' = [told EXCEPT ![w] = told[w]]
    BY <1>1, <2>1, KnownLearnt DEF Typed
  <2>3. cl' = [cl EXCEPT ![w] = e]
    BY <2>1
  <2>4. GivesTo(cl[w], f, e)
    BY DEF GivesTo
  <2> HIDE DEF e
  <2>5. /\ e \in Clients /\ e.state = "live" /\ e.cursor = f.cursor
        /\ Learnt(f, seen[w], base) = Upto(KindOf[w], f.cursor, log, base)
        /\ ReadsOK(e, Learnt(f, seen[w], base), told[w], KindOf[w], log, base)
    BY <1>1, <1>6, <2>4, GivenToReader
  <2>6. known \in SUBSET Nat
    BY <1>1, <1>2, <2>5, UptoTyped
  <2>7. /\ t \in Streams /\ StreamOK(t, e, KindOf[w], log, base)
        /\ Live(t) <=> Live(srv[w])
        /\ Live(srv[w]) => LastIn(t) = LastIn(srv[w])
    BY <1>4, <2>5
  <2>8. ReadsOK(e, known, told[w], KindOf[w], log, base)
    BY <2>5
  <2> HIDE DEF known
  <2>9. Becomes(w, t, e, known, told[w])
    BY <1>5, <2>2, <2>3, Zenon DEF Becomes
  <2> QED
    BY <1>1, <2>5, <2>6, <2>7, <2>8, <2>9, StepTo
<1>7. CASE ~cl[w].waiting /\ f.type = "change" /\ Waiting(cl[w].inbox) >= Capacity
  <2>1. Ends(w, "lost", FALSE)
    BY <1>7, Zenon DEF Delivered
  <2>2. PICK g : g = Ended(cl[w], "lost")
    OBVIOUS
  <2>3. g.state = "lost"
    BY <1>1, <2>2, EndedClient
  <2>4. /\ t \in Streams /\ StreamOK(t, g, KindOf[w], log, base)
        /\ Live(t) <=> Live(srv[w])
        /\ Live(srv[w]) => LastIn(t) = LastIn(srv[w])
    BY <1>4, <2>3
  <2> QED
    BY <1>5, <2>1, <2>2, <2>4, EndsStep
<1>8. CASE ~cl[w].waiting /\ ~(f.type = "change" /\ Waiting(cl[w].inbox) >= Capacity)
  <2> DEFINE e == [cl[w] EXCEPT !.state = "live", !.cursor = f.cursor, !.inbox = Append(@, f)]
  <2>1. /\ cl' = [cl EXCEPT ![w] = [@ EXCEPT !.state = "live", !.cursor = f.cursor,
                                             !.inbox = Append(cl[w].inbox, f)]]
        /\ UNCHANGED <<seen, told>>
    BY <1>8, Zenon DEF Delivered
  <2>2. seen' = [seen EXCEPT ![w] = seen[w]] /\ told' = [told EXCEPT ![w] = told[w]]
    BY <1>1, <2>1 DEF Typed
  <2>3. cl' = [cl EXCEPT ![w] = e]
    <3>1. cl' = [cl EXCEPT ![w] = [cl[w] EXCEPT !.state = "live", !.cursor = f.cursor,
                                                !.inbox = Append(cl[w].inbox, f)]]
      BY <2>1
    <3>2. e = [cl[w] EXCEPT !.state = "live", !.cursor = f.cursor, !.inbox = Append(cl[w].inbox, f)]
      OBVIOUS
    <3> QED
      BY <3>1, <3>2, Zenon
  <2>4. Keeps(cl[w], f, e)
    BY Zenon DEF Keeps
  <2> HIDE DEF e
  <2>5. e \in Clients /\ e.state = "live" /\ e.cursor = f.cursor /\ ReadsOK(e, seen[w], told[w], KindOf[w], log, base)
    BY <1>1, <1>8, <2>4, KeptForReader
  <2>7. /\ t \in Streams /\ StreamOK(t, e, KindOf[w], log, base)
        /\ Live(t) <=> Live(srv[w])
        /\ Live(srv[w]) => LastIn(t) = LastIn(srv[w])
    BY <1>4, <2>5
  <2>9. Becomes(w, t, e, seen[w], told[w])
    BY <1>5, <2>2, <2>3, Zenon DEF Becomes
  <2> QED
    BY <1>1, <2>5, <2>7, <2>9, StepTo
<1> QED
  BY <1>6, <1>7, <1>8, Zenon

LEMMA ParseInv == ASSUME WInv, IInv', NEW w \in Watches, Parse(w) PROVE WInv'
<1> DEFINE f == Head(srv[w].out)
           c == cl[w]
<1>1. /\ c.state \in {"opening", "live"} /\ srv[w].out # << >>
      /\ srv' = [srv EXCEPT ![w] = ReadFrom(@)]
      /\ \/ f.type = "error" /\ Ends(w, "lost", FALSE)
         \/ f.type = "heartbeat"
            /\ IF c.state = "live" /\ Confirms(f, c.cursor) THEN UNCHANGED <<cl, seen, told>> ELSE Ends(w, "lost", TRUE)
         \/ f.type = "snapshot"
            /\ IF c.state = "live" THEN Ends(w, "lost", TRUE) ELSE Delivered(w, f)
         \/ f.type = "change"
            /\ IF c.state = "live" /\ Continues(f, c.cursor) THEN Delivered(w, f) ELSE Ends(w, "lost", TRUE)
      /\ UNCHANGED <<storeVars, serving>>
  BY Zenon DEF Parse
<1>2. /\ Typed /\ cl[w] \in Clients /\ seen[w] \in SUBSET Nat /\ told[w] \in BOOLEAN
      /\ ReadsOK(cl[w], seen[w], told[w], KindOf[w], log, base)
  BY BeforeStep
<1>3. srv' = [srv EXCEPT ![w] = ReadFrom(srv[w])] /\ UNCHANGED storeVars
  BY <1>1
<1>4. PICK g : g = f
  OBVIOUS
<1>5. /\ g = srv[w].out[1] /\ g \in Frames
      /\ g.type \in {"snapshot", "change", "heartbeat", "error"}
      /\ g.type = "heartbeat" => c.state = "live" /\ Confirms(g, c.cursor) /\ c.cursor = Leaves(g)
      /\ g.type = "snapshot" => c.state # "live" /\ Accepts(g, cl[w], KindOf[w], log, base)
      /\ g.type = "change" =>
            /\ c.state = "live" /\ Continues(g, c.cursor)
            /\ Accepts(g, cl[w], KindOf[w], log, base)
  BY <1>1, <1>4, ParsedFrame
<1>6. CASE g.type = "error"
  <2>1. Ends(w, "lost", FALSE)
    BY <1>1, <1>4, <1>6
  <2>2. PICK e : e = Ended(cl[w], "lost")
    OBVIOUS
  <2>3. e.state = "lost"
    BY <1>2, <2>2, EndedClient
  <2>4. /\ ReadFrom(srv[w]) \in Streams /\ StreamOK(ReadFrom(srv[w]), e, KindOf[w], log, base)
        /\ Live(ReadFrom(srv[w])) <=> Live(srv[w])
        /\ Live(srv[w]) => LastIn(ReadFrom(srv[w])) = LastIn(srv[w])
    BY <1>1, <2>3, ReadFromStream
  <2> QED
    BY <1>3, <2>1, <2>2, <2>4, EndsStep
<1>7. CASE g.type = "heartbeat"
  <2>1. UNCHANGED <<cl, seen, told>>
    BY <1>1, <1>4, <1>5, <1>7
  <2>2. /\ cl' = [cl EXCEPT ![w] = cl[w]] /\ seen' = [seen EXCEPT ![w] = seen[w]]
        /\ told' = [told EXCEPT ![w] = told[w]]
    BY <1>2, <2>1 DEF Typed
  <2>3. /\ ReadFrom(srv[w]) \in Streams /\ StreamOK(ReadFrom(srv[w]), cl[w], KindOf[w], log, base)
        /\ Live(ReadFrom(srv[w])) <=> Live(srv[w])
        /\ Live(srv[w]) => LastIn(ReadFrom(srv[w])) = LastIn(srv[w])
    BY <1>1, <1>5, <1>7, ReadFromStream
  <2> QED
    BY <1>2, <1>3, <2>2, <2>3, ClientStep
<1>8. CASE g.type \in {"snapshot", "change"}
  <2>1. Delivered(w, g) /\ Accepts(g, cl[w], KindOf[w], log, base)
    BY <1>1, <1>4, <1>5, <1>8
  <2> QED
    BY <1>1, <1>3, <1>5, <2>1, DeliveredStep
<1> QED
  BY <1>5, <1>6, <1>7, <1>8

LEMMA ReadNextInv == ASSUME WInv, IInv', NEW w \in Watches, ReadNext(w) PROVE WInv'
<1>1. /\ Typed /\ LogOK /\ srv[w] \in Streams /\ cl[w] \in Clients /\ seen[w] \in SUBSET Nat /\ told[w] \in BOOLEAN
      /\ StreamOK(srv[w], cl[w], KindOf[w], log, base)
      /\ ReadsOK(cl[w], seen[w], told[w], KindOf[w], log, base)
  BY BeforeStep
<1>2. cl[w].state # "idle" /\ ~cl[w].waiting /\ ~told[w] /\ UNCHANGED <<storeVars, srv, serving>>
  BY Zenon DEF ReadNext
<1>3. srv' = [srv EXCEPT ![w] = srv[w]] /\ UNCHANGED storeVars
  BY <1>1, <1>2 DEF Typed
\* A client with the state and the cursor of this one meets the stream as it does.
<1>4. ASSUME NEW e, e.state = cl[w].state, e.cursor = cl[w].cursor
      PROVE  StreamOK(srv[w], e, KindOf[w], log, base)
  BY <1>1, <1>4, Zenon DEF StreamOK, Meets
<1>5. CASE cl[w].inbox # << >>
  <2> DEFINE f == Head(cl[w].inbox)
             r == Tail(cl[w].inbox)
             known == Learnt(f, seen[w], base)
             e == [cl[w] EXCEPT !.inbox = r]
  <2>1. /\ seen' = [seen EXCEPT ![w] = Known(f, @)] /\ cl' = [cl EXCEPT ![w].inbox = Tail(@)] /\ UNCHANGED told
    BY <1>2, <1>5, Zenon DEF ReadNext
  <2>2. seen' = [seen EXCEPT ![w] = known] /\ told' = [told EXCEPT ![w] = told[w]] /\ cl' = [cl EXCEPT ![w] = e]
    BY <1>1, <2>1, KnownLearnt DEF Typed
  <2>3. PICK g : g = e
    OBVIOUS
  <2>4. PICK h : h = f
    OBVIOUS
  <2>5. PICK q : q = r
    OBVIOUS
  <2>6. /\ g \in Clients /\ g.state = cl[w].state /\ g.cursor = cl[w].cursor
        /\ Inside(h.cursor, log, base) /\ Learnt(h, seen[w], base) = Upto(KindOf[w], h.cursor, log, base)
        /\ ReadsOK(g, Learnt(h, seen[w], base), told[w], KindOf[w], log, base)
    BY <1>1, <1>2, <1>5, <2>3, <2>4, <2>5, TakenByReader
  <2>7. Learnt(h, seen[w], base) \in SUBSET Nat
    BY <1>1, <2>6, UptoTyped
  <2>8. seen' = [seen EXCEPT ![w] = Learnt(h, seen[w], base)] /\ cl' = [cl EXCEPT ![w] = g]
    BY <2>2, <2>3, <2>4
  <2>9. StreamOK(srv[w], g, KindOf[w], log, base)
    BY <1>4, <2>6
  <2>10. Becomes(w, srv[w], g, Learnt(h, seen[w], base), told[w])
    BY <1>3, <2>2, <2>8 DEF Becomes
  <2> HIDE DEF f, r, known, e
  <2> QED
    BY <1>1, <1>3, <2>6, <2>7, <2>9, <2>10, StepTo
<1>6. CASE cl[w].inbox = << >> /\ Gone(w)
  <2>1. told' = [told EXCEPT ![w] = TRUE] /\ UNCHANGED <<cl, seen>>
    BY <1>2, <1>6, Zenon DEF ReadNext
  <2>2. cl' = [cl EXCEPT ![w] = cl[w]] /\ seen' = [seen EXCEPT ![w] = seen[w]]
    BY <1>1, <2>1 DEF Typed
  <2>3. ReadsOK(cl[w], seen[w], TRUE, KindOf[w], log, base)
    BY <1>1, <1>2, Zenon DEF ReadsOK
  <2> QED
    BY <1>1, <1>3, <2>1, <2>2, <2>3, ClientStep
<1>7. CASE cl[w].inbox = << >> /\ ~Gone(w)
  <2> DEFINE e == [cl[w] EXCEPT !.waiting = TRUE]
  <2>1. cl' = [cl EXCEPT ![w].waiting = TRUE] /\ UNCHANGED <<seen, told>>
    BY <1>2, <1>7, Zenon DEF ReadNext
  <2>2. cl' = [cl EXCEPT ![w] = e] /\ seen' = [seen EXCEPT ![w] = seen[w]] /\ told' = [told EXCEPT ![w] = told[w]]
    BY <1>1, <2>1 DEF Typed
  <2>3. /\ e \in Clients /\ e.state = cl[w].state /\ e.cursor = cl[w].cursor /\ e.inbox = cl[w].inbox
        /\ e.alarm = cl[w].alarm
    BY <1>1 DEF Clients
  <2> HIDE DEF e
  <2>4. cl[w].state \in {"opening", "live"}
    BY <1>1, <1>2, <1>7 DEF Gone, Clients
  <2>5. InboxOf(e, seen[w], base) = InboxOf(cl[w], seen[w], base)
    BY <2>3, Zenon DEF InboxOf
  <2>6. ReadsOK(e, seen[w], told[w], KindOf[w], log, base)
    BY <1>1, <1>2, <1>7, <2>3, <2>4, <2>5, Zenon DEF ReadsOK
  <2>7. StreamOK(srv[w], e, KindOf[w], log, base)
    BY <1>4, <2>3
  <2> QED
    BY <1>1, <1>3, <2>2, <2>3, <2>6, <2>7, ClientStep
<1> QED
  BY <1>5, <1>6, <1>7

-----------------------------------------------------------------------------
(* The theorems.                                                           *)

LEMMA WatchInit == Init => WInv
<1> SUFFICES ASSUME Init PROVE WInv
  OBVIOUS
<1>1. /\ InitStore
      /\ srv = [w \in Watches |-> [phase |-> "none", queue |-> << >>, beat |-> FALSE,
                                   delivered |-> Start, out |-> << >>, eof |-> FALSE]]
      /\ cl = [w \in Watches |-> [state |-> "idle", cursor |-> Start, inbox |-> << >>,
                                  waiting |-> FALSE, alarm |-> FALSE]]
      /\ seen = [w \in Watches |-> {}] /\ told = [w \in Watches |-> FALSE]
  BY Zenon DEF Init
<1>2. IInv
  BY <1>1, StoreInit
<1>3. Start \in Cursor /\ << >> \in Seq(Frames)
  BY DEF Start, Cursor
<1>4. Typed
  BY <1>1, <1>3 DEF Typed, Streams, Clients
<1>5. Len(<< >>) = 0 /\ DOMAIN << >> = {} /\ Capacity \in Nat /\ WireRoom \in Nat
  BY RoomAssumption
<1>6. Pending(<< >>) = << >> /\ Waiting(<< >>) <= Capacity
  BY <1>5 DEF Pending, Waiting
<1>7. ASSUME NEW w \in Watches PROVE WatchOK(w)
  <2> DEFINE s == srv[w]
             c == cl[w]
  <2>1. /\ s.phase = "none" /\ s.queue = << >> /\ s.beat = FALSE /\ s.out = << >>
        /\ c.state = "idle" /\ c.inbox = << >> /\ c.waiting = FALSE /\ c.alarm = FALSE
        /\ seen[w] = {} /\ told[w] = FALSE
    BY <1>1
  <2> HIDE DEF s, c
  <2>2. QueueOK(s, KindOf[w], log, base)
    BY <1>5, <1>6, <2>1 DEF QueueOK
  <2>3. WireOK(s, KindOf[w], log, base)
    BY <1>5, <1>6, <2>1 DEF WireOK
  <2>4. Meets(s, c)
    BY <2>1 DEF Meets
  <2>5. ReadsOK(c, seen[w], told[w], KindOf[w], log, base)
    BY <1>5, <1>6, <2>1 DEF ReadsOK
  <2>6. subscribed = {} /\ ~Live(s)
    BY <1>1, <2>1 DEF InitStore, Live
  <2> QED
    BY <2>2, <2>3, <2>4, <2>5, <2>6 DEF WatchOK, StreamOK, Fed, s, c
<1> QED
  BY <1>2, <1>4, <1>7, Zenon DEF WInv

LEMMA IdleInv == WInv /\ IInv' /\ UNCHANGED vars => WInv'
<1> SUFFICES ASSUME WInv, IInv', UNCHANGED vars PROVE WInv'
  OBVIOUS
<1>1. /\ srv' = srv /\ cl' = cl /\ seen' = seen /\ told' = told
      /\ log' = log /\ base' = base /\ subscribed' = subscribed /\ previous' = previous
  BY DEF vars, storeVars, audit, subs
<1>2. Typed'
  BY <1>1, Zenon DEF WInv, Typed
<1>3. ASSUME NEW w \in Watches PROVE WatchOK(w)'
  <2>1. WatchOK(w)
    BY Zenon DEF WInv
  <2> QED
    BY <1>1, <2>1, Zenon DEF WatchOK, Fed
<1> QED
  BY <1>2, <1>3, Zenon DEF WInv

LEMMA WatchInvStep == WInv /\ [Next]_vars => WInv'
<1> SUFFICES ASSUME WInv, [Next]_vars PROVE WInv'
  OBVIOUS
<1>1. IInv
  BY Zenon DEF WInv
<1>2. StoreNext \/ UNCHANGED storeVars
  <2>1. CASE UNCHANGED vars
    BY <2>1 DEF vars
  <2>2. CASE Next
    BY <2>2, SourceUsesStore, WatchUsesStore, Zenon DEF Next
  <2> QED
    BY <2>1, <2>2
<1>3. IInv'
  BY <1>1, <1>2, StoreStep
<1>4. CASE Source \/ ReleaseStreams \/ CloseSource
  BY <1>3, <1>4, SourceInv, ReleaseInv, CloseInv
<1>5. ASSUME NEW w \in Watches,
             \/ Connect(w) \/ Open(w) \/ Beat(w) \/ Disconnect(w)
             \/ Parse(w) \/ EndOfStream(w) \/ Stop(w) \/ ReadNext(w)
      PROVE  WInv'
  BY <1>3, <1>5, ConnectInv, OpenInv, BeatInv, DisconnectInv, ParseInv, EndOfStreamInv, StopInv, ReadNextInv
<1>6. CASE UNCHANGED vars
  BY <1>3, <1>6, IdleInv
<1> QED
  BY <1>4, <1>5, <1>6, Zenon DEF Next

LEMMA WatchInductive == Spec => []WInv
  BY WatchInit, WatchInvStep, PTL DEF Spec

\* The streams, clients and readers keep their types and their bounds: no
\* queue grows beyond its capacity and no wire beyond its room (pump, enqueue,
\* deliver).
THEOREM WatchTypeCorrect == Spec => []TypeOK
<1>1. WInv => TypeOK
  <2> SUFFICES ASSUME WInv PROVE TypeOK
    OBVIOUS
  <2>1. StoreTypeOK
    BY StoreTyped, Zenon DEF WInv
  <2>2. Typed
    BY Zenon DEF WInv
  <2>3. ASSUME NEW w \in Watches
        PROVE  /\ srv[w].phase \in {"none", "open", "closed"}
               /\ Len(srv[w].out) <= WireRoom /\ Waiting(srv[w].queue) <= Capacity
               /\ cl[w].state \in {"idle", "opening", "live", "lost", "closed"}
               /\ Waiting(cl[w].inbox) <= Capacity
    <3>1. srv[w] \in Streams /\ cl[w] \in Clients
      BY <2>2 DEF Typed
    <3>2. srv[w].phase \in {"none", "open", "closed"} /\ cl[w].state \in {"idle", "opening", "live", "lost", "closed"}
      BY <3>1 DEF Streams, Clients
    <3> QED
      BY <3>2, Zenon DEF WInv, WatchOK, StreamOK, QueueOK, WireOK, ReadsOK
  <2>4. DOMAIN srv = Watches /\ DOMAIN cl = Watches
    BY <2>2 DEF Typed
  <2> QED
    BY <2>1, <2>2, <2>3, <2>4, Zenon DEF TypeOK, Typed
<1> QED
  BY <1>1, WatchInductive, PTL

\* A subscriber of the store has a stream that can still use what it is handed
\* (attach, detach, fail).
THEOREM SubscribersServed == Spec => []SubscriptionsAreServed
<1>1. WInv => SubscriptionsAreServed
  <2> SUFFICES ASSUME WInv, NEW w \in subscribed PROVE srv[w].phase = "open" /\ ~IsOver(srv[w].queue)
    BY Zenon DEF SubscriptionsAreServed
  <2>1. IInv
    BY Zenon DEF WInv
  <2>2. w \in Watches
    BY <2>1 DEF IInv, StateOK, Watches
  <2> QED
    BY <2>2, Zenon DEF WInv, WatchOK, Fed, Live
<1> QED
  BY <1>1, WatchInductive, PTL

\* The client never suspects a stream that serves it well (readPump).
THEOREM NoAlarm == Spec => []NoFalseAlarm
<1>1. WInv => NoFalseAlarm
  BY Zenon DEF WInv, WatchOK, ReadsOK, NoFalseAlarm
<1> QED
  BY <1>1, WatchInductive, PTL

\* The reader of a live watch misses nothing up to the cursor of its client,
\* whatever records were lost, whichever queue was full and whatever broke.
THEOREM NothingMissed == Spec => []ReaderMissesNothing
<1>1. WInv => ReaderMissesNothing
  <2> SUFFICES ASSUME WInv, NEW w \in Watches, cl[w].state = "live"
               PROVE  Inbox(w) = ItemsAt(KindOf[w], Index(cl[w].cursor))
    BY Zenon DEF ReaderMissesNothing
  <2>1. InboxOf(cl[w], seen[w], base) = Upto(KindOf[w], cl[w].cursor, log, base)
    BY Zenon DEF WInv, WatchOK, ReadsOK
  <2>2. Inbox(w) = InboxOf(cl[w], seen[w], base)
    BY DEF Inbox, InboxOf, Told, Index, Place
  <2>3. ItemsAt(KindOf[w], Index(cl[w].cursor)) = Upto(KindOf[w], cl[w].cursor, log, base)
    BY DEF ItemsAt, Upto, HeldOf, Index, Place
  <2> QED
    BY <2>1, <2>2, <2>3
<1> QED
  BY <1>1, WatchInductive, PTL

-----------------------------------------------------------------------------
(* The refinement: what a reader knows advances with the log, and stops     *)
(* when it has been told.                                                  *)

\* The log grows by one mutation at a time.
LEMMA LogGrowsByOne ==
  ASSUME SourceStep \/ Close
  PROVE  log' = log \/ \E k \in Kinds : log' = Append(log, k)
<1>1. ASSUME NEW k \in Kinds, (\E valid \in BOOLEAN : AuditChange(k, valid)) \/ ChangeLost(k)
      PROVE  log' = Append(log, k)
  BY <1>1, Zenon DEF AuditChange, ChangeLost
<1>2. ASSUME NEW valid \in BOOLEAN, Reidentify(valid) PROVE log' = log
  BY <1>2, Zenon DEF Reidentify
<1>3. ASSUME ChangeRepeated \/ (\E p \in 0 .. Position : Checkpoint(p)) \/ Close PROVE UNCHANGED audit
  <2>1. CASE Close
    <3>1. UNCHANGED <<audit, cursor, previous>>
      BY <2>1, Zenon DEF Close
    <3> QED
      BY <3>1
  <2> QED
    BY <1>3, <2>1, Zenon DEF ChangeRepeated, Checkpoint
<1> QED
  BY <1>1, <1>2, <1>3 DEF SourceStep, audit

\* The frame that goes to a reader takes it to a later moment of the log.
Learns(w, f) ==
    /\ f.type \in {"snapshot", "change"} /\ Sound(f, KindOf[w], log, base) /\ ~told[w]
    /\ seen[w] = IF f.type = "snapshot" THEN {} ELSE Upto(KindOf[w], f.previous, log, base)
    /\ seen' = [seen EXCEPT ![w] = Learnt(f, seen[w], base)] /\ UNCHANGED <<log, told>>

LEMMA LearntIsLater ==
  ASSUME LogOK, NEW w \in Watches, NEW f, Learns(w, f)
  PROVE  Promise!Advance(w)
<1> DEFINE n == Place(base, f.cursor)
<1>1. /\ Inside(f.cursor, log, base)
      /\ f.type = "snapshot" => f.items = Upto(KindOf[w], f.cursor, log, base)
      /\ f.type = "change" =>
            Upto(KindOf[w], f.cursor, log, base) = Upto(KindOf[w], f.previous, log, base) \cup {n}
  BY DEF Learns, Sound
<1>2. n \in 0 .. Len(log)
  <2>1. f.cursor \in Cursor /\ f.cursor.epoch \in 1 .. Len(base) /\ n <= Len(log)
    BY <1>1 DEF Inside, Cursor, LogOK
  <2>2. n \in Nat /\ Len(log) \in Nat
    BY <2>1 DEF Place, Cursor, LogOK
  <2> QED
    BY <2>1, <2>2
<1>3. Learnt(f, seen[w], base) = Upto(KindOf[w], f.cursor, log, base)
      /\ seen[w] \subseteq Upto(KindOf[w], f.cursor, log, base)
  BY <1>1 DEF Learns, Learnt
<1>4. Promise!Held(w, n) = Upto(KindOf[w], f.cursor, log, base)
  BY DEF Promise!Held, Upto, HeldOf
<1> HIDE DEF n
<1>5. seen' = [seen EXCEPT ![w] = Promise!Held(w, n)] /\ seen[w] \subseteq Promise!Held(w, n)
  BY <1>3, <1>4 DEF Learns
<1>6. ~told[w] /\ UNCHANGED <<log, told>>
  BY DEF Learns
<1> QED
  BY <1>2, <1>5, <1>6, Zenon DEF Promise!Advance

\* What a step of one watch does to what its reader was told and knows.
LEMMA EndsPromise ==
  ASSUME WInv, NEW w \in Watches, NEW next, NEW alarm, Ends(w, next, alarm), log' = log
  PROVE  Promise!End(w) \/ UNCHANGED <<log, seen, told>>
<1>1. told \in [Watches -> BOOLEAN] /\ (cl[w].waiting => ~told[w])
  BY Zenon DEF WInv, Typed, WatchOK, ReadsOK
<1>2. told' = [told EXCEPT ![w] = told[w] \/ cl[w].waiting] /\ seen' = seen
  BY Zenon DEF Ends
<1>3. CASE cl[w].waiting
  <2>1. told' = [told EXCEPT ![w] = TRUE] /\ ~told[w]
    BY <1>1, <1>2, <1>3
  <2>2. UNCHANGED <<log, seen>>
    BY <1>2
  <2> QED
    BY <2>1, <2>2, Zenon DEF Promise!End
<1>4. CASE ~cl[w].waiting
  <2>1. told' = told
    BY <1>1, <1>2, <1>4
  <2> QED
    BY <1>2, <2>1
<1> QED
  BY <1>3, <1>4

LEMMA DeliveredPromise ==
  ASSUME WInv, NEW w \in Watches, NEW f, Accepts(f, cl[w], KindOf[w], log, base),
         Delivered(w, f), log' = log
  PROVE  Promise!Advance(w) \/ Promise!End(w) \/ UNCHANGED <<log, seen, told>>
<1>1. /\ LogOK /\ Typed /\ cl[w] \in Clients
      /\ ReadsOK(cl[w], seen[w], told[w], KindOf[w], log, base)
  BY BeforeStep
<1>2. CASE cl[w].waiting
  <2>1. seen' = [seen EXCEPT ![w] = Known(f, seen[w])] /\ UNCHANGED told
    BY <1>2, Zenon DEF Delivered
  <2>2. seen' = [seen EXCEPT ![w] = Learnt(f, seen[w], base)] /\ UNCHANGED <<log, told>>
    BY <2>1, KnownLearnt
  <2>3. f.type \in {"snapshot", "change"} /\ Sound(f, KindOf[w], log, base)
    BY DEF Accepts
  <2>4. /\ cl[w].inbox = << >> /\ ~told[w]
        /\ cl[w].state = "live" => seen[w] = Upto(KindOf[w], cl[w].cursor, log, base)
        /\ cl[w].state \in {"idle", "opening"} => seen[w] = {}
    BY <1>1, <1>2, Zenon DEF ReadsOK
  <2>5. seen[w] = IF f.type = "snapshot" THEN {} ELSE Upto(KindOf[w], f.previous, log, base)
    BY <2>4 DEF Accepts
  <2>6. Learns(w, f)
    BY <1>1, <2>2, <2>3, <2>4, <2>5, Zenon DEF Learns
  <2> QED
    BY <1>1, <2>6, LearntIsLater, Zenon
<1>3. CASE ~cl[w].waiting /\ f.type = "change" /\ Waiting(cl[w].inbox) >= Capacity
  <2>1. Ends(w, "lost", FALSE)
    BY <1>3, Zenon DEF Delivered
  <2> QED
    BY <2>1, EndsPromise
<1>4. CASE ~cl[w].waiting /\ ~(f.type = "change" /\ Waiting(cl[w].inbox) >= Capacity)
  <2>1. UNCHANGED <<seen, told>>
    BY <1>4, Zenon DEF Delivered
  <2> QED
    BY <2>1
<1> QED
  BY <1>2, <1>3, <1>4, Zenon

LEMMA ParsePromise ==
  ASSUME WInv, NEW w \in Watches, Parse(w), log' = log
  PROVE  Promise!Advance(w) \/ Promise!End(w) \/ UNCHANGED <<log, seen, told>>
<1> DEFINE f == Head(srv[w].out)
<1>1. /\ cl[w].state \in {"opening", "live"} /\ srv[w].out # << >>
      /\ \/ \E alarm \in BOOLEAN : Ends(w, "lost", alarm)
         \/ UNCHANGED <<cl, seen, told>>
         \/ f.type \in {"snapshot", "change"} /\ Delivered(w, f)
  BY DEF Parse
<1>2. PICK g : g = f
  OBVIOUS
<1>3. g.type \in {"snapshot", "change"} => Accepts(g, cl[w], KindOf[w], log, base)
  BY <1>1, <1>2, ParsedFrame
<1>4. CASE \E alarm \in BOOLEAN : Ends(w, "lost", alarm)
  BY <1>4, EndsPromise, Zenon
<1>5. CASE UNCHANGED <<cl, seen, told>>
  BY <1>5
<1>6. CASE f.type \in {"snapshot", "change"} /\ Delivered(w, f)
  <2>1. Delivered(w, g) /\ Accepts(g, cl[w], KindOf[w], log, base)
    BY <1>2, <1>3, <1>6
  <2> HIDE DEF f
  <2> QED
    BY <2>1, DeliveredPromise
<1> QED
  BY <1>1, <1>4, <1>5, <1>6, Zenon

LEMMA ReadNextPromise ==
  ASSUME WInv, NEW w \in Watches, ReadNext(w), log' = log
  PROVE  Promise!Advance(w) \/ Promise!End(w) \/ UNCHANGED <<log, seen, told>>
<1>1. /\ LogOK /\ Typed /\ cl[w] \in Clients
      /\ ReadsOK(cl[w], seen[w], told[w], KindOf[w], log, base) /\ ~told[w]
  BY BeforeStep, Zenon DEF ReadNext
<1>2. CASE cl[w].inbox # << >>
  <2> DEFINE f == Head(cl[w].inbox)
  <2>1. seen' = [seen EXCEPT ![w] = Known(f, seen[w])] /\ UNCHANGED told
    BY <1>2, Zenon DEF ReadNext
  <2>2. seen' = [seen EXCEPT ![w] = Learnt(f, seen[w], base)] /\ UNCHANGED <<log, told>>
    BY <2>1, KnownLearnt
  <2>3. f = cl[w].inbox[1] /\ 1 \in DOMAIN cl[w].inbox
    BY <1>1, <1>2 DEF Clients
  <2> HIDE DEF f
  <2>4. f.type \in {"snapshot", "change"} /\ Sound(f, KindOf[w], log, base)
    BY <1>1, <2>3, Zenon DEF ReadsOK
  <2>5. seen[w] = IF f.type = "snapshot" THEN {} ELSE Upto(KindOf[w], f.previous, log, base)
    BY <1>1, <1>2, <2>3, Zenon DEF ReadsOK
  <2>6. Learns(w, f)
    BY <1>1, <2>2, <2>4, <2>5, Zenon DEF Learns
  <2> QED
    BY <1>1, <2>6, LearntIsLater, Zenon
<1>3. CASE cl[w].inbox = << >> /\ Gone(w)
  <2>1. told' = [told EXCEPT ![w] = TRUE] /\ UNCHANGED <<cl, seen>>
    BY <1>3, Zenon DEF ReadNext
  <2>2. UNCHANGED <<log, seen>>
    BY <2>1
  <2> QED
    BY <1>1, <2>1, <2>2, Zenon DEF Promise!End
<1>4. CASE cl[w].inbox = << >> /\ ~Gone(w)
  <2>1. UNCHANGED <<seen, told>>
    BY <1>4, Zenon DEF ReadNext
  <2> QED
    BY <2>1
<1> QED
  BY <1>2, <1>3, <1>4, Zenon

\* The watches implement what a watch promises (WatchedLog): a reader goes from
\* one moment of the log to a later one and leaves nothing out, until it is
\* told of the end (createHubEventWatchStream, createHubEventWatch).
THEOREM PromiseKept == Spec => ReadsTheLog
<1>1. Init => Promise!Init
  BY Zenon DEF Init, InitStore, Promise!Init
<1>2. WInv /\ [Next]_vars => [Promise!Next]_<<log, seen, told>>
  <2> SUFFICES ASSUME WInv, [Next]_vars PROVE Promise!Next \/ UNCHANGED <<log, seen, told>>
    OBVIOUS
  <2>1. CASE Source \/ CloseSource
    <3>1. (SourceStep \/ Close) /\ UNCHANGED <<cl, seen, told, serving>>
      BY <2>1, Zenon DEF Source, CloseSource
    <3>2. CASE log' = log
      BY <3>1, <3>2
    <3>3. CASE \E k \in Kinds : log' = Append(log, k)
      <4>1. UNCHANGED <<seen, told>>
        BY <3>1
      <4> QED
        BY <3>3, <4>1, Zenon DEF Promise!Next, Promise!Append1
    <3> QED
      BY <3>1, <3>2, <3>3, LogGrowsByOne, Zenon
  <2>2. CASE ReleaseStreams
    <3>1. UNCHANGED <<cl, seen, told>> /\ \E S : Unsubscribe(S)
      BY <2>2, Zenon DEF ReleaseStreams
    <3> QED
      BY <3>1 DEF Unsubscribe, audit
  <2>3. ASSUME NEW w \in Watches, Connect(w) \/ Open(w) \/ Beat(w) \/ Disconnect(w)
        PROVE  UNCHANGED <<log, seen, told>>
    <3>1. CASE Connect(w)
      BY <3>1 DEF Connect, storeVars, audit
    <3>2. CASE Beat(w)
      <4>1. UNCHANGED <<storeVars, cl, seen, told, serving>>
        BY <3>2, Zenon DEF Beat
      <4> QED
        BY <4>1 DEF storeVars, audit
    <3>3. CASE Open(w)
      <4>1. (Subscribe(w) \/ UNCHANGED storeVars) /\ UNCHANGED <<cl, seen, told, serving>>
        BY <3>3, Zenon DEF Open
      <4> QED
        BY <4>1 DEF Subscribe, storeVars, audit
    <3>4. CASE Disconnect(w)
      <4>1. Unsubscribe({w}) /\ UNCHANGED <<cl, seen, told, serving>>
        BY <3>4, Zenon DEF Disconnect
      <4> QED
        BY <4>1 DEF Unsubscribe, audit
    <3> QED
      BY <2>3, <3>1, <3>2, <3>3, <3>4, Zenon
  <2>4. ASSUME NEW w \in Watches, Parse(w) \/ EndOfStream(w) \/ Stop(w) \/ ReadNext(w)
        PROVE  Promise!Advance(w) \/ Promise!End(w) \/ UNCHANGED <<log, seen, told>>
    <3>1. log' = log
      <4>1. UNCHANGED <<storeVars, serving>> \/ UNCHANGED <<storeVars, srv, serving>>
        BY <2>4, Zenon DEF Parse, EndOfStream, Stop, ReadNext
      <4> QED
        BY <4>1 DEF storeVars, audit
    <3>2. CASE EndOfStream(w) \/ Stop(w)
      <4>1. \E next : Ends(w, next, FALSE)
        BY <3>2, Zenon DEF EndOfStream, Stop
      <4> QED
        BY <3>1, <4>1, EndsPromise, Zenon
    <3> QED
      BY <2>4, <3>1, <3>2, ParsePromise, ReadNextPromise, Zenon
  <2>5. CASE UNCHANGED vars
    BY <2>5 DEF vars, storeVars, audit
  <2>6. ASSUME NEW w \in Watches, Promise!Advance(w) \/ Promise!End(w) PROVE Promise!Next
    BY <2>6, Zenon DEF Promise!Next
  <2> QED
    BY <2>1, <2>2, <2>3, <2>4, <2>5, <2>6, Zenon DEF Next
<1> QED
  BY <1>1, <1>2, WatchInductive, PTL DEF Spec, ReadsTheLog, Promise!Spec

=============================================================================
