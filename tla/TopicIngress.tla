---------------------------- MODULE TopicIngress ----------------------------
(***************************************************************************)
(* One topic of a hub: the uploads and instance outputs that are piped into *)
(* it one after the other, and the readers it is piped to (topic.ts).      *)
(*                                                                         *)
(* Node's streams are modelled from how Topic uses them.  Of the marks that *)
(* the constructor gives, highWaterMark takes precedence, so the writable   *)
(* side has the same as the readable one: both are full with Cap chunks.    *)
(* One chunk at a time is in _transform(); those written meanwhile wait in  *)
(* the writable side until its callback, also when their source has ended.  *)
(* A source's chunks are <<source, number>>; the newline that is added to   *)
(* an ndjson source is one more.                                           *)
(***************************************************************************)
EXTENDS Naturals, Sequences

CONSTANTS
    Sources,      \* requests and instance outputs
    Chunks,       \* the most chunks that each gives
    Readers,      \* destinations of Topic.pipe()
    Cap,          \* highWaterMark, in chunks
    None,
    MaxDetached   \* bound: how often readers leave

ASSUME TopicAssumption ==
    /\ Chunks \in Nat \ {0} /\ Cap \in Nat \ {0} /\ MaxDetached \in Nat
    /\ None \notin Sources \cup (Sources \X (1 .. Chunks + 1))

VARIABLES
    source,       \* each source: new, open, ended or broken
    written,      \* its chunks written so far
    pipeQueue,    \* _pipeQueue
    consuming,    \* the source whose end _consuming awaits, or None
    active,       \* _activeIngress: its source, or None
    firstSeen,    \* _activeIngress.firstChunkSeen
    waiting,      \* the writable side: chunks before _transform()
    full,         \* it reached its mark and has not drained: sources pause
    held,         \* _pendingIngress: a chunk that waits for a reader, or None
    stall,        \* of a chunk that filled the readable side: none, pending
                  \* (its callback is _pendingTransform), kept (by Transform)
    buffer,       \* the readable side
    targets,      \* _pipeTargets
    destroyed,
    received,     \* what each reader got
    dropped,      \* history: chunks discarded for want of a reader
    accepted,     \* history: the order in which sources were accepted
    behind,       \* history: sources whose turn came before the writable side
                  \* was empty
    detached      \* history: readers that left

ingress == <<pipeQueue, consuming, active, firstSeen, behind>>
streams == <<waiting, full, held, stall, buffer, received, dropped>>
vars == <<source, written, ingress, streams, targets, destroyed, accepted, detached>>

Init ==
    /\ source = [s \in Sources |-> "new"] /\ written = [s \in Sources |-> 0]
    /\ pipeQueue = <<>> /\ consuming = None /\ active = None /\ firstSeen = FALSE
    /\ waiting = <<>> /\ full = FALSE /\ held = None /\ stall = "none" /\ buffer = <<>>
    /\ targets = {} /\ destroyed = FALSE
    /\ received = [r \in Readers |-> <<>>]
    /\ dropped = {} /\ accepted = <<>> /\ behind = {} /\ detached = 0

-----------------------------------------------------------------------------
(* The two sides of the stream.                                            *)

\* A chunk is in _transform() until its callback.
InTransform == held # None \/ stall # "none"

\* Readers rs get the chunks.
Received(rs, chunks) ==
    received' = [r \in Readers |-> IF r \in rs THEN received[r] \o chunks ELSE received[r]]

\* Mutant: the writer is held up one chunk late.
PushLate(chunks, rs) ==
    \E k \in 0 .. Len(chunks), n \in 0 .. Len(chunks) :
        /\ k <= n /\ (k > 0 => buffer = <<>>)
        /\ n = Len(chunks) \/ Len(buffer) + n - k = Cap + 1
        /\ Len(buffer) + n - k <= Cap + 1
        /\ Received(rs, SubSeq(chunks, 1, k))
        /\ buffer' = buffer \o SubSeq(chunks, k + 1, n)
        /\ stall' = IF Len(buffer') > Cap THEN "pending" ELSE "none"
        /\ waiting' = SubSeq(chunks, n + 1, Len(chunks))

\* Chunks are pushed to readers rs, one after the other: with nothing buffered
\* those that the readers are ready for go to them at once, the others into the
\* readable side until the one that fills it, which stays in _transform().
Push(chunks, rs) ==
    \E k \in 0 .. Len(chunks), n \in 0 .. Len(chunks) :
        /\ k <= n /\ (k > 0 => buffer = <<>>)
        /\ n = Len(chunks) \/ Len(buffer) + n - k = Cap
        /\ Len(buffer) + n - k <= Cap
        /\ Received(rs, SubSeq(chunks, 1, k))
        /\ buffer' = buffer \o SubSeq(chunks, k + 1, n)
        /\ stall' = IF Len(buffer') = Cap THEN "pending" ELSE "none"
        /\ waiting' = SubSeq(chunks, n + 1, Len(chunks))

\* write(): behind a chunk in _transform() it waits.  Otherwise _transform()
\* pushes it to the readers; without any, the first of an active ingress is held
\* and any other discarded.
WriteChunk(s) ==
    LET chunk == <<s, written[s] + 1>>
        first == active # None /\ ~firstSeen
    IN /\ written' = [written EXCEPT ![s] = @ + 1]
       /\ IF InTransform
          THEN waiting' = Append(waiting, chunk) /\ UNCHANGED <<held, stall, buffer, received, dropped>>
          ELSE \/ targets # {} /\ Push(<<chunk>>, targets) /\ UNCHANGED <<held, dropped>>
               \/ targets = {} /\ first /\ held' = chunk
                  /\ UNCHANGED <<waiting, stall, buffer, received, dropped>>
               \/ targets = {} /\ ~first /\ dropped' = dropped \cup {chunk}
                  /\ UNCHANGED <<waiting, held, stall, buffer, received>>
       /\ full' = (InTransform' /\ (full \/ Len(waiting') + 1 >= Cap))

\* What _transform() makes of firstChunkSeen when it takes a chunk.
SeenOnWrite == firstSeen \/ (active # None /\ ~InTransform)

-----------------------------------------------------------------------------
(* Sources.                                                                *)

\* The turn of a source: it is piped and becomes the active ingress.
Turns(s) ==
    /\ consuming' = s /\ active' = s /\ firstSeen' = FALSE
    /\ behind' = IF waiting' = <<>> THEN behind ELSE behind \cup {s}

\* Mutant: the queue is a stack.
AcceptLifo(s) ==
    /\ ~destroyed /\ source[s] = "new"
    /\ source' = [source EXCEPT ![s] = "open"]
    /\ accepted' = Append(accepted, s)
    /\ UNCHANGED streams
    /\ IF consuming = None
       THEN Turns(s) /\ UNCHANGED pipeQueue
       ELSE pipeQueue' = <<s>> \o pipeQueue /\ UNCHANGED <<consuming, active, firstSeen, behind>>
    /\ UNCHANGED <<written, targets, destroyed, detached>>

\* acceptPipe(): the source is queued, and consumed now if none is.
Accept(s) ==
    /\ ~destroyed /\ source[s] = "new"
    /\ source' = [source EXCEPT ![s] = "open"]
    /\ accepted' = Append(accepted, s)
    /\ UNCHANGED streams
    /\ IF consuming = None
       THEN Turns(s) /\ UNCHANGED pipeQueue
       ELSE pipeQueue' = Append(pipeQueue, s) /\ UNCHANGED <<consuming, active, firstSeen, behind>>
    /\ UNCHANGED <<written, targets, destroyed, detached>>

\* Mutant: the queue is left alone until the next source is accepted.
ConsumeNextLater(seen) ==
    /\ consuming' = None
    /\ active' = IF active = consuming /\ held' = None THEN None ELSE active
    /\ firstSeen' = seen /\ UNCHANGED <<pipeQueue, behind>>

\* consumePipe() goes on.  The source of a held chunk stays the active one
\* until the next source takes its place.
ConsumeNext(seen) ==
    IF pipeQueue # <<>>
    THEN Turns(Head(pipeQueue)) /\ pipeQueue' = Tail(pipeQueue)
    ELSE /\ consuming' = None
         /\ active' = IF active = consuming /\ held' = None THEN None ELSE active
         /\ firstSeen' = seen /\ UNCHANGED <<pipeQueue, behind>>

\* A pipe writes a chunk, unless the writable side has paused it.
Write(s) ==
    /\ ~destroyed /\ consuming = s /\ source[s] = "open" /\ written[s] < Chunks /\ ~full
    /\ WriteChunk(s) /\ firstSeen' = SeenOnWrite
    /\ UNCHANGED <<source, pipeQueue, consuming, active, behind, targets, destroyed, accepted, detached>>

\* "end", also while chunks of the source wait or it is paused.  In an ndjson
\* topic a newline is written then if the last line has none, or if there is no
\* line, full or not.
End(s) ==
    /\ ~destroyed /\ consuming = s /\ source[s] = "open"
    /\ source' = [source EXCEPT ![s] = "ended"]
    /\ \/ UNCHANGED <<written, streams>> /\ ConsumeNext(firstSeen)
       \/ WriteChunk(s) /\ ConsumeNext(SeenOnWrite)
    /\ UNCHANGED <<targets, destroyed, accepted, detached>>

\* A source fails, is aborted or closes before its end.  With its first chunk
\* held it destroys the topic; one that waits in the queue is not listened to.
Break(s) ==
    /\ ~destroyed /\ source[s] = "open"
    /\ source' = [source EXCEPT ![s] = "broken"]
    /\ UNCHANGED <<written, waiting, full, stall, buffer, received, dropped, targets, accepted, detached>>
    /\ IF held # None /\ held[1] = s
       THEN destroyed' = TRUE /\ held' = None /\ UNCHANGED ingress
       ELSE /\ UNCHANGED <<destroyed, held>>
            /\ IF consuming = s THEN ConsumeNext(firstSeen) ELSE UNCHANGED ingress

-----------------------------------------------------------------------------
(* Readers.                                                                *)

\* Mutant: whatever is active now is taken for the source of the held chunk.
AttachClearsActive(r) ==
    /\ ~destroyed /\ r \notin targets
    /\ targets' = targets \cup {r}
    /\ IF held = None THEN UNCHANGED <<streams, active, firstSeen>>
       ELSE /\ Push(<<held>> \o waiting, targets') /\ held' = None
            /\ active' = None
            /\ UNCHANGED firstSeen
            /\ full' = (full /\ InTransform') /\ UNCHANGED dropped
    /\ UNCHANGED <<source, written, pipeQueue, consuming, behind, destroyed, accepted, detached>>

\* Mutant: the held chunk is pushed and stays.
AttachKeepsHeld(r) ==
    /\ ~destroyed /\ r \notin targets
    /\ targets' = targets \cup {r}
    /\ IF held = None THEN UNCHANGED streams
       ELSE Push(<<held>> \o waiting, targets') /\ UNCHANGED <<held, full, dropped>>
    /\ UNCHANGED <<source, written, ingress, destroyed, accepted, detached>>

\* pipe() pushes the held chunk; its source is no longer active if it ended.
\* The chunks that waited behind it follow, as those of whatever is active now.
Attach(r) ==
    /\ ~destroyed /\ r \notin targets
    /\ targets' = targets \cup {r}
    /\ IF held = None THEN UNCHANGED <<streams, active, firstSeen>>
       ELSE /\ Push(<<held>> \o waiting, targets') /\ held' = None
            /\ active' = IF active = held[1] /\ source[active] = "ended" THEN None ELSE active
            /\ firstSeen' = (firstSeen \/ (active' # None /\ Len(waiting') < Len(waiting)))
            /\ full' = (full /\ InTransform') /\ UNCHANGED dropped
    /\ UNCHANGED <<source, written, pipeQueue, consuming, behind, destroyed, accepted, detached>>

\* unpipe(), of one reader or of all of them.
Detach(rs) ==
    /\ ~destroyed /\ detached < MaxDetached
    /\ rs # {} /\ targets' = targets \ rs /\ detached' = detached + 1
    /\ UNCHANGED <<source, written, ingress, streams, destroyed, accepted>>

\* The readers take a chunk when the slowest of them can.  The first read() after
\* a stall calls _read() before the chunk leaves: the readable side is at its
\* mark, so Transform keeps the callback for a later _read().  None comes, since
\* read() calls _read() only after a push() and the writer that would push waits.
Deliver ==
    /\ ~destroyed /\ targets # {} /\ buffer # <<>>
    /\ Received(targets, <<Head(buffer)>>)
    /\ buffer' = Tail(buffer)
    /\ stall' = IF stall = "pending" THEN "kept" ELSE stall
    /\ UNCHANGED <<source, written, ingress, waiting, full, held, dropped, targets, destroyed,
                   accepted, detached>>

\* TopicsMap.delete(): the readers are unpiped and the topic is destroyed.
DeleteTopic ==
    /\ ~destroyed
    /\ targets' = {} /\ destroyed' = TRUE /\ held' = None
    /\ UNCHANGED <<source, written, ingress, waiting, full, stall, buffer, received, dropped,
                   accepted, detached>>

-----------------------------------------------------------------------------
Next ==
    \/ \E s \in Sources : Accept(s) \/ Write(s) \/ End(s) \/ Break(s)
    \/ \E r \in Readers : Attach(r)
    \/ \E r \in Readers : Detach({r}) \/ Detach(targets)
    \/ Deliver \/ DeleteTopic

Spec == Init /\ [][Next]_vars

\* A source that is piped and not paused writes and ends, a topic finds a reader
\* again, and its readers read.
FairSpec ==
    /\ Spec
    /\ \A s \in Sources : WF_vars(~full /\ (Write(s) \/ End(s)))
    /\ WF_vars(targets = {} /\ \E r \in Readers : Attach(r))
    /\ WF_vars(Deliver)

-----------------------------------------------------------------------------
(* Properties.                                                             *)

AllChunks == Sources \X (1 .. Chunks + 1)
Elements(seq) == {seq[i] : i \in DOMAIN seq}

\* Every field stays within its values: the readable side never holds more than
\* its mark (topic.ts:45), and nothing waits for a chunk that is in no transform.
TypeOK ==
    /\ source \in [Sources -> {"new", "open", "ended", "broken"}]
    /\ written \in [Sources -> 0 .. Chunks + 1]
    /\ Elements(pipeQueue) \cup Elements(accepted) \cup behind \subseteq Sources
    /\ {consuming, active} \subseteq Sources \cup {None} /\ firstSeen \in BOOLEAN
    /\ held \in AllChunks \cup {None} /\ stall \in {"none", "pending", "kept"} /\ full \in BOOLEAN
    /\ Elements(buffer) \cup Elements(waiting) \subseteq AllChunks /\ Len(buffer) <= Cap
    /\ ~destroyed /\ (waiting # <<>> \/ full) => InTransform
    /\ targets \subseteq Readers /\ destroyed \in BOOLEAN
    /\ DOMAIN received = Readers /\ \A r \in Readers : Elements(received[r]) \subseteq AllChunks
    /\ dropped \subseteq AllChunks /\ detached \in 0 .. MaxDetached

\* Readers get the sources in the order they were accepted and the chunks of
\* each in order, none twice, whatever waits, is held, stalls or is discarded
\* meanwhile, also when the next source writes behind chunks of the last
\* (consumePipe(), _transform(), flushPendingIngress()).
Turn(s) == CHOOSE i \in DOMAIN accepted : accepted[i] = s
Precedes(c, d) == Turn(c[1]) < Turn(d[1]) \/ (c[1] = d[1] /\ c[2] < d[2])

DeliveredInOrder ==
    \A r \in Readers : \A i, j \in DOMAIN received[r] :
        i < j => Precedes(received[r][i], received[r][j])

\* While the topic lives a chunk that was written is delivered, on its way (in
\* either side of the stream or held) or was discarded, and only one of these,
\* also when its source ended long ago (_transform(), flushPendingIngress()).
Accounted ==
    ~destroyed =>
        LET delivered == UNION {Elements(received[r]) : r \in Readers}
            onWay == Elements(buffer) \cup Elements(waiting) \cup ({held} \ {None})
        IN /\ delivered \cup onWay \cup dropped = {c \in AllChunks : c[2] <= written[c[1]]}
           /\ delivered \cap onWay = {} /\ (delivered \cup onWay) \cap dropped = {}

\* The first chunk of a source is never discarded, also when a reader came and
\* left while the chunk of the source before it was held (topic.ts:270), unless
\* its turn came while chunks of earlier sources still waited in the writable
\* side: _transform() takes the first of those for the first of the source.
FirstChunkKept == \A s \in Sources : <<s, 1>> \in dropped => s \in behind

\* A queued source gets its turn, unless the topic is destroyed, a source before
\* it broke off in the queue, whose end is then awaited (topic.ts:108), or the
\* readable side once reached its mark: the callback that Transform then keeps
\* is called by nobody (topic.ts:150).
SourcesGetTheirTurn ==
    \A s \in Sources :
        source[s] = "open" ~> \/ consuming = s \/ source[s] # "open" \/ destroyed
                              \/ stall = "kept"
                              \/ (consuming # None /\ source[consuming] = "broken")
=============================================================================
