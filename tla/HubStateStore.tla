--------------------------- MODULE HubStateStore ---------------------------
(***************************************************************************)
(* The state a hub offers to watchers (hub-state/src/hub-state-store.ts):  *)
(* the Auditor numbers every mutation of the host's inventory, the store   *)
(* replays the numbered records, and subscribers of one kind are handed    *)
(* the changes of that kind, each linked to the one before it.             *)
(*                                                                         *)
(* The inventory is abstracted to which mutations it holds: a mutation is  *)
(* its index in the log, and the items of a kind are the indices of its    *)
(* mutations.  Auditor.write() calls consume() synchronously, so a record  *)
(* is written and consumed in one step; the store trusts none of them, so  *)
(* a record may be lost, repeated, or not apply (Faults).                  *)
(***************************************************************************)
EXTENDS Naturals, Sequences

CONSTANTS
    Kinds,          \* the kinds of records: sequence, instance, topic, health
    Subscribers,    \* every subscription there will be
    KindOf,         \* the kind a subscription asks for
    Faults,         \* what may happen to a record
    MaxChanges,     \* bound: mutations of the host
    MaxEpochs       \* bound: identities the hub takes

ASSUME KindAssumption == KindOf \in [Subscribers -> Kinds]
ASSUME FaultAssumption == Faults \subseteq {"invalid", "lost", "repeated", "early"}
ASSUME BoundAssumption == MaxChanges \in Nat /\ MaxEpochs \in Nat \ {0}

VARIABLES
    log,            \* the mutations of the host so far, by kind
    base,           \* stateIdentity: where in the log each epoch began
    available,
    cursor,         \* the record the store has replayed up to
    items,          \* sequences, instances, topics, manifests and health
    subscribed,     \* the members of subscribers
    previous,       \* previousCursor of each
    closed

audit == <<log, base>>
store == <<available, cursor, items, closed>>
subs == <<subscribed, previous>>
storeVars == <<audit, store, subs>>

Cursor == [epoch : Nat \ {0}, position : Nat]

\* The index in the log a cursor stands for.
Index(c) == base[c.epoch] + c.position

\* What the inventory of the host held of a kind after n mutations.
ItemsAt(k, n) == {i \in 1 .. n : log[i] = k}

Epoch == Len(base)
Position == Len(log) - base[Len(base)]
AuditCursor == [epoch |-> Epoch, position |-> Position]

InitStore ==
    /\ log = << >> /\ base = <<0>>
    /\ available = TRUE /\ closed = FALSE
    /\ cursor = [epoch |-> 1, position |-> 0]
    /\ items = [k \in Kinds |-> {}]
    /\ subscribed = {}
    /\ previous = [s \in Subscribers |-> [epoch |-> 1, position |-> 0]]

-----------------------------------------------------------------------------
(* consume(), in the parts it shares between records.                      *)

\* Mutant: a change is taken whatever it follows.
FollowsSomething(from, to) == available /\ to.position > cursor.position

\* A change is linked to the cursor and is the next of its epoch.
Follows(from, to) ==
    /\ available
    /\ from = cursor
    /\ to.epoch = cursor.epoch /\ to.position = cursor.position + 1

\* invalidate(): nothing is kept, and every subscriber is failed and removed.
Invalidate ==
    /\ available' = FALSE
    /\ items' = [k \in Kinds |-> {}]
    /\ subscribed' = {}

\* The subscribers of the kind are handed the change, linked to their last one.
Notify(k, to) ==
    previous' = [s \in Subscribers |-> IF s \in subscribed /\ KindOf[s] = k THEN to ELSE previous[s]]

\* A change reaches the store: the i-th mutation of the log, applied or refused.
\* A subscriber that is handed it may leave in its callback.
ConsumeChange(i, from, to, valid) ==
    /\ UNCHANGED closed
    /\ IF valid /\ Follows(from, to)
       THEN /\ items' = [items EXCEPT ![log'[i]] = @ \cup {i}]
            /\ cursor' = to
            /\ Notify(log'[i], to)
            /\ \E leaving \in SUBSET {s \in subscribed : KindOf[s] = log'[i]} :
                   subscribed' = subscribed \ leaving
            /\ UNCHANGED available
       ELSE Invalidate /\ UNCHANGED <<cursor, previous>>

\* Mutant: subscribers cross the boundary to another identity.
CheckpointFailsNobody(c) == FALSE

\* The subscribers of an older identity or of a smaller position may not go on.
CheckpointFails(c) ==
    c.epoch # cursor.epoch \/ (available /\ c.position > cursor.position)

CheckpointIgnored(c) == c.epoch = cursor.epoch /\ c.position < cursor.position

\* checkpoint(): the store starts again from a whole inventory.
ConsumeCheckpoint(c, valid) ==
    /\ UNCHANGED <<closed, previous>>
    /\ IF ~valid THEN Invalidate /\ UNCHANGED cursor
       ELSE IF CheckpointIgnored(c) THEN UNCHANGED <<available, cursor, items, subscribed>>
       ELSE /\ items' = [k \in Kinds |-> {i \in 1 .. (base'[c.epoch] + c.position) : log'[i] = k}]
            /\ cursor' = c
            /\ available' = TRUE
            /\ subscribed' = IF CheckpointFails(c) THEN {} ELSE subscribed

-----------------------------------------------------------------------------
(* The host and its auditor.                                               *)

Before == [epoch |-> Epoch, position |-> Position - 1]
NextPosition == [epoch |-> Epoch, position |-> Position + 1]

\* A mutation of the host is audited and consumed (auditStateChange, auditManifestChange).
AuditChange(k, valid) ==
    /\ ~closed /\ Len(log) < MaxChanges
    /\ valid \/ "invalid" \in Faults
    /\ log' = Append(log, k) /\ UNCHANGED base
    /\ ConsumeChange(Len(log) + 1, AuditCursor, NextPosition, valid)

\* Its record does not reach the store.
ChangeLost(k) ==
    /\ "lost" \in Faults /\ ~closed /\ Len(log) < MaxChanges
    /\ log' = Append(log, k)
    /\ UNCHANGED <<base, store, subs>>

\* The last record reaches the store once more.
ChangeRepeated ==
    /\ "repeated" \in Faults /\ ~closed /\ Position > 0
    /\ UNCHANGED audit
    /\ ConsumeChange(Len(log), Before, AuditCursor, TRUE)

\* The hub is given another id: a new identity, and a checkpoint of the
\* inventory under it, which may not be one the store accepts.
Reidentify(valid) ==
    /\ ~closed /\ Epoch < MaxEpochs
    /\ valid \/ "invalid" \in Faults
    /\ base' = Append(base, Len(log)) /\ UNCHANGED log
    /\ ConsumeCheckpoint([epoch |-> Epoch + 1, position |-> 0], valid)

\* A checkpoint of the present identity, of now or repeated from earlier.
Checkpoint(p) ==
    /\ "early" \in Faults /\ ~closed
    /\ UNCHANGED audit
    /\ ConsumeCheckpoint([epoch |-> Epoch, position |-> p], TRUE)

Close ==
    /\ ~closed
    /\ closed' = TRUE
    /\ Invalidate
    /\ UNCHANGED <<audit, cursor, previous>>

-----------------------------------------------------------------------------
(* Subscriptions.                                                          *)

CanSubscribe == available /\ ~closed

Subscribe(s) ==
    /\ CanSubscribe
    /\ subscribed' = subscribed \cup {s}
    /\ previous' = [previous EXCEPT ![s] = cursor]
    /\ UNCHANGED <<audit, store>>

Unsubscribe(S) ==
    /\ subscribed' = subscribed \ S
    /\ UNCHANGED <<audit, store, previous>>

SourceStep ==
    \/ \E k \in Kinds : (\E valid \in BOOLEAN : AuditChange(k, valid)) \/ ChangeLost(k)
    \/ ChangeRepeated
    \/ \E valid \in BOOLEAN : Reidentify(valid)
    \/ \E p \in 0 .. Position : Checkpoint(p)

StoreNext ==
    \/ SourceStep
    \/ Close
    \/ \E s \in Subscribers : Subscribe(s)
    \/ \E S \in SUBSET Subscribers : Unsubscribe(S)

StoreSpec == InitStore /\ [][StoreNext]_storeVars

-----------------------------------------------------------------------------
StoreTypeOK ==
    /\ log \in Seq(Kinds) /\ base \in Seq(Nat)
    /\ Epoch \in 1 .. MaxEpochs /\ Position \in 0 .. MaxChanges
    /\ available \in BOOLEAN /\ closed \in BOOLEAN
    /\ cursor \in Cursor
    /\ items \in [Kinds -> SUBSET Nat]
    /\ subscribed \in SUBSET Subscribers
    /\ previous \in [Subscribers -> Cursor]

\* What the store offers is the replay of the log up to its cursor, whatever
\* happened to the records (consume, checkpoint, apply, makeSnapshot).
StoreIsReplay ==
    available =>
        /\ cursor.epoch = Epoch /\ Index(cursor) <= Len(log)
        /\ \A k \in Kinds : items[k] = ItemsAt(k, Index(cursor))

\* The cursor a subscriber is linked to belongs to the store's identity, and no
\* change of its kind lies between that cursor and the store's (notify).
LinksSkipNothing ==
    \A s \in subscribed :
        /\ available
        /\ previous[s].epoch = cursor.epoch /\ previous[s].position <= cursor.position
        /\ ItemsAt(KindOf[s], Index(previous[s])) = ItemsAt(KindOf[s], Index(cursor))
=============================================================================
