------------------------ MODULE HubStateStoreProofs ------------------------
(***************************************************************************)
(* Theorems of HubStateStore, for any kinds, subscribers, faults and       *)
(* bounds: what an available store offers is the replay of the log, and    *)
(* no subscriber's link skips a change.                                    *)
(*                                                                         *)
(* A step does one of five things to the store: it leaves it alone while   *)
(* the log may grow, it takes the next change, it invalidates, it starts   *)
(* again from a checkpoint, or it adds a subscriber.  One lemma each shows *)
(* that the invariant is kept, the rest says which step does which.        *)
(***************************************************************************)
EXTENDS HubStateStore, TLAPS

\* The items of a kind among the first n mutations of a log, and the place of a
\* cursor in a log whose epochs begin at b.
HeldOf(l, k, n) == {i \in 1 .. n : l[i] = k}
Place(b, c) == b[c.epoch] + c.position

FlagsOK == available \in BOOLEAN /\ closed \in BOOLEAN
\* The epochs begin inside the log.
LogOK ==
    /\ log \in Seq(Kinds) /\ Len(log) <= MaxChanges
    /\ base \in Seq(Nat) /\ Len(base) \in 1 .. MaxEpochs
    /\ \A e \in 1 .. Len(base) : base[e] <= Len(log)
StateOK ==
    /\ cursor \in Cursor /\ cursor.epoch <= Len(base)
    /\ items \in [Kinds -> SUBSET Nat]
    /\ subscribed \in SUBSET Subscribers
    /\ previous \in [Subscribers -> Cursor]

\* The two properties without the Boolean: what an available store offers, and
\* what holds of the links of its subscribers.
Replayed ==
    /\ cursor.epoch = Len(base) /\ Place(base, cursor) <= Len(log)
    /\ \A k \in Kinds : items[k] = HeldOf(log, k, Place(base, cursor))
Link(s) ==
    /\ previous[s].epoch = cursor.epoch /\ previous[s].position <= cursor.position
    /\ HeldOf(log, KindOf[s], Place(base, previous[s])) = HeldOf(log, KindOf[s], Place(base, cursor))
Linked == \A s \in subscribed : Link(s)
\* Only an available store has subscribers.
Served == subscribed # {} => available

IInv ==
    /\ FlagsOK /\ LogOK /\ StateOK
    /\ available => Replayed
    /\ Served /\ Linked

LEMMA ReplayParts == StoreIsReplay <=> (available => Replayed)
<1>1. ASSUME NEW k PROVE ItemsAt(k, Index(cursor)) = HeldOf(log, k, Place(base, cursor))
  BY DEF ItemsAt, Index, HeldOf, Place
<1> QED
  BY <1>1, Zenon DEF StoreIsReplay, Replayed, Index, Place, Epoch

LEMMA LinkParts == LinksSkipNothing <=> Served /\ Linked
<1>1. ASSUME NEW s
      PROVE /\ ItemsAt(KindOf[s], Index(previous[s])) = HeldOf(log, KindOf[s], Place(base, previous[s]))
            /\ ItemsAt(KindOf[s], Index(cursor)) = HeldOf(log, KindOf[s], Place(base, cursor))
  BY DEF ItemsAt, Index, HeldOf, Place
<1>2. LinksSkipNothing <=> (\A s \in subscribed : available) /\ Linked
  BY <1>1, Zenon DEF LinksSkipNothing, Linked, Link
<1>3. Served <=> \A s \in subscribed : available
  BY Zenon DEF Served
<1> QED
  BY <1>2, <1>3, Zenon

LEMMA AuditCursorTyped ==
  ASSUME LogOK
  PROVE  /\ Position \in 0 .. MaxChanges /\ Epoch = Len(base) /\ Len(log) \in Nat
         /\ AuditCursor \in Cursor
         /\ AuditCursor.epoch = Len(base) /\ AuditCursor.position = Position
         /\ base[Len(base)] \in Nat /\ base[Len(base)] + Position = Len(log)
<1>1. Len(log) \in Nat /\ Len(base) \in Nat \ {0} /\ MaxChanges \in Nat
  BY BoundAssumption DEF LogOK
<1>2. base[Len(base)] \in Nat /\ base[Len(base)] <= Len(log) /\ Len(log) <= MaxChanges
  BY <1>1 DEF LogOK
<1>3. Position = Len(log) - base[Len(base)] /\ Epoch = Len(base)
  BY DEF Position, Epoch
<1>4. Position \in Nat /\ Position <= MaxChanges
  BY <1>1, <1>2, <1>3
<1>5. AuditCursor.epoch = Epoch /\ AuditCursor.position = Position
  BY DEF AuditCursor
<1>6. AuditCursor \in Cursor
  BY <1>1, <1>3, <1>4 DEF AuditCursor, Cursor
<1> QED
  BY <1>1, <1>2, <1>3, <1>4, <1>5, <1>6

\* The log grows and keeps what it has, and so do the epochs.
Grows ==
    /\ Len(log) <= Len(log') /\ \A i \in 1 .. Len(log) : log'[i] = log[i]
    /\ Len(base) <= Len(base') /\ \A e \in 1 .. Len(base) : base'[e] = base[e]

LEMMA HeldKept ==
  ASSUME Len(log) \in Nat, Grows, NEW k, NEW n \in Nat, n <= Len(log)
  PROVE  HeldOf(log', k, n) = HeldOf(log, k, n)
<1>1. \A i \in 1 .. Len(log) : log'[i] = log[i]
  BY Zenon DEF Grows
<1> QED
  BY <1>1 DEF HeldOf

LEMMA HeldNext ==
  ASSUME Len(log) \in Nat, Grows, NEW k, NEW n \in Nat, n <= Len(log)
  PROVE  HeldOf(log', k, n + 1) =
             IF log'[n + 1] = k THEN HeldOf(log, k, n) \cup {n + 1} ELSE HeldOf(log, k, n)
<1>1. \A i \in 1 .. Len(log) : log'[i] = log[i]
  BY Zenon DEF Grows
<1>2. 1 .. (n + 1) = (1 .. n) \cup {n + 1}
  OBVIOUS
<1> QED
  BY <1>1, <1>2 DEF HeldOf

LEMMA PlaceKept ==
  ASSUME LogOK, Grows, NEW c \in Cursor, c.epoch <= Len(base)
  PROVE  Place(base', c) = Place(base, c) /\ Place(base, c) \in Nat
<1>1. Len(base) \in Nat /\ c.epoch \in Nat \ {0} /\ c.position \in Nat
  BY DEF LogOK, Cursor
<1>2. c.epoch \in 1 .. Len(base)
  BY <1>1
<1>3. base'[c.epoch] = base[c.epoch] /\ base[c.epoch] \in Nat
  BY <1>2 DEF Grows, LogOK
<1> QED
  BY <1>1, <1>3 DEF Place

\* A link that neither end of is moved.
LEMMA LinkKept ==
  ASSUME LogOK, LogOK', StateOK, Grows, Replayed,
         NEW s \in subscribed, Link(s), previous'[s] = previous[s],
         cursor'.epoch = cursor.epoch, cursor'.position = cursor.position
  PROVE  Link(s)'
<1>1. previous[s] \in Cursor /\ cursor \in Cursor /\ cursor.epoch <= Len(base)
  BY DEF StateOK
<1>2. previous[s].epoch = cursor.epoch /\ previous[s].position <= cursor.position
  BY DEF Link
<1>3. /\ Place(base', previous[s]) = Place(base, previous[s]) /\ Place(base, previous[s]) \in Nat
      /\ Place(base', cursor) = Place(base, cursor) /\ Place(base, cursor) \in Nat
  BY <1>1, <1>2, PlaceKept
<1>4. Place(base, previous[s]) <= Place(base, cursor)
  <2>1. base[cursor.epoch] \in Nat /\ previous[s].position \in Nat /\ cursor.position \in Nat
    <3>1. cursor.epoch \in 1 .. Len(base)
      BY <1>1 DEF Cursor, LogOK
    <3> QED
      BY <1>1, <3>1 DEF LogOK, Cursor
  <2> QED
    BY <1>2, <2>1 DEF Place
<1>5. Place(base, cursor) <= Len(log) /\ Len(log) \in Nat
  BY DEF Replayed, LogOK
<1>7. Place(base', cursor') = Place(base', cursor)
  BY DEF Place
<1>8. /\ HeldOf(log', KindOf[s], Place(base, previous[s])) = HeldOf(log, KindOf[s], Place(base, previous[s]))
      /\ HeldOf(log', KindOf[s], Place(base, cursor)) = HeldOf(log, KindOf[s], Place(base, cursor))
  BY <1>3, <1>4, <1>5, HeldKept
<1>9. HeldOf(log', KindOf[s], Place(base', previous'[s])) = HeldOf(log', KindOf[s], Place(base', cursor'))
  BY <1>3, <1>7, <1>8 DEF Link
<1>10. previous'[s].epoch = cursor'.epoch /\ previous'[s].position <= cursor'.position
  BY <1>2
<1> QED
  BY <1>9, <1>10 DEF Link, HeldOf, Place

-----------------------------------------------------------------------------
(* What a step may do to the store.                                        *)

LEMMA UntouchedStep ==
  ASSUME IInv, FlagsOK', LogOK', Grows, base' = base,
         available' = available, cursor' = cursor, items' = items, previous' = previous,
         subscribed' \subseteq subscribed
  PROVE  IInv'
<1>1. LogOK /\ StateOK /\ (available => Replayed) /\ Served /\ Linked
  BY Zenon DEF IInv
<1>2. StateOK'
  BY <1>1 DEF StateOK
<1>3. ASSUME Replayed PROVE Replayed'
  <2>1. cursor \in Cursor /\ cursor.epoch = Len(base) /\ Place(base, cursor) <= Len(log) /\ Len(log) \in Nat
    BY <1>1, <1>3 DEF StateOK, Replayed, LogOK
  <2>2. Place(base, cursor) \in Nat
    BY <1>1, <2>1, PlaceKept DEF LogOK
  <2>3. \A k \in Kinds : HeldOf(log', k, Place(base, cursor)) = HeldOf(log, k, Place(base, cursor))
    BY <2>1, <2>2, HeldKept
  <2>4. Len(log') \in Nat /\ Len(log) <= Len(log')
    BY DEF LogOK, Grows
  <2>5. \A k \in Kinds : items[k] = HeldOf(log', k, Place(base, cursor))
    BY <1>3, <2>3 DEF Replayed
  <2>6. Place(base, cursor) <= Len(log')
    BY <2>1, <2>2, <2>4
  <2> QED
    BY <2>1, <2>5, <2>6 DEF Replayed, Place, HeldOf
<1>4. Served'
  BY <1>1, Zenon DEF Served
<1>5. Linked'
  <2> SUFFICES ASSUME NEW s \in subscribed' PROVE Link(s)'
    BY Zenon DEF Linked, Link
  <2>1. s \in subscribed /\ Link(s) /\ Replayed
    BY <1>1, Zenon DEF Linked, Served
  <2> QED
    BY <1>1, <2>1, LinkKept
<1> QED
  BY <1>1, <1>2, <1>3, <1>4, <1>5, Zenon DEF IInv

LEMMA InvalidatedStep ==
  ASSUME IInv, FlagsOK', LogOK', Grows, Invalidate, cursor' = cursor, previous' = previous
  PROVE  IInv'
<1>1. LogOK /\ StateOK /\ subscribed' = {} /\ ~available' /\ items' = [k \in Kinds |-> {}]
  BY Zenon DEF IInv, Invalidate
<1>2. cursor' \in Cursor /\ cursor'.epoch <= Len(base')
  BY <1>1 DEF StateOK, LogOK, Grows, Cursor
<1>3. StateOK'
  BY <1>1, <1>2 DEF StateOK
<1>4. Served' /\ Linked'
  BY <1>1, Zenon DEF Served, Linked
<1> QED
  BY <1>1, <1>3, <1>4, Zenon DEF IInv

\* The next change of the epoch is taken.
LEMMA TakenStep ==
  ASSUME IInv, FlagsOK', LogOK', Grows, base' = base, available, available',
         NEW to \in Cursor, to.epoch = cursor.epoch, to.position = cursor.position + 1,
         Place(base, cursor) + 1 <= Len(log'),
         items' = [items EXCEPT ![log'[Place(base, cursor) + 1]] = @ \cup {Place(base, cursor) + 1}],
         cursor' = to, Notify(log'[Place(base, cursor) + 1], to), subscribed' \subseteq subscribed
  PROVE  IInv'
<1> DEFINE n == Place(base, cursor)
           kind == log'[n + 1]
<1>1. LogOK /\ StateOK /\ Replayed /\ Linked
  BY Zenon DEF IInv
<1>2. /\ cursor \in Cursor /\ cursor.epoch = Len(base) /\ Len(base) \in Nat \ {0}
      /\ n <= Len(log) /\ Len(log) \in Nat /\ Len(log') \in Nat
  BY <1>1 DEF StateOK, Replayed, LogOK
<1>3. n \in Nat /\ base[cursor.epoch] \in Nat
  BY <1>1, <1>2, PlaceKept DEF LogOK
<1>4. Place(base, to) = n + 1
  <2>1. cursor.position \in Nat /\ base[to.epoch] = base[cursor.epoch]
    BY <1>2 DEF Cursor
  <2> QED
    BY <1>3, <2>1 DEF Place
<1>5. kind \in Kinds
  BY <1>2, <1>3 DEF LogOK
<1>6. \A k : HeldOf(log', k, n + 1) =
          IF kind = k THEN HeldOf(log, k, n) \cup {n + 1} ELSE HeldOf(log, k, n)
  BY <1>2, <1>3, HeldNext
<1>7. StateOK'
  <2>1. items' \in [Kinds -> SUBSET Nat]
    BY <1>1, <1>3, <1>5 DEF StateOK
  <2>2. previous' \in [Subscribers -> Cursor]
    BY <1>1 DEF StateOK, Notify
  <2>3. subscribed' \in SUBSET Subscribers
    BY <1>1 DEF StateOK
  <2> QED
    BY <1>2, <2>1, <2>2, <2>3 DEF StateOK
<1>8. Replayed'
  <2>1. \A k \in Kinds : items[k] = HeldOf(log, k, n)
    BY <1>1 DEF Replayed
  <2>2. \A k \in Kinds : items'[k] = IF kind = k THEN items[k] \cup {n + 1} ELSE items[k]
    BY <1>1, <1>5 DEF StateOK
  <2>3. \A k \in Kinds : items'[k] = HeldOf(log', k, n + 1)
    BY <1>6, <2>1, <2>2
  <2>4. Place(base', cursor') = n + 1
    BY <1>4 DEF Place
  <2>5. cursor'.epoch = Len(base') /\ Place(base', cursor') <= Len(log')
    BY <1>2, <2>4
  <2> QED
    BY <2>3, <2>4, <2>5 DEF Replayed, Place, HeldOf
<1>9. Linked'
  <2> SUFFICES ASSUME NEW s \in subscribed' PROVE Link(s)'
    BY Zenon DEF Linked, Link
  <2>1. s \in Subscribers /\ KindOf[s] \in Kinds /\ s \in subscribed /\ Link(s)
    BY <1>1, KindAssumption DEF StateOK, Linked
  <2>2. CASE KindOf[s] = kind
    <3>1. previous'[s] = cursor'
      BY <2>1, <2>2 DEF Notify
    <3>2. cursor'.position <= cursor'.position
      BY DEF Cursor
    <3> QED
      BY <3>1, <3>2 DEF Link, HeldOf, Place
  <2>3. CASE KindOf[s] # kind
    <3>1. previous'[s] = previous[s] /\ previous[s] \in Cursor
      BY <1>1, <2>1, <2>3 DEF Notify, StateOK
    <3>2. previous[s].epoch = cursor.epoch /\ previous[s].position <= cursor.position
      BY <2>1 DEF Link
    <3>3. Place(base, previous[s]) \in Nat /\ Place(base, previous[s]) <= n
      BY <1>2, <1>3, <3>1, <3>2 DEF Place, Cursor
    <3>4. HeldOf(log', KindOf[s], Place(base, previous[s])) = HeldOf(log, KindOf[s], Place(base, previous[s]))
      BY <1>2, <1>3, <3>3, HeldKept
    <3>5. HeldOf(log, KindOf[s], Place(base, previous[s])) = HeldOf(log, KindOf[s], n)
      BY <2>1 DEF Link
    <3>6. HeldOf(log', KindOf[s], n + 1) = HeldOf(log, KindOf[s], n)
      BY <1>6, <2>3
    <3>7. Place(base', previous'[s]) = Place(base, previous[s]) /\ Place(base', cursor') = n + 1
      BY <1>4, <3>1 DEF Place
    <3>8. previous'[s].epoch = cursor'.epoch /\ previous'[s].position <= cursor'.position
      BY <1>2, <3>1, <3>2 DEF Cursor
    <3>9. HeldOf(log', KindOf[s], Place(base', previous'[s])) = HeldOf(log', KindOf[s], Place(base', cursor'))
      BY <3>4, <3>5, <3>6, <3>7
    <3> QED
      BY <3>8, <3>9 DEF Link, HeldOf, Place
  <2> QED
    BY <2>2, <2>3
<1>10. Served'
  BY Zenon DEF Served
<1> QED
  BY <1>7, <1>8, <1>9, <1>10, Zenon DEF IInv

\* The store starts again from an inventory of the present epoch.
LEMMA RestartedStep ==
  ASSUME IInv, FlagsOK', LogOK', Grows, available', previous' = previous,
         NEW c \in Cursor, cursor' = c, c.epoch = Len(base'), Place(base', c) <= Len(log'),
         items' = [k \in Kinds |-> HeldOf(log', k, Place(base', c))],
         \/ subscribed' = {}
         \/ subscribed' = subscribed /\ c.epoch = cursor.epoch /\ c.position = cursor.position
  PROVE  IInv'
<1>1. LogOK /\ StateOK /\ (available => Replayed) /\ Served /\ Linked
  BY Zenon DEF IInv
<1>2. c.epoch <= Len(base')
  BY DEF LogOK, Cursor
<1>3. Place(base', c) \in Nat
  <2>1. c.epoch \in 1 .. Len(base') /\ c.position \in Nat
    BY DEF LogOK, Cursor
  <2>2. base'[c.epoch] \in Nat
    BY <2>1 DEF LogOK
  <2> QED
    BY <2>1, <2>2 DEF Place
<1>4. StateOK'
  <2>1. \A k \in Kinds : HeldOf(log', k, Place(base', c)) \in SUBSET Nat
    BY <1>3 DEF HeldOf
  <2>2. items' \in [Kinds -> SUBSET Nat]
    BY <2>1
  <2>3. subscribed' \in SUBSET Subscribers /\ previous' \in [Subscribers -> Cursor]
    BY <1>1 DEF StateOK
  <2> QED
    BY <1>2, <2>2, <2>3 DEF StateOK
<1>5. Replayed'
  <2>1. \A k \in Kinds : items'[k] = HeldOf(log', k, Place(base', cursor'))
    OBVIOUS
  <2> QED
    BY <2>1 DEF Replayed, HeldOf, Place
<1>6. Linked'
  <2> SUFFICES ASSUME NEW s \in subscribed' PROVE Link(s)'
    BY Zenon DEF Linked, Link
  <2>1. s \in subscribed /\ c.epoch = cursor.epoch /\ c.position = cursor.position
    OBVIOUS
  <2>2. Link(s) /\ Replayed
    BY <1>1, <2>1, Zenon DEF Linked, Served
  <2> QED
    BY <1>1, <2>1, <2>2, LinkKept
<1>7. Served'
  BY Zenon DEF Served
<1> QED
  BY <1>4, <1>5, <1>6, <1>7, Zenon DEF IInv

LEMMA SubscribeStep ==
  ASSUME IInv, FlagsOK', NEW s \in Subscribers, Subscribe(s)
  PROVE  IInv'
<1>1. /\ LogOK /\ StateOK /\ (available => Replayed) /\ Served /\ Linked /\ available
      /\ subscribed' = subscribed \cup {s} /\ previous' = [previous EXCEPT ![s] = cursor]
      /\ UNCHANGED <<audit, store>>
  BY Zenon DEF IInv, Subscribe, CanSubscribe
<1>2. /\ log' = log /\ base' = base /\ available' = available /\ cursor' = cursor /\ items' = items
  BY <1>1 DEF audit, store
<1>3. LogOK'
  BY <1>1, <1>2 DEF LogOK
<1>4. StateOK'
  BY <1>1, <1>2 DEF StateOK
<1>5. Replayed'
  BY <1>1, <1>2, Zenon DEF Replayed, Place, HeldOf
<1>6. Served'
  BY <1>1, <1>2, Zenon DEF Served
<1>7. Linked'
  <2> SUFFICES ASSUME NEW t \in subscribed' PROVE Link(t)'
    BY Zenon DEF Linked, Link
  <2>1. CASE t = s
    <3>1. previous'[t] = cursor' /\ cursor'.position <= cursor'.position
      BY <1>1, <1>2, <2>1 DEF StateOK, Cursor
    <3> QED
      BY <3>1, Zenon DEF Link, HeldOf, Place
  <2>2. CASE t # s
    <3>1. t \in subscribed /\ previous'[t] = previous[t]
      BY <1>1, <2>2 DEF StateOK
    <3>2. Link(t)
      BY <1>1, <3>1, Zenon DEF Linked
    <3> QED
      BY <1>2, <3>1, <3>2, Zenon DEF Link, HeldOf, Place
  <2> QED
    BY <2>1, <2>2
<1> QED
  BY <1>2, <1>3, <1>4, <1>5, <1>6, <1>7, Zenon DEF IInv

-----------------------------------------------------------------------------
(* Which step does what.                                                   *)

LEMMA LogGrows ==
  ASSUME LogOK, Len(log) < MaxChanges, NEW k \in Kinds, log' = Append(log, k), base' = base
  PROVE  LogOK' /\ Grows /\ Len(log') = Len(log) + 1
<1>1. Len(log) \in Nat /\ MaxChanges \in Nat /\ log \in Seq(Kinds) /\ base \in Seq(Nat)
  BY BoundAssumption DEF LogOK
<1>2. Len(log') = Len(log) + 1 /\ log' \in Seq(Kinds) /\ \A i \in 1 .. Len(log) : log'[i] = log[i]
  BY <1>1
<1>3. Grows
  BY <1>1, <1>2 DEF Grows
<1>4. \A e \in 1 .. Len(base') : base'[e] <= Len(log')
  <2> SUFFICES ASSUME NEW e \in 1 .. Len(base) PROVE base[e] <= Len(log) + 1
    BY <1>2
  <2>1. base[e] \in Nat /\ base[e] <= Len(log)
    BY DEF LogOK
  <2> QED
    BY <1>1, <2>1
<1>5. Len(log') <= MaxChanges
  BY <1>1, <1>2
<1>6. base' \in Seq(Nat) /\ Len(base') \in 1 .. MaxEpochs
  BY DEF LogOK
<1> QED
  BY <1>2, <1>3, <1>4, <1>5, <1>6, Zenon DEF LogOK

LEMMA EpochBegins ==
  ASSUME LogOK, Epoch < MaxEpochs, base' = Append(base, Len(log)), log' = log
  PROVE  LogOK' /\ Grows /\ Len(base') = Len(base) + 1 /\ base'[Len(base) + 1] = Len(log)
<1>1. /\ Len(log) \in Nat /\ log \in Seq(Kinds) /\ base \in Seq(Nat)
      /\ Len(base) \in 1 .. MaxEpochs /\ MaxEpochs \in Nat /\ Len(base) < MaxEpochs
  BY BoundAssumption DEF LogOK, Epoch
<1>2. /\ Len(base') = Len(base) + 1 /\ base' \in Seq(Nat) /\ base'[Len(base) + 1] = Len(log)
      /\ \A e \in 1 .. Len(base) : base'[e] = base[e]
  BY <1>1
<1>3. Grows
  BY <1>1, <1>2 DEF Grows
<1>4. Len(base') \in 1 .. MaxEpochs
  BY <1>1, <1>2
<1>5. \A e \in 1 .. Len(base') : base'[e] <= Len(log')
  <2> SUFFICES ASSUME NEW e \in 1 .. Len(base) + 1 PROVE base'[e] <= Len(log)
    BY <1>2
  <2>1. CASE e = Len(base) + 1
    BY <1>1, <1>2, <2>1
  <2>2. CASE e # Len(base) + 1
    <3>1. e \in 1 .. Len(base)
      BY <1>1, <2>2
    <3> QED
      BY <1>2, <3>1 DEF LogOK
  <2> QED
    BY <2>1, <2>2
<1>6. log' \in Seq(Kinds) /\ Len(log') <= MaxChanges
  BY DEF LogOK
<1> QED
  BY <1>2, <1>3, <1>4, <1>5, <1>6, Zenon DEF LogOK

LEMMA SameLog ==
  ASSUME LogOK, UNCHANGED audit
  PROVE  LogOK' /\ Grows /\ base' = base /\ log' = log
  BY DEF LogOK, Grows, audit

LEMMA ConsumeStep ==
  ASSUME IInv, LogOK', Grows, base' = base,
         NEW i, NEW from, NEW to \in Cursor, NEW valid \in BOOLEAN,
         ConsumeChange(i, from, to, valid),
         from = cursor => i = Place(base, cursor) + 1 /\ i <= Len(log')
  PROVE  IInv'
<1>1. FlagsOK /\ closed' = closed
  BY Zenon DEF IInv, ConsumeChange
<1>2. CASE valid /\ Follows(from, to)
  <2>1. /\ items' = [items EXCEPT ![log'[i]] = @ \cup {i}] /\ cursor' = to
        /\ Notify(log'[i], to) /\ UNCHANGED available
        /\ \E leaving \in SUBSET {s \in subscribed : KindOf[s] = log'[i]} : subscribed' = subscribed \ leaving
    BY <1>2, Zenon DEF ConsumeChange
  <2>2. subscribed' \subseteq subscribed
    BY <2>1
  <2>3. available /\ available' /\ FlagsOK'
    BY <1>1, <1>2, <2>1, Zenon DEF Follows, FlagsOK
  <2>4. i = Place(base, cursor) + 1 /\ i <= Len(log')
    BY <1>2, Zenon DEF Follows
  <2>5. to.epoch = cursor.epoch /\ to.position = cursor.position + 1
    BY <1>2, Zenon DEF Follows
  <2> QED
    BY <2>1, <2>2, <2>3, <2>4, <2>5, TakenStep
<1>3. CASE ~(valid /\ Follows(from, to))
  <2>1. Invalidate /\ cursor' = cursor /\ previous' = previous
    BY <1>3, Zenon DEF ConsumeChange
  <2>2. FlagsOK'
    BY <1>1, <2>1, Zenon DEF FlagsOK, Invalidate
  <2> QED
    BY <2>1, <2>2, InvalidatedStep
<1> QED
  BY <1>2, <1>3, Zenon

LEMMA CheckpointStep ==
  ASSUME IInv, LogOK', Grows, NEW c \in Cursor, NEW valid \in BOOLEAN,
         ConsumeCheckpoint(c, valid),
         c.epoch = Len(base'), Place(base', c) <= Len(log'),
         c.epoch = cursor.epoch => base' = base
  PROVE  IInv'
<1>1. FlagsOK /\ StateOK /\ Served /\ closed' = closed /\ previous' = previous
  BY Zenon DEF IInv, ConsumeCheckpoint
<1>2. CASE ~valid
  <2>1. Invalidate /\ cursor' = cursor
    BY <1>2, Zenon DEF ConsumeCheckpoint
  <2>2. FlagsOK'
    BY <1>1, <2>1, Zenon DEF FlagsOK, Invalidate
  <2> QED
    BY <1>1, <2>1, <2>2, InvalidatedStep
<1>3. CASE valid /\ CheckpointIgnored(c)
  <2>1. UNCHANGED <<available, cursor, items, subscribed>>
    BY <1>3, Zenon DEF ConsumeCheckpoint
  <2>2. /\ available' = available /\ cursor' = cursor /\ items' = items /\ subscribed' \subseteq subscribed
    BY <2>1
  <2>3. base' = base
    BY <1>3, Zenon DEF CheckpointIgnored
  <2>4. FlagsOK'
    BY <1>1, <2>2, Zenon DEF FlagsOK
  <2> QED
    BY <1>1, <2>2, <2>3, <2>4, UntouchedStep
<1>4. CASE valid /\ ~CheckpointIgnored(c)
  <2>1. /\ items' = [k \in Kinds |-> {i \in 1 .. (base'[c.epoch] + c.position) : log'[i] = k}]
        /\ cursor' = c /\ available' = TRUE
        /\ subscribed' = IF CheckpointFails(c) THEN {} ELSE subscribed
    BY <1>4, Zenon DEF ConsumeCheckpoint
  <2>2. items' = [k \in Kinds |-> HeldOf(log', k, Place(base', c))]
    BY <2>1, Zenon DEF HeldOf, Place
  <2>3. \/ subscribed' = {}
        \/ subscribed' = subscribed /\ c.epoch = cursor.epoch /\ c.position = cursor.position
    <3>1. CASE CheckpointFails(c)
      BY <2>1, <3>1, Zenon
    <3>2. CASE subscribed = {}
      BY <2>1, <3>2, Zenon
    <3>3. CASE ~CheckpointFails(c) /\ subscribed # {}
      <4>1. c.epoch = cursor.epoch /\ ~(c.position > cursor.position) /\ ~(c.position < cursor.position)
        BY <1>1, <1>4, <3>3, Zenon DEF CheckpointFails, CheckpointIgnored, Served
      <4>2. c.position \in Nat /\ cursor.position \in Nat
        BY <1>1 DEF StateOK, Cursor
      <4>3. subscribed' = subscribed
        BY <2>1, <3>3, Zenon
      <4> QED
        BY <4>1, <4>2, <4>3
    <3> QED
      BY <3>1, <3>2, <3>3, Zenon
  <2>4. FlagsOK' /\ available'
    BY <1>1, <2>1, Zenon DEF FlagsOK
  <2> QED
    BY <1>1, <2>1, <2>2, <2>3, <2>4, RestartedStep
<1> QED
  BY <1>2, <1>3, <1>4, Zenon

\* The place of the store in the log when its cursor is one of the auditor's.
LEMMA AuditedPlace ==
  ASSUME IInv
  PROVE  /\ cursor = AuditCursor => Place(base, cursor) = Len(log)
         /\ cursor = Before /\ Position > 0 => Place(base, cursor) + 1 = Len(log)
<1>1. LogOK
  BY Zenon DEF IInv
<1>2. /\ Epoch = Len(base) /\ Len(log) \in Nat /\ Position \in Nat
      /\ AuditCursor.epoch = Len(base) /\ AuditCursor.position = Position
      /\ base[Len(base)] \in Nat /\ base[Len(base)] + Position = Len(log)
  BY <1>1, AuditCursorTyped, BoundAssumption
<1>3. Before.epoch = Len(base) /\ Before.position = Position - 1
  BY <1>2 DEF Before
<1>4. Place(base, AuditCursor) = base[Len(base)] + Position
  BY <1>2 DEF Place
<1>5. Place(base, Before) = base[Len(base)] + (Position - 1)
  BY <1>3 DEF Place
<1> QED
  BY <1>2, <1>4, <1>5

LEMMA AuditChangeStep ==
  ASSUME IInv, NEW k \in Kinds, NEW valid \in BOOLEAN, AuditChange(k, valid)
  PROVE  IInv'
<1>1. /\ LogOK /\ Len(log) < MaxChanges /\ log' = Append(log, k) /\ base' = base
      /\ ConsumeChange(Len(log) + 1, AuditCursor, NextPosition, valid)
  BY Zenon DEF IInv, AuditChange
<1>2. LogOK' /\ Grows /\ Len(log') = Len(log) + 1
  BY <1>1, LogGrows
<1>3. NextPosition \in Cursor
  BY <1>1, AuditCursorTyped, BoundAssumption DEF NextPosition, Cursor, LogOK
<1>4. AuditCursor = cursor => Len(log) + 1 = Place(base, cursor) + 1 /\ Len(log) + 1 <= Len(log')
  BY <1>1, <1>2, AuditedPlace, AuditCursorTyped
<1> QED
  BY <1>1, <1>2, <1>3, <1>4, ConsumeStep

LEMMA ChangeLostStep ==
  ASSUME IInv, NEW k \in Kinds, ChangeLost(k)
  PROVE  IInv'
<1>1. /\ LogOK /\ FlagsOK /\ Len(log) < MaxChanges /\ log' = Append(log, k) /\ base' = base
      /\ UNCHANGED <<store, subs>>
  BY Zenon DEF IInv, ChangeLost
<1>2. LogOK' /\ Grows
  BY <1>1, LogGrows
<1>3. /\ available' = available /\ cursor' = cursor /\ items' = items /\ previous' = previous
      /\ subscribed' \subseteq subscribed /\ closed' = closed
  BY <1>1 DEF store, subs
<1>4. FlagsOK'
  BY <1>1, <1>3, Zenon DEF FlagsOK
<1> QED
  BY <1>1, <1>2, <1>3, <1>4, UntouchedStep

LEMMA ChangeRepeatedStep ==
  ASSUME IInv, ChangeRepeated
  PROVE  IInv'
<1>1. /\ LogOK /\ Position > 0 /\ UNCHANGED audit
      /\ ConsumeChange(Len(log), Before, AuditCursor, TRUE)
  BY Zenon DEF IInv, ChangeRepeated
<1>2. LogOK' /\ Grows /\ base' = base /\ log' = log
  BY <1>1, SameLog
<1>3. AuditCursor \in Cursor /\ Len(log) \in Nat
  BY <1>1, AuditCursorTyped
<1>4. Before = cursor => Len(log) = Place(base, cursor) + 1 /\ Len(log) <= Len(log')
  BY <1>1, <1>2, <1>3, AuditedPlace
<1> QED
  BY <1>1, <1>2, <1>3, <1>4, ConsumeStep

LEMMA ReidentifyStep ==
  ASSUME IInv, NEW valid \in BOOLEAN, Reidentify(valid)
  PROVE  IInv'
<1> DEFINE c == [epoch |-> Epoch + 1, position |-> 0]
<1>1. /\ LogOK /\ StateOK /\ Epoch < MaxEpochs /\ base' = Append(base, Len(log)) /\ log' = log
      /\ ConsumeCheckpoint(c, valid)
  BY Zenon DEF IInv, Reidentify
<1>2. /\ LogOK' /\ Grows /\ Len(base') = Len(base) + 1 /\ base'[Len(base) + 1] = Len(log)
  BY <1>1, EpochBegins
<1>3. Len(base) \in Nat \ {0} /\ Epoch = Len(base) /\ Len(log) \in Nat
  BY <1>1, AuditCursorTyped DEF LogOK
<1>4. c \in Cursor /\ c.epoch = Len(base') /\ c.epoch = Len(base) + 1 /\ c.position = 0
  BY <1>2, <1>3 DEF Cursor
<1>5. Place(base', c) <= Len(log')
  BY <1>1, <1>2, <1>3, <1>4 DEF Place
<1>6. c.epoch # cursor.epoch
  BY <1>1, <1>3, <1>4 DEF StateOK, Cursor
<1> HIDE DEF c
<1> QED
  BY <1>1, <1>2, <1>4, <1>5, <1>6, CheckpointStep

LEMMA RepeatedCheckpointStep ==
  ASSUME IInv, NEW p \in 0 .. Position, Checkpoint(p)
  PROVE  IInv'
<1> DEFINE c == [epoch |-> Epoch, position |-> p]
<1>1. LogOK /\ UNCHANGED audit /\ ConsumeCheckpoint(c, TRUE)
  BY Zenon DEF IInv, Checkpoint
<1>2. LogOK' /\ Grows /\ base' = base /\ log' = log
  BY <1>1, SameLog
<1>3. /\ Len(base) \in Nat \ {0} /\ Epoch = Len(base) /\ Position \in Nat /\ Len(log) \in Nat
      /\ base[Len(base)] \in Nat /\ base[Len(base)] + Position = Len(log)
  BY <1>1, AuditCursorTyped, BoundAssumption DEF LogOK
<1>4. c \in Cursor /\ c.epoch = Len(base) /\ c.position = p /\ p \in Nat /\ p <= Position
  BY <1>3 DEF Cursor
<1>5. Place(base', c) <= Len(log')
  BY <1>2, <1>3, <1>4 DEF Place
<1> HIDE DEF c
<1> QED
  BY <1>1, <1>2, <1>4, <1>5, CheckpointStep

LEMMA CloseStep ==
  ASSUME IInv, Close
  PROVE  IInv'
<1>1. /\ LogOK /\ FlagsOK /\ UNCHANGED <<audit, cursor, previous>> /\ Invalidate /\ closed' = TRUE
  BY Zenon DEF IInv, Close
<1>2. cursor' = cursor /\ previous' = previous /\ UNCHANGED audit
  BY <1>1
<1>3. LogOK' /\ Grows
  BY <1>1, <1>2, SameLog
<1>4. FlagsOK'
  BY <1>1, Zenon DEF FlagsOK, Invalidate
<1> QED
  BY <1>1, <1>2, <1>3, <1>4, InvalidatedStep

LEMMA UnsubscribeStep ==
  ASSUME IInv, NEW S, Unsubscribe(S)
  PROVE  IInv'
<1>1. LogOK /\ FlagsOK /\ subscribed' = subscribed \ S /\ UNCHANGED <<audit, store, previous>>
  BY Zenon DEF IInv, Unsubscribe
<1>2. /\ UNCHANGED audit /\ subscribed' \subseteq subscribed /\ previous' = previous
      /\ available' = available /\ cursor' = cursor /\ items' = items /\ closed' = closed
  BY <1>1 DEF store
<1>3. LogOK' /\ Grows /\ base' = base
  BY <1>1, <1>2, SameLog
<1>4. FlagsOK'
  BY <1>1, <1>2, Zenon DEF FlagsOK
<1> QED
  BY <1>2, <1>3, <1>4, UntouchedStep

LEMMA UnchangedStep ==
  ASSUME IInv, UNCHANGED storeVars
  PROVE  IInv'
<1>1. LogOK /\ FlagsOK
  BY Zenon DEF IInv
<1>2. /\ UNCHANGED audit /\ subscribed' \subseteq subscribed /\ previous' = previous
      /\ available' = available /\ cursor' = cursor /\ items' = items /\ closed' = closed
  BY DEF storeVars, store, subs
<1>3. LogOK' /\ Grows /\ base' = base
  BY <1>1, <1>2, SameLog
<1>4. FlagsOK'
  BY <1>1, <1>2, Zenon DEF FlagsOK
<1> QED
  BY <1>2, <1>3, <1>4, UntouchedStep

-----------------------------------------------------------------------------
LEMMA StoreInit == InitStore => IInv
<1> SUFFICES ASSUME InitStore PROVE IInv
  OBVIOUS
<1>1. /\ log = << >> /\ base = <<0>> /\ cursor = [epoch |-> 1, position |-> 0]
      /\ items = [k \in Kinds |-> {}] /\ subscribed = {}
      /\ previous = [s \in Subscribers |-> [epoch |-> 1, position |-> 0]]
  BY Zenon DEF InitStore
<1>2. FlagsOK
  BY Zenon DEF InitStore, FlagsOK
<1>3. Len(log) = 0 /\ Len(base) = 1 /\ base[1] = 0
  BY <1>1
<1>4. LogOK
  <2>1. log \in Seq(Kinds) /\ base \in Seq(Nat)
    BY <1>1
  <2>2. Len(log) <= MaxChanges /\ Len(base) \in 1 .. MaxEpochs
    BY <1>3, BoundAssumption
  <2>3. \A e \in 1 .. Len(base) : base[e] <= Len(log)
    BY <1>3
  <2> QED
    BY <2>1, <2>2, <2>3 DEF LogOK
<1>5. cursor \in Cursor /\ cursor.epoch = 1 /\ cursor.position = 0
  BY <1>1 DEF Cursor
<1>6. StateOK
  BY <1>1, <1>3, <1>5 DEF StateOK, Cursor
<1>7. Place(base, cursor) = 0
  BY <1>3, <1>5 DEF Place
<1>8. Replayed
  <2>1. 1 .. 0 = {}
    OBVIOUS
  <2>2. \A k : HeldOf(log, k, 0) = {}
    BY <2>1, Zenon DEF HeldOf
  <2>3. \A k \in Kinds : items[k] = {}
    BY <1>1
  <2>4. \A k \in Kinds : items[k] = HeldOf(log, k, Place(base, cursor))
    BY <1>7, <2>2, <2>3, Zenon
  <2>5. Place(base, cursor) <= Len(log)
    BY <1>3, <1>7
  <2> QED
    BY <1>3, <1>5, <2>4, <2>5, Zenon DEF Replayed
<1>9. Served /\ Linked
  BY <1>1, Zenon DEF Served, Linked
<1> QED
  BY <1>2, <1>4, <1>6, <1>8, <1>9, Zenon DEF IInv

LEMMA StoreStep == IInv /\ [StoreNext]_storeVars => IInv'
<1> SUFFICES ASSUME IInv, [StoreNext]_storeVars PROVE IInv'
  OBVIOUS
<1>1. CASE \E k \in Kinds : \E valid \in BOOLEAN : AuditChange(k, valid)
  BY <1>1, AuditChangeStep, Zenon
<1>2. CASE \E k \in Kinds : ChangeLost(k)
  BY <1>2, ChangeLostStep, Zenon
<1>3. CASE ChangeRepeated
  BY <1>3, ChangeRepeatedStep, Zenon
<1>4. CASE \E valid \in BOOLEAN : Reidentify(valid)
  BY <1>4, ReidentifyStep, Zenon
<1>5. CASE \E p \in 0 .. Position : Checkpoint(p)
  BY <1>5, RepeatedCheckpointStep, Zenon
<1>6. CASE Close
  BY <1>6, CloseStep, Zenon
<1>7. CASE \E s \in Subscribers : Subscribe(s)
  <2>1. PICK s \in Subscribers : Subscribe(s)
    BY <1>7, Zenon
  <2>2. FlagsOK'
    <3>1. FlagsOK /\ UNCHANGED store
      BY <2>1, Zenon DEF IInv, Subscribe
    <3>2. available' = available /\ closed' = closed
      BY <3>1 DEF store
    <3> QED
      BY <3>1, <3>2, Zenon DEF FlagsOK
  <2> QED
    BY <2>1, <2>2, SubscribeStep
<1>8. CASE \E S \in SUBSET Subscribers : Unsubscribe(S)
  BY <1>8, UnsubscribeStep, Zenon
<1>9. CASE UNCHANGED storeVars
  BY <1>9, UnchangedStep, Zenon
<1> QED
  BY <1>1, <1>2, <1>3, <1>4, <1>5, <1>6, <1>7, <1>8, <1>9, Zenon DEF StoreNext, SourceStep

LEMMA StoreTyped == IInv => StoreTypeOK
<1> SUFFICES ASSUME IInv PROVE StoreTypeOK
  OBVIOUS
<1>1. FlagsOK /\ LogOK /\ StateOK
  BY Zenon DEF IInv
<1>2. Epoch \in 1 .. MaxEpochs /\ Position \in 0 .. MaxChanges
  BY <1>1, AuditCursorTyped DEF LogOK
<1> QED
  BY <1>1, <1>2, Zenon DEF StoreTypeOK, FlagsOK, LogOK, StateOK

LEMMA Inductive == StoreSpec => []IInv
  BY StoreInit, StoreStep, PTL DEF StoreSpec

\* The state of the store and of its auditor keeps its types (HubStateStore).
THEOREM StoreTypeCorrect == StoreSpec => []StoreTypeOK
  BY Inductive, StoreTyped, PTL

\* What an available store offers is the replay of the log up to its cursor,
\* whatever records were lost, repeated or refused (consume, checkpoint).
THEOREM StoreReplays == StoreSpec => []StoreIsReplay
<1>1. IInv => StoreIsReplay
  BY ReplayParts, Zenon DEF IInv
<1> QED
  BY <1>1, Inductive, PTL

\* No change of its kind lies between the cursor a subscriber is linked to and
\* that of the store, so the next change it is handed continues its last (notify).
THEOREM NoLinkSkips == StoreSpec => []LinksSkipNothing
<1>1. IInv => LinksSkipNothing
  BY LinkParts, Zenon DEF IInv
<1> QED
  BY <1>1, Inductive, PTL
=============================================================================
