---------------------- MODULE SequenceInventoryProofs ----------------------
(* Theorems of SequenceInventory, for any runs, ids, requests and faults.  *)
EXTENDS SequenceInventory, TLAPS

Phases == {"idle", "resolving", "dispatching", "starting", "connected",
           "finalizing", "terminated", "ended"}
Points == {"idle", "unpacking", "killing", "removing", "refused"}

\* The parts of TypeOK.
ListOK == instances \subseteq Ids /\ unlisted \subseteq Runs
RunsOK ==
    /\ held \in [Ids -> Runs \cup {None}]
    /\ life \in [Runs -> Phases]
    /\ killed \subseteq Runs /\ fetching \subseteq Runs
RequestsOK ==
    /\ pc \in [Requests -> Points]
    /\ kills \in [Requests -> SUBSET Ids] /\ missed \in [Requests -> SUBSET Ids]
    /\ waits \in [Requests -> SUBSET Runs] /\ victims \in [Requests -> SUBSET Runs]

\* A run that has no controller yet, has one, or keeps it in the store.
Pending(r) == life[r] \in {"resolving", "dispatching"}
Started(r) == life[r] \in {"starting", "connected", "finalizing", "terminated", "ended"}
Gone(r) ==
    \/ life[r] = "ended"
    \/ IdOf[r] \in Required /\ life[r] \in {"terminated", "finalizing"}

\* An id waits for at most one run, which finds it free; a controller keeps its
\* id until it is gone; what the store has is a controller of that id.
PendingFree == \A r \in Runs : Pending(r) => held[IdOf[r]] = None
PendingAlone == \A r, s \in Runs : Pending(r) /\ Pending(s) /\ IdOf[r] = IdOf[s] => r = s
OwnerHeld == \A r \in Runs : Started(r) /\ ~Gone(r) => held[IdOf[r]] = r
HeldStarted == \A i \in Ids : held[i] # None => Started(held[i]) /\ IdOf[held[i]] = i
Owners == PendingFree /\ PendingAlone /\ OwnerHeld /\ HeldStarted

\* A deletion that kills has an eye on each victim until it is gone.
VictimsStarted == \A q \in Requests : \A r \in victims[q] : Started(r)
Watched(q, r) == IdOf[r] \in kills[q] \/ r \in waits[q] \/ missed[q] # {} \/ Gone(r)
VictimsWatched ==
    \A q \in Requests : pc[q] = "killing" => \A r \in victims[q] : Watched(q, r)

Typed == known \in BOOLEAN /\ ListOK /\ RunsOK /\ RequestsOK
IInv == Typed /\ Owners /\ ListedIsHeld /\ ConnectedIsListed /\ VictimsStarted /\ VictimsWatched

LEMMA TypeParts == TypeOK <=> Typed
  BY Zenon DEF TypeOK, Typed, ListOK, RunsOK, RequestsOK, Phases, Points

-----------------------------------------------------------------------------
(* Types.                                                                  *)

LEMMA InitTyped == Init => Typed
<1> SUFFICES ASSUME Init PROVE Typed
  OBVIOUS
<1>1. known \in BOOLEAN
  BY Zenon DEF Init
<1>2. ListOK /\ RunsOK /\ RequestsOK
  BY DEF Init, ListOK, RunsOK, RequestsOK, Phases, Points
<1> QED
  BY <1>1, <1>2 DEF Typed

\* The package handlers leave the list within its values.
LEMMA PackageTyped ==
  ASSUME ListOK, RunsOK, SetSequence \/ DeleteSequence \/ UNCHANGED sequence
  PROVE  ListOK'
<1>1. Connected \subseteq Runs
  BY DEF Connected
<1> QED
  BY <1>1 DEF ListOK, SetSequence, DeleteSequence, sequence

LEMMA KnownTyped == known \in BOOLEAN /\ [Next]_vars => known' \in BOOLEAN
<1> SUFFICES ASSUME known \in BOOLEAN, [Next]_vars PROVE known' \in BOOLEAN
  OBVIOUS
<1>1. known' = known \/ known' = TRUE \/ known' = FALSE
  BY Zenon DEF Next, RunStep, RequestStep, vars, sequence, runners, requests,
     Start, Resolved, Dispatched, Ping, Fetched, Terminated, End, SetSequence,
     DeleteSequence, Update, Unpacked, Delete, ForceDelete, KillReturns, KillFails,
     Refused, Removed
<1> QED
  BY <1>1

\* What a step of a run changes beside its own fields.
LEMMA RunTyped ==
  ASSUME ListOK, RunsOK, NEW r \in Runs, RunStep(r)
  PROVE  ListOK' /\ RunsOK'
<1> USE RunAssumption
<1>0. IdOf[r] \in Ids
  OBVIOUS
<1>1. CASE Start(r)
  BY <1>1 DEF Start, ListOK, RunsOK, Phases, sequence
<1>2. CASE Resolved(r)
  <2>1. ListOK'
    BY <1>2, PackageTyped DEF Resolved
  <2>2. RunsOK'
    BY <1>2 DEF Resolved, RunsOK, Phases
  <2> QED
    BY <2>1, <2>2
<1>3. CASE Dispatched(r)
  BY <1>0, <1>3 DEF Dispatched, ListOK, RunsOK, Phases, sequence
<1>4. CASE Ping(r)
  <2>1. ListOK'
    BY <1>0, <1>4 DEF Ping, ListOK
  <2>2. RunsOK'
    BY <1>4 DEF Ping, RunsOK, Phases
  <2> QED
    BY <2>1, <2>2
<1>5. CASE Fetched(r)
  <2>1. ListOK'
    BY <1>5, PackageTyped DEF Fetched
  <2>2. RunsOK'
    BY <1>5 DEF Fetched, RunsOK
  <2> QED
    BY <2>1, <2>2
<1>6. CASE Terminated(r)
  BY <1>0, <1>6 DEF Terminated, ListOK, RunsOK, Phases, sequence
<1>7. CASE End(r)
  BY <1>0, <1>7 DEF End, Leaves, ListOK, RunsOK, Phases
<1> QED
  BY <1>1, <1>2, <1>3, <1>4, <1>5, <1>6, <1>7 DEF RunStep

\* A run changes what requests wait for only with its end.
LEMMA RunRequestsTyped ==
  ASSUME RequestsOK, NEW r \in Runs, RunStep(r)
  PROVE  RequestsOK'
<1>1. CASE End(r)
  BY <1>1 DEF End, RequestsOK, Points
<1>2. CASE UNCHANGED requests
  BY <1>2 DEF requests, RequestsOK
<1> QED
  BY <1>1, <1>2 DEF RunStep, Start, Resolved, Dispatched, Ping, Fetched, Terminated

\* Requests change the list with the package, and runs by killing them.
LEMMA RequestKeepsRuns ==
  ASSUME ListOK, RunsOK, NEW q \in Requests, RequestStep(q)
  PROVE  ListOK' /\ RunsOK' /\ UNCHANGED <<held, life>>
<1>1. CASE ForceDelete(q)
  <2>1. \A i \in instances : InUse => held[i] \in Runs
    BY <1>1 DEF InUse, IsRunning, RunsOK, ListOK
  <2>2. InUse \/ ~InUse
    OBVIOUS
  <2>3. killed' \subseteq Runs
    BY <1>1, <2>1, <2>2 DEF ForceDelete, RunsOK
  <2>4. UNCHANGED <<sequence, held, life, fetching>>
    BY <1>1 DEF ForceDelete
  <2> QED
    BY <2>3, <2>4 DEF sequence, ListOK, RunsOK
<1>2. CASE UNCHANGED runners
  <2>1. SetSequence \/ DeleteSequence \/ UNCHANGED sequence
    BY <1>1, Zenon DEF RequestStep, Update, Unpacked, Delete, ForceDelete, KillReturns, KillFails, Refused, Removed
  <2> QED
    BY <1>2, <2>1, PackageTyped DEF runners, RunsOK
<1> QED
  BY <1>1, <1>2, Zenon DEF RequestStep, Update, Unpacked, Delete, KillReturns, KillFails,
     Refused, Removed

LEMMA RequestsTyped ==
  ASSUME ListOK, RunsOK, RequestsOK, NEW q \in Requests, RequestStep(q)
  PROVE  RequestsOK'
<1>1. CASE Update(q) \/ Unpacked(q) \/ Delete(q)
  BY <1>1 DEF Update, Unpacked, Delete, RequestsOK, Points
<1>2. CASE ForceDelete(q)
  <2>1. InUse => {held[i] : i \in instances} \in SUBSET Runs
    BY <1>2 DEF InUse, IsRunning, RunsOK, ListOK
  <2>2. kills' \in [Requests -> SUBSET Ids]
    BY <1>2 DEF ForceDelete, RequestsOK, ListOK
  <2>3. victims' \in [Requests -> SUBSET Runs]
    <3>1. CASE InUse
      BY <1>2, <2>1, <3>1 DEF ForceDelete, RequestsOK
    <3>2. CASE ~InUse
      BY <1>2, <3>2 DEF ForceDelete, RequestsOK
    <3> QED
      BY <3>1, <3>2
  <2>4. pc' \in [Requests -> Points] /\ UNCHANGED <<waits, missed>>
    BY <1>2 DEF ForceDelete, RequestsOK, Points
  <2> QED
    BY <2>2, <2>3, <2>4 DEF RequestsOK
<1>3. ASSUME NEW i \in Ids, KillReturns(q, i) PROVE RequestsOK'
  BY <1>3 DEF KillReturns, RequestsOK, RunsOK
<1>4. ASSUME NEW i \in Ids, KillFails(q, i) PROVE RequestsOK'
  BY <1>4 DEF KillFails, Answered, RequestsOK, Points
<1>5. CASE Refused(q) \/ Removed(q)
  BY <1>5 DEF Refused, Removed, Answered, RequestsOK, Points
<1> QED
  BY <1>1, <1>2, <1>3, <1>4, <1>5 DEF RequestStep

LEMMA NextTyped == Typed /\ [Next]_vars => Typed'
<1> SUFFICES ASSUME Typed, [Next]_vars PROVE Typed'
  OBVIOUS
<1>1. known' \in BOOLEAN
  BY KnownTyped DEF Typed
<1>2. ListOK /\ RunsOK /\ RequestsOK
  BY DEF Typed
<1>3. ASSUME NEW r \in Runs, RunStep(r) PROVE Typed'
  BY <1>1, <1>2, <1>3, RunTyped, RunRequestsTyped, Zenon DEF Typed
<1>4. ASSUME NEW q \in Requests, RequestStep(q) PROVE Typed'
  BY <1>1, <1>2, <1>4, RequestKeepsRuns, RequestsTyped, Zenon DEF Typed
<1>5. CASE UNCHANGED vars
  BY <1>1, <1>2, <1>5 DEF Typed, vars, sequence, runners, requests, ListOK, RunsOK, RequestsOK
<1> QED
  BY <1>3, <1>4, <1>5, Zenon DEF Next

-----------------------------------------------------------------------------
(* Who has an id.                                                          *)

LEMMA InitOwners == Init => Owners
  BY RunAssumption DEF Init, Owners, PendingFree, PendingAlone, OwnerHeld, HeldStarted,
     Pending, Started, Gone

\* Nothing but a run changes who has an id.
LEMMA OwnersUnchanged ==
  ASSUME Owners, UNCHANGED <<held, life>>
  PROVE  Owners'
  BY DEF Owners, PendingFree, PendingAlone, OwnerHeld, HeldStarted, Pending, Started, Gone

LEMMA RunOwners ==
  ASSUME RunsOK, Owners, NEW r \in Runs, RunStep(r)
  PROVE  Owners'
<1> USE RunAssumption DEF Owners, PendingFree, PendingAlone, OwnerHeld, HeldStarted,
        Pending, Started, Gone, RunsOK
<1>0. IdOf[r] \in Ids /\ \A s \in Runs : IdOf[s] \in Ids
  OBVIOUS
<1>1. CASE Start(r)
  BY <1>0, <1>1 DEF Start
<1>2. CASE Resolved(r)
  BY <1>0, <1>2 DEF Resolved
<1>3. CASE Dispatched(r)
  BY <1>0, <1>3 DEF Dispatched
<1>4. CASE Ping(r)
  BY <1>0, <1>4 DEF Ping
<1>5. CASE Fetched(r)
  BY <1>5 DEF Fetched
<1>6. CASE Terminated(r)
  BY <1>0, <1>6 DEF Terminated
<1>7. CASE End(r)
  BY <1>0, <1>7 DEF End, Leaves
<1> QED
  BY <1>1, <1>2, <1>3, <1>4, <1>5, <1>6, <1>7 DEF RunStep

-----------------------------------------------------------------------------
(* What the sequence lists.                                                *)

Listing == ListedIsHeld /\ ConnectedIsListed

\* An empty list misleads nobody, and lists nobody of those it had.
LEMMA PackageListing ==
  ASSUME ListOK, Listing, UNCHANGED held, Connected' \subseteq Connected,
         SetSequence \/ DeleteSequence \/ UNCHANGED sequence
  PROVE  Listing'
<1>1. ListedIsHeld'
  BY DEF Listing, ListedIsHeld, SetSequence, DeleteSequence, sequence
<1>2. ConnectedIsListed'
  BY DEF Listing, ConnectedIsListed, SetSequence, DeleteSequence, sequence
<1> QED
  BY <1>1, <1>2 DEF Listing

LEMMA RunListing ==
  ASSUME ListOK, RunsOK, Owners, Listing, NEW r \in Runs, RunStep(r)
  PROVE  Listing'
<1> USE RunAssumption
<1>0. IdOf[r] \in Ids /\ \A s \in Runs : IdOf[s] \in Ids
  OBVIOUS
<1>1. CASE Start(r) \/ Resolved(r) \/ Fetched(r)
  <2>1. Connected' \subseteq Connected
    BY <1>1 DEF Start, Resolved, Fetched, Connected, RunsOK
  <2>2. UNCHANGED held
    BY <1>1 DEF Start, Resolved, Fetched
  <2>3. SetSequence \/ DeleteSequence \/ UNCHANGED sequence
    BY <1>1, Zenon DEF Start, Resolved, Fetched
  <2> QED
    BY <2>1, <2>2, <2>3, PackageListing
<1>2. CASE Dispatched(r)
  <2>1. Connected' \subseteq Connected /\ UNCHANGED sequence
    BY <1>2 DEF Dispatched, Connected, RunsOK
  <2>2. held' = [held EXCEPT ![IdOf[r]] = r]
    BY <1>2 DEF Dispatched
  <2>3. \A i \in Ids : held[i] # None => held'[i] # None
    BY <1>0, <2>2 DEF RunsOK
  <2> QED
    BY <2>1, <2>3 DEF Listing, ListedIsHeld, ConnectedIsListed, sequence, ListOK
<1>3. CASE Ping(r)
  <2>1. held[IdOf[r]] = r /\ UNCHANGED <<held, known>>
    BY <1>3 DEF Ping, Owners, OwnerHeld, Started, Gone
  <2>2. Connected' \subseteq Connected \cup {r}
    BY <1>3 DEF Ping, Connected, RunsOK
  <2>3. known => instances' = instances \cup {IdOf[r]} /\ UNCHANGED unlisted
    BY <1>3 DEF Ping
  <2>4. ~known => UNCHANGED instances
    BY <1>3 DEF Ping
  <2>5. ListedIsHeld'
    BY <2>1, <2>3, <2>4 DEF Listing, ListedIsHeld
  <2>6. ConnectedIsListed'
    BY <2>1, <2>2, <2>3 DEF Listing, ConnectedIsListed
  <2> QED
    BY <2>5, <2>6 DEF Listing
<1>4. CASE Terminated(r)
  <2>1. /\ Connected' \subseteq Connected \ {r} /\ unlisted' = unlisted \ {r}
        /\ UNCHANGED <<known, instances>>
    BY <1>4 DEF Terminated, Connected, RunsOK
  <2>2. \A i \in Ids \ Required : held'[i] = held[i]
    BY <1>0, <1>4 DEF Terminated, RunsOK
  <2> QED
    BY <2>1, <2>2 DEF Listing, ListedIsHeld, ConnectedIsListed, ListOK
<1>5. CASE End(r)
  <2>1. Connected' \subseteq Connected /\ UNCHANGED <<known, unlisted>>
    BY <1>5 DEF End, Connected, RunsOK
  <2>2. CASE held[IdOf[r]] = r
    <3>1. instances' = instances \ {IdOf[r]} /\ \A i \in Ids \ {IdOf[r]} : held'[i] = held[i]
      BY <1>0, <1>5, <2>2 DEF End, Leaves, RunsOK
    <3>2. \A s \in Connected' : IdOf[s] # IdOf[r]
      BY <1>5, <2>1, <2>2 DEF End, Connected, RunsOK, Owners, OwnerHeld, Started, Gone
    <3> QED
      BY <2>1, <3>1, <3>2 DEF Listing, ListedIsHeld, ConnectedIsListed, ListOK
  <2>3. CASE held[IdOf[r]] # r
    <3>1. UNCHANGED <<instances, held>>
      BY <1>5, <2>3 DEF End, Leaves
    <3> QED
      BY <2>1, <3>1 DEF Listing, ListedIsHeld, ConnectedIsListed
  <2> QED
    BY <2>2, <2>3
<1> QED
  BY <1>1, <1>2, <1>3, <1>4, <1>5 DEF RunStep

LEMMA RequestListing ==
  ASSUME ListOK, RunsOK, Listing, NEW q \in Requests, RequestStep(q)
  PROVE  Listing'
<1>1. UNCHANGED <<held, life>>
  BY RequestKeepsRuns
<1>2. Connected' \subseteq Connected
  BY <1>1 DEF Connected
<1>3. SetSequence \/ DeleteSequence \/ UNCHANGED sequence
  BY Zenon DEF RequestStep, Update, Unpacked, Delete, ForceDelete, KillReturns,
     KillFails, Refused, Removed
<1> QED
  BY <1>1, <1>2, <1>3, PackageListing

-----------------------------------------------------------------------------
(* What a forced deletion waits for.                                       *)

Victims == VictimsStarted /\ VictimsWatched

\* A run that has started stays so, and one that is gone stays gone.
LEMMA RunGoesOn ==
  ASSUME RunsOK, NEW r \in Runs, RunStep(r), NEW s \in Runs
  PROVE  (Started(s) => Started(s)') /\ (Gone(s) => Gone(s)')
  BY DEF RunStep, Start, Resolved, Dispatched, Ping, Fetched, Terminated, End,
     RunsOK, Started, Gone

LEMMA RunVictims ==
  ASSUME RunsOK, RequestsOK, Victims, NEW r \in Runs, RunStep(r)
  PROVE  Victims'
<1>1. \A s \in Runs : (Started(s) => Started(s)') /\ (Gone(s) => Gone(s)')
  BY RunGoesOn
<1>2. \A q \in Requests : victims[q] \subseteq Runs
  BY DEF RequestsOK
<1>3. UNCHANGED <<kills, missed, victims>>
  BY DEF RunStep, Start, Resolved, Dispatched, Ping, Fetched, Terminated, End, requests
<1>4. VictimsStarted'
  BY <1>1, <1>2, <1>3 DEF Victims, VictimsStarted
<1>5. CASE End(r)
  <2>1. Gone(r)'
    BY <1>5 DEF End, Gone, RunsOK
  <2>2. \A q \in Requests : waits'[q] = waits[q] \ {r}
    BY <1>5 DEF End
  <2>3. \A q \in Requests : pc'[q] = "killing" => pc[q] = "killing"
    BY <1>5 DEF End
  <2>4. ASSUME NEW q \in Requests, NEW s \in victims[q], Watched(q, s) PROVE Watched(q, s)'
    BY <1>1, <1>2, <1>3, <2>1, <2>2, <2>4 DEF Watched
  <2> QED
    BY <1>3, <1>4, <2>3, <2>4 DEF Victims, VictimsWatched
<1>6. CASE UNCHANGED requests
  BY <1>1, <1>2, <1>4, <1>6 DEF Victims, VictimsWatched, Watched, requests
<1> QED
  BY <1>5, <1>6 DEF RunStep, Start, Resolved, Dispatched, Ping, Fetched, Terminated

LEMMA RequestVictims ==
  ASSUME ListOK, RunsOK, RequestsOK, Owners, Victims, NEW q \in Requests, RequestStep(q)
  PROVE  Victims'
<1>1. UNCHANGED <<held, life>>
  BY RequestKeepsRuns
<1>2. \A s \in Runs : (Started(s) <=> Started(s)') /\ (Gone(s) <=> Gone(s)')
  BY <1>1 DEF Started, Gone
<1>3. \A p \in Requests : victims[p] \subseteq Runs
  BY DEF RequestsOK
<1> USE DEF Victims, VictimsStarted, VictimsWatched, Watched, RequestsOK
<1>4. CASE Update(q) \/ Unpacked(q) \/ Delete(q)
  BY <1>2, <1>3, <1>4 DEF Update, Unpacked, Delete
<1>5. CASE ForceDelete(q)
  <2>1. CASE InUse
    <3>1. \A i \in instances : held[i] # None /\ i \in Ids
      BY <2>1 DEF InUse, IsRunning, ListOK
    <3>2. \A i \in instances : held[i] \in Runs /\ Started(held[i]) /\ IdOf[held[i]] = i
      BY <3>1 DEF Owners, HeldStarted, RunsOK
    <3>3. pc' = [pc EXCEPT ![q] = "killing"] /\ kills' = [kills EXCEPT ![q] = instances]
      BY <1>5, <2>1 DEF ForceDelete
    <3>4. victims' = [victims EXCEPT ![q] = {held[i] : i \in instances}]
      BY <1>5, <2>1 DEF ForceDelete
    <3>5. UNCHANGED <<waits, missed>>
      BY <1>5 DEF ForceDelete
    <3>6. \A s \in victims'[q] : Started(s) /\ s \in Runs /\ IdOf[s] \in kills'[q]
      BY <3>2, <3>3, <3>4
    <3>7. \A p \in Requests \ {q} : victims'[p] = victims[p] /\ kills'[p] = kills[p] /\ pc'[p] = pc[p]
      BY <3>3, <3>4
    <3> QED
      BY <1>2, <1>3, <3>5, <3>6, <3>7
  <2>2. CASE ~InUse
    <3>1. pc' = [pc EXCEPT ![q] = "removing"] /\ UNCHANGED <<kills, victims, waits, missed>>
      BY <1>5, <2>2 DEF ForceDelete
    <3> QED
      BY <1>2, <1>3, <3>1
  <2> QED
    BY <2>1, <2>2
<1>6. ASSUME NEW i \in Ids, KillReturns(q, i) PROVE Victims'
  <2>1. \A s \in Runs : Started(s) /\ IdOf[s] = i => held[i] = s \/ Gone(s)
    BY DEF Owners, OwnerHeld
  <2>2. UNCHANGED <<pc, victims>> /\ kills' = [kills EXCEPT ![q] = @ \ {i}]
    BY <1>6 DEF KillReturns
  <2>3. CASE held[i] = None
    <3>1. missed' = [missed EXCEPT ![q] = @ \cup {i}] /\ UNCHANGED waits
      BY <1>6, <2>3 DEF KillReturns
    <3> QED
      BY <1>2, <1>3, <2>2, <3>1
  <2>4. CASE held[i] # None
    <3>1. waits' = [waits EXCEPT ![q] = @ \cup {held[i]}] /\ UNCHANGED missed
      BY <1>6, <2>4 DEF KillReturns
    <3> QED
      BY <1>2, <1>3, <2>1, <2>2, <3>1
  <2> QED
    BY <2>3, <2>4
<1>7. ASSUME NEW i \in Ids, KillFails(q, i) PROVE Victims'
  BY <1>2, <1>3, <1>7 DEF KillFails, Answered
<1>8. CASE Refused(q) \/ Removed(q)
  BY <1>2, <1>3, <1>8 DEF Refused, Removed, Answered
<1> QED
  BY <1>4, <1>5, <1>6, <1>7, <1>8 DEF RequestStep

-----------------------------------------------------------------------------
(* The inductive invariant and the theorems.                               *)

LEMMA InitIInv == Init => IInv
<1> SUFFICES ASSUME Init PROVE IInv
  OBVIOUS
<1>1. Typed /\ Owners
  BY InitTyped, InitOwners
<1>2. ListedIsHeld /\ ConnectedIsListed
  BY DEF Init, ListedIsHeld, ConnectedIsListed, Connected
<1>3. VictimsStarted /\ VictimsWatched
  BY DEF Init, VictimsStarted, VictimsWatched
<1> QED
  BY <1>1, <1>2, <1>3 DEF IInv

LEMMA NextIInv == IInv /\ [Next]_vars => IInv'
<1> SUFFICES ASSUME IInv, [Next]_vars PROVE IInv'
  OBVIOUS
<1>1. Typed'
  BY NextTyped DEF IInv
<1>2. ListOK /\ RunsOK /\ RequestsOK /\ Owners /\ Listing /\ Victims
  BY DEF IInv, Typed, Listing, Victims
<1>3. Owners' /\ Listing' /\ Victims'
  <2>1. ASSUME NEW r \in Runs, RunStep(r) PROVE Owners' /\ Listing' /\ Victims'
    BY <1>2, <2>1, RunOwners, RunListing, RunVictims, Zenon
  <2>2. ASSUME NEW q \in Requests, RequestStep(q) PROVE Owners' /\ Listing' /\ Victims'
    BY <1>2, <2>2, RequestKeepsRuns, OwnersUnchanged, RequestListing, RequestVictims, Zenon
  <2>3. CASE UNCHANGED vars
    <3>1. UNCHANGED <<held, life>> /\ UNCHANGED sequence /\ UNCHANGED requests
      BY <2>3 DEF vars, runners
    <3>2. Listing'
      BY <1>2, <3>1 DEF Listing, ListedIsHeld, ConnectedIsListed, Connected, sequence
    <3>3. Victims'
      BY <1>2, <3>1 DEF Victims, VictimsStarted, VictimsWatched, Watched, Started, Gone, requests
    <3> QED
      BY <1>2, <3>1, <3>2, <3>3, OwnersUnchanged
  <2> QED
    BY <2>1, <2>2, <2>3, Zenon DEF Next
<1> QED
  BY <1>1, <1>3 DEF IInv, Listing, Victims

LEMMA Invariance == Spec => []IInv
  BY InitIInv, NextIInv, PTL DEF Spec

\* Every field of the host's sequence, of its runs and of the requests stays
\* within its values: no deletion waits for a controller that is not there
\* (deleteSequence(), host.ts:1232).
THEOREM TypeCorrect == Spec => []TypeOK
<1>1. IInv => TypeOK
  BY TypeParts DEF IInv
<1> QED
  BY <1>1, Invariance, PTL

\* Only a required instance can be listed after it left the store
\* (csi-dispatcher.ts:229).
THEOREM ListedAreHeld == Spec => []ListedIsHeld
<1>1. IInv => ListedIsHeld
  BY DEF IInv
<1> QED
  BY <1>1, Invariance, PTL

\* A connected instance is listed, unless its sequence was deleted or replaced
\* (csi-dispatcher.ts:226).
THEOREM ConnectedAreListed == Spec => []ConnectedIsListed
<1>1. IInv => ConnectedIsListed
  BY DEF IInv
<1> QED
  BY <1>1, Invariance, PTL

\* A step that ends the wait of a forced deletion is the end of its last victim.
LEMMA WaitIsOver ==
  ASSUME IInv, IInv', [Next]_vars, NEW q \in Requests,
         pc[q] = "killing", pc'[q] = "removing"
  PROVE  \A s \in victims[q] : Gone(s)'
<1>1. PICK r \in Runs : End(r)
  <2>1. ASSUME NEW p \in Requests, RequestStep(p) PROVE FALSE
    BY <2>1 DEF RequestStep, Update, Unpacked, Delete, ForceDelete, KillReturns,
       KillFails, Refused, Removed, Answered, IInv, Typed, RequestsOK
  <2>2. ~UNCHANGED requests
    BY DEF requests
  <2>3. PICK r \in Runs : RunStep(r)
    BY <2>1, <2>2, Zenon DEF Next, vars
  <2> QED
    BY <2>2, <2>3 DEF RunStep, Start, Resolved, Dispatched, Ping, Fetched, Terminated
<1>2. r \in waits[q] /\ waits'[q] \cup kills[q] \cup missed[q] = {}
  BY <1>1 DEF End, IInv, Typed, RequestsOK
<1>3. UNCHANGED <<kills, missed, victims>> /\ waits'[q] = waits[q] \ {r}
  BY <1>1 DEF End
<1>4. \A s \in victims[q] : s \in Runs /\ Watched(q, s)
  BY DEF IInv, VictimsWatched, Typed, RequestsOK
<1>5. \A s \in Runs : Gone(s) => Gone(s)'
  BY <1>1, RunGoesOn DEF RunStep, IInv, Typed
<1>6. Gone(r)'
  BY <1>1 DEF End, Gone, IInv, Typed, RunsOK
<1>7. ASSUME NEW s \in victims[q] PROVE Gone(s)'
  <2>1. s = r \/ Gone(s)
    BY <1>2, <1>3, <1>4 DEF Watched
  <2> QED
    BY <1>4, <1>5, <1>6, <2>1
<1> QED
  BY <1>7

\* A forced deletion removes the package only after the last of its victims has
\* ended, or terminated if the host launches it again (host.ts:1228).
THEOREM ForcedRemovalWaits == Spec => ForcedRemovalIsLast
<1> DEFINE Step ==
      \A q \in Requests : pc[q] = "killing" /\ pc'[q] = "removing" =>
          \A r \in victims[q] :
              \/ life'[r] = "ended"
              \/ IdOf[r] \in Required /\ life'[r] \in {"terminated", "finalizing"}
<1>1. IInv /\ IInv' /\ [Next]_vars => [Step]_vars
  BY WaitIsOver DEF Gone
<1> QED
  BY <1>1, Invariance, PTL DEF Spec, ForcedRemovalIsLast
=============================================================================
