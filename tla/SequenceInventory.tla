------------------------- MODULE SequenceInventory -------------------------
(***************************************************************************)
(* One sequence of a hub and the ids of the instances it lists: uploads,   *)
(* updates, acquisitions from the manager's store and deletions, against   *)
(* runners that connect, terminate and end at any time.  Sequences share   *)
(* nothing but the map that holds them, so one is enough.                  *)
(*                                                                         *)
(* A run is one attempt to start a runner and the controller it makes,     *)
(* which terminates once and then ends once (InstanceOwnership); a start   *)
(* that fails goes no further.  A request is a deletion or an update in    *)
(* progress.  A step is what the code runs between two awaits.  Runners    *)
(* report the adapter of their hub, and PING comes before the end.         *)
(***************************************************************************)
EXTENDS FiniteSets

CONSTANTS
    Runs,       \* attempts to start a runner
    Ids,        \* instance ids
    IdOf,       \* the id of each run
    Required,   \* ids of required startup entries: launched again
    None,
    Requests,
    Faults      \* "kill": kill() may reject, "manager": there is one to fetch from

ASSUME RunAssumption ==
    /\ IdOf \in [Runs -> Ids] /\ Required \subseteq Ids /\ None \notin Runs
    /\ \A r, s \in Runs : IdOf[r] = IdOf[s] => r = s \/ IdOf[r] \in Required
ASSUME FaultAssumption == Faults \subseteq {"kill", "manager"}

VARIABLES
    known, instances,   \* the sequence is in the SequenceStore; what it lists
    held,               \* InstancesStore: the run whose controller has an id
    life,               \* where each run stands
    killed,             \* runs that were told to go, without extension, and have
                        \* not terminated yet
    fetching,           \* connected runs whose sequence is fetched
    pc,                 \* where each request stands
    kills,              \* ids whose kill() it awaits
    waits,              \* runs whose "end" it awaits
    missed,             \* ids with no controller left to await it from
    victims,            \* history: the runs it kills
    unlisted            \* history: connected runs that left the list with a
                        \* sequence deleted or replaced, or never entered it

sequence == <<known, instances, unlisted>>
runners == <<held, life, killed, fetching>>
requests == <<pc, kills, waits, missed, victims>>
vars == <<sequence, runners, requests>>

\* The sequence was uploaded, or identified at the start of the hub.
Init ==
    /\ known = TRUE /\ instances = {} /\ unlisted = {}
    /\ held = [i \in Ids |-> None]
    /\ life = [r \in Runs |-> "idle"]
    /\ killed = {} /\ fetching = {}
    /\ pc = [q \in Requests |-> "idle"]
    /\ kills = [q \in Requests |-> {}] /\ waits = [q \in Requests |-> {}]
    /\ missed = [q \in Requests |-> {}] /\ victims = [q \in Requests |-> {}]

Connected == {r \in Runs : life[r] = "connected"}

-----------------------------------------------------------------------------
(* The package.                                                            *)

\* The end of addSequence(): the sequence is new and lists nothing.
SetSequence ==
    /\ known' = TRUE /\ instances' = {}
    /\ unlisted' = unlisted \cup Connected

\* store.delete(); nothing happens to an id that is gone.
DeleteSequence ==
    /\ known' = FALSE /\ instances' = {}
    /\ unlisted' = unlisted \cup Connected

\* handleUpdateSequence(): refused while the sequence lists an instance.
Update(q) ==
    /\ pc[q] = "idle" /\ known /\ instances = {}
    /\ pc' = [pc EXCEPT ![q] = "unpacking"]
    /\ UNCHANGED <<sequence, runners, kills, waits, missed, victims>>

\* The package was read and identified, or was not.
Unpacked(q) ==
    /\ pc[q] = "unpacking"
    /\ pc' = [pc EXCEPT ![q] = "idle"]
    /\ SetSequence \/ UNCHANGED sequence
    /\ UNCHANGED <<runners, kills, waits, missed, victims>>

-----------------------------------------------------------------------------
(* Runs.                                                                   *)

\* A start finds the sequence or asks the manager for it; the host launches a
\* required instance again when its id is free.
Start(r) ==
    /\ life[r] = "idle" /\ held[IdOf[r]] = None
    /\ \A s \in Runs : IdOf[s] = IdOf[r] => life[s] \notin {"resolving", "dispatching"}
    /\ \/ known /\ life' = [life EXCEPT ![r] = "dispatching"]
       \/ /\ ~known /\ "manager" \in Faults /\ IdOf[r] \notin Required
          /\ life' = [life EXCEPT ![r] = "resolving"]
    /\ UNCHANGED <<sequence, held, killed, fetching, requests>>

Resolved(r) ==
    /\ life[r] = "resolving"
    /\ \/ SetSequence /\ life' = [life EXCEPT ![r] = "dispatching"]
       \/ UNCHANGED sequence /\ life' = [life EXCEPT ![r] = "idle"]
    /\ UNCHANGED <<held, killed, fetching, requests>>

Dispatched(r) ==
    /\ life[r] = "dispatching"
    /\ life' = [life EXCEPT ![r] = "starting"]
    /\ held' = [held EXCEPT ![IdOf[r]] = r]
    /\ UNCHANGED <<sequence, killed, fetching, requests>>

\* PING lists the instance in the sequence of that moment.  Without one, the
\* host fetches it, and does not list the instance that asked.
Ping(r) ==
    /\ life[r] = "starting"
    /\ life' = [life EXCEPT ![r] = "connected"]
    /\ IF known
       THEN instances' = instances \cup {IdOf[r]} /\ UNCHANGED <<unlisted, fetching>>
       ELSE /\ unlisted' = unlisted \cup {r}
            /\ fetching' = IF "manager" \in Faults THEN fetching \cup {r} ELSE fetching
            /\ UNCHANGED instances
    /\ UNCHANGED <<known, held, killed, requests>>

Fetched(r) ==
    /\ r \in fetching
    /\ fetching' = fetching \ {r}
    /\ SetSequence \/ UNCHANGED sequence
    /\ UNCHANGED <<held, life, killed, requests>>

\* "terminated": a required instance that the host still tracks leaves the store
\* now; it is not tracked any more if its launch failed after the dispatch.  Its
\* controller may extend its lifetime unless it was killed.
Terminated(r) ==
    /\ life[r] \in {"starting", "connected"}
    /\ \E phase \in {"terminated"} \cup IF r \in killed THEN {} ELSE {"finalizing"} :
          life' = [life EXCEPT ![r] = phase]
    /\ \/ UNCHANGED held
       \/ /\ IdOf[r] \in Required /\ held[IdOf[r]] = r
          /\ held' = [held EXCEPT ![IdOf[r]] = None]
    /\ unlisted' = unlisted \ {r} /\ killed' = killed \ {r}
    /\ UNCHANGED <<known, instances, fetching, requests>>

\* Mutant: an end removes whatever has its id.
LeavesAnyway(r) ==
    /\ instances' = instances \ {IdOf[r]}
    /\ held' = [held EXCEPT ![IdOf[r]] = None]

\* Mutant: an end leaves the list as it is.
LeavesStoreOnly(r) ==
    /\ held' = IF held[IdOf[r]] = r THEN [held EXCEPT ![IdOf[r]] = None] ELSE held
    /\ UNCHANGED instances

\* An end leaves the list and the store only while the id is its own.
Leaves(r) ==
    IF held[IdOf[r]] = r
    THEN /\ instances' = instances \ {IdOf[r]}
         /\ held' = [held EXCEPT ![IdOf[r]] = None]
    ELSE UNCHANGED <<instances, held>>

\* A request goes on when the last of its instances has ended.
End(r) ==
    /\ life[r] \in {"terminated", "finalizing"}
    /\ life' = [life EXCEPT ![r] = "ended"]
    /\ Leaves(r)
    /\ waits' = [q \in Requests |-> waits[q] \ {r}]
    /\ pc' = [q \in Requests |->
                IF r \in waits[q] /\ waits'[q] \cup kills[q] \cup missed[q] = {}
                THEN "removing" ELSE pc[q]]
    /\ UNCHANGED <<known, unlisted, killed, fetching, kills, missed, victims>>

-----------------------------------------------------------------------------
(* Deletions.                                                              *)

IsRunning(i) == held[i] # None /\ life[held[i]] # "finalizing"
InUse == instances # {} /\ \A i \in instances : IsRunning(i)

\* Unforced: refused if every listed instance runs.
Delete(q) ==
    /\ pc[q] = "idle" /\ known
    /\ pc' = [pc EXCEPT ![q] = IF InUse THEN "refused" ELSE "removing"]
    /\ UNCHANGED <<sequence, runners, kills, waits, missed, victims>>

\* Mutant: a forced deletion asks nobody to go.
ForceDeleteKillsNone(q) ==
    /\ pc[q] = "idle" /\ known
    /\ IF InUse
       THEN /\ pc' = [pc EXCEPT ![q] = "killing"]
            /\ kills' = [kills EXCEPT ![q] = instances]
            /\ victims' = [victims EXCEPT ![q] = {held[i] : i \in instances}]
       ELSE pc' = [pc EXCEPT ![q] = "removing"] /\ UNCHANGED <<kills, victims>>
    /\ UNCHANGED <<sequence, runners, waits, missed>>

\* Forced: kill() is called on every listed instance, if every one runs.
ForceDelete(q) ==
    /\ pc[q] = "idle" /\ known
    /\ IF InUse
       THEN /\ pc' = [pc EXCEPT ![q] = "killing"]
            /\ kills' = [kills EXCEPT ![q] = instances]
            /\ victims' = [victims EXCEPT ![q] = {held[i] : i \in instances}]
            /\ killed' = killed \cup {held[i] : i \in instances}
       ELSE pc' = [pc EXCEPT ![q] = "removing"] /\ UNCHANGED <<kills, victims, killed>>
    /\ UNCHANGED <<sequence, held, life, fetching, waits, missed>>

\* Mutant: the first kill() that returns is enough.
KillReturnsFirst(q, i) ==
    /\ pc[q] = "killing" /\ i \in kills[q]
    /\ kills' = [kills EXCEPT ![q] = {}]
    /\ IF held[i] = None
       THEN missed' = [missed EXCEPT ![q] = @ \cup {i}] /\ UNCHANGED waits
       ELSE waits' = [waits EXCEPT ![q] = @ \cup {held[i]}] /\ UNCHANGED missed
    /\ UNCHANGED <<sequence, runners, pc, victims>>

\* kill() resolves: the deletion awaits the end of the controller that has the
\* id now.  If none has, no end will settle its promise.
KillReturns(q, i) ==
    /\ pc[q] = "killing" /\ i \in kills[q]
    /\ kills' = [kills EXCEPT ![q] = @ \ {i}]
    /\ IF held[i] = None
       THEN missed' = [missed EXCEPT ![q] = @ \cup {i}] /\ UNCHANGED waits
       ELSE waits' = [waits EXCEPT ![q] = @ \cup {held[i]}] /\ UNCHANGED missed
    /\ UNCHANGED <<sequence, runners, pc, victims>>

\* The request is over, whatever its promises do later.
Answered(q, from) ==
    /\ pc[q] \in from
    /\ pc' = [pc EXCEPT ![q] = "idle"]
    /\ kills' = [kills EXCEPT ![q] = {}] /\ waits' = [waits EXCEPT ![q] = {}]
    /\ missed' = [missed EXCEPT ![q] = {}] /\ victims' = [victims EXCEPT ![q] = {}]

\* kill() rejects, and the deletion with it.
KillFails(q, i) ==
    /\ "kill" \in Faults /\ i \in kills[q]
    /\ Answered(q, {"killing"})
    /\ UNCHANGED <<sequence, runners>>

Refused(q) ==
    /\ Answered(q, {"refused"})
    /\ UNCHANGED <<sequence, runners>>

\* adapter.remove() resolves or rejects.
Removed(q) ==
    /\ Answered(q, {"removing"})
    /\ DeleteSequence \/ UNCHANGED sequence
    /\ UNCHANGED runners

-----------------------------------------------------------------------------
RunStep(r) ==
    \/ Start(r) \/ Resolved(r) \/ Dispatched(r) \/ Ping(r) \/ Fetched(r)
    \/ Terminated(r) \/ End(r)

RequestStep(q) ==
    \/ Update(q) \/ Unpacked(q) \/ Delete(q) \/ ForceDelete(q)
    \/ \E i \in Ids : KillReturns(q, i) \/ KillFails(q, i)
    \/ Refused(q) \/ Removed(q)

Next == (\E r \in Runs : RunStep(r)) \/ (\E q \in Requests : RequestStep(q))

Spec == Init /\ [][Next]_vars

\* A killed instance goes, and a terminated one ends (InstanceLifecycle); the
\* awaits of a request end.
FairSpec ==
    /\ Spec
    /\ \A r \in Runs : WF_vars((r \in killed /\ Terminated(r)) \/ End(r))
    /\ \A q \in Requests, i \in Ids : WF_vars(KillReturns(q, i))
    /\ \A q \in Requests : WF_vars(Unpacked(q) \/ Refused(q) \/ Removed(q))

-----------------------------------------------------------------------------
(* Properties.                                                             *)

\* Every field stays within its values, and a request that has nothing to wait
\* for does not wait (deleteSequence(), host.ts:1202).
TypeOK ==
    /\ known \in BOOLEAN /\ instances \subseteq Ids /\ unlisted \subseteq Runs
    /\ held \in [Ids -> Runs \cup {None}]
    /\ life \in [Runs -> {"idle", "resolving", "dispatching", "starting", "connected",
                          "finalizing", "terminated", "ended"}]
    /\ killed \subseteq Runs /\ fetching \subseteq Runs
    /\ pc \in [Requests -> {"idle", "unpacking", "killing", "removing", "refused"}]
    /\ kills \in [Requests -> SUBSET Ids] /\ missed \in [Requests -> SUBSET Ids]
    /\ waits \in [Requests -> SUBSET Runs] /\ victims \in [Requests -> SUBSET Runs]

\* A connected instance is listed by its sequence, unless the sequence was
\* deleted or replaced since it connected, or before: no end of an earlier
\* instance with its id takes it off (csi-dispatcher.ts:226).
ConnectedIsListed ==
    known => \A r \in Connected \ unlisted : IdOf[r] \in instances

\* Only a required instance can be listed after it has left the store: no other
\* id stays behind to mislead updates and deletions (csi-dispatcher.ts:229).
ListedIsHeld == \A i \in instances \ Required : held[i] # None

\* A forced deletion removes the package only after each instance it killed has
\* ended, or terminated if the host may launch it again (host.ts:1228).
ForcedRemovalIsLast ==
    [][\A q \in Requests : pc[q] = "killing" /\ pc'[q] = "removing" =>
          \A r \in victims[q] :
              \/ life'[r] = "ended"
              \/ IdOf[r] \in Required /\ life'[r] \in {"terminated", "finalizing"}]_vars

\* A forced deletion is answered, unless an instance ended before its kill()
\* returned or the host may have launched one again (host.ts:1232).
ForcedDeletionAnswers ==
    \A q \in Requests :
        pc[q] = "killing" ~> \/ pc[q] # "killing" \/ missed[q] # {}
                             \/ \E r \in victims[q] : IdOf[r] \in Required
=============================================================================
