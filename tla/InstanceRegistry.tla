-------------------------- MODULE InstanceRegistry --------------------------
(***************************************************************************)
(* Who owns which instance id and name on one hub: the InstancesStore, the *)
(* starts that reserve in it (Host.startSequence, CSIDispatcher.startRunner)*)
(* and what the host does when an instance terminates and ends, which for  *)
(* a required startup entry is to launch it again under the same id.       *)
(*                                                                         *)
(* A run is one attempt to start a runner and the controller it makes, if  *)
(* it gets so far.  The controller is taken at its word (InstanceOwnership):*)
(* it terminates once and then ends once.  A step is what the code runs    *)
(* between two awaits; promise continuations run with the step that        *)
(* settles them.  Sequences are not modelled: every start finds its own.   *)
(***************************************************************************)
EXTENDS Naturals, FiniteSets

CONSTANTS
    Runs,          \* attempts to start a runner
    Ids,           \* instance ids
    Names,         \* instance names; a token may be an id and a name
    None,
    Entries,       \* ids of the required startup entries
    EntryName,     \* the instance name of each entry, or None
    RestartLimit,
    Callers,       \* the runs that an API caller may start
    Faults         \* what may go wrong; "late": PING and READY handled after
                   \* the instance terminated, "manager": a manager to wait for

ASSUME NoneAssumption == None \notin Runs \cup Ids \cup Names
ASSUME EntryAssumption ==
    /\ Entries \subseteq Ids
    /\ EntryName \in [Entries -> Names \cup {None}]
    /\ RestartLimit \in Nat
    /\ \A e, f \in Entries :     \* validateStartupConfigUniqueness()
          EntryName[e] # None => EntryName[e] \notin Entries /\ (EntryName[e] = EntryName[f] => e = f)
ASSUME EnvironmentAssumption ==
    /\ Callers \subseteq Runs
    /\ Faults \subseteq {"init", "dispatch", "late", "manager"}

VARIABLES
    \* --- InstancesStore
    store,       \* the controller stored under an id
    reserved,    \* reservedIds
    names,       \* nameMap (.map) and nameReverse (.reverse)
    \* --- one start of each run
    pc,          \* where the start stands
    id, name,    \* what it asks for
    by,          \* the entry it is made for, or None for an API caller
    awaits,      \* the controller whose readiness it waits for
    \* --- its controller
    ctl,         \* none, live, terminated, ended
    pinged, ready,
    \* --- required startup entries of the host
    tracked,     \* requiredStartupEntriesByInstanceId
    launching,
    queue,       \* relaunches handed to setImmediate
    attempts,    \* restartAttemptsRemaining
    notices,     \* ids whose "end" the host still has to handle
    stopping,
    launches     \* history: runners launched for an entry

inventory == <<store, reserved, names>>
starts == <<pc, id, name, by, awaits>>
controllers == <<ctl, pinged, ready>>
startup == <<tracked, launching, queue, attempts, notices, stopping, launches>>
vars == <<inventory, starts, controllers, startup>>

Init ==
    /\ store = [i \in Ids |-> None] /\ reserved = {}
    /\ names = [map |-> [n \in Names |-> None], reverse |-> [i \in Ids |-> None]]
    /\ pc = [r \in Runs |-> "idle"]
    /\ id = [r \in Runs |-> None] /\ name = [r \in Runs |-> None]
    /\ by = [r \in Runs |-> None] /\ awaits = [r \in Runs |-> None]
    /\ ctl = [r \in Runs |-> "none"]
    /\ pinged = {} /\ ready = {}
    /\ tracked = {} /\ launching = {}
    /\ queue = [e \in Entries |-> 1]      \* performStartup()
    /\ attempts = [e \in Entries |-> RestartLimit]
    /\ notices = {} /\ stopping = FALSE
    /\ launches = [e \in Entries |-> 0]

-----------------------------------------------------------------------------
(* Ids and names of the InstancesStore.                                    *)

HasName(token) == token \in Names /\ names.map[token] # None
HasId(token) == token \in Ids /\ (store[token] # None \/ token \in reserved)

ClearName(ns, i) ==
    LET n == ns.reverse[i] IN
    IF n = None THEN ns
    ELSE [map |-> IF ns.map[n] = i THEN [ns.map EXCEPT ![n] = None] ELSE ns.map,
          reverse |-> [ns.reverse EXCEPT ![i] = None]]

CanReserveName(ns, n, i) == ns.map[n] \in {None, i}

\* Mutant: an instance that takes another name keeps its first.
ReserveNameKeepsFirst(ns, n, i) ==
    IF CanReserveName(ns, n, i)
    THEN [map |-> [ns.map EXCEPT ![n] = i], reverse |-> [ns.reverse EXCEPT ![i] = n]]
    ELSE ns

\* reserveName(): an instance that takes another name gives up its first.
ReserveName(ns, n, i) ==
    IF CanReserveName(ns, n, i)
    THEN LET kept == IF ns.reverse[i] \in {None, n} THEN ns ELSE ClearName(ns, i)
         IN [map |-> [kept.map EXCEPT ![n] = i],
             reverse |-> [kept.reverse EXCEPT ![i] = n]]
    ELSE ns

\* Mutant: any instance may unregister a name.
UnregisterNameOfAnyone(ns, n, i) ==
    IF n # None /\ ns.map[n] # None
    THEN [map |-> [ns.map EXCEPT ![n] = None],
          reverse |-> [ns.reverse EXCEPT ![i] = None, ![ns.map[n]] = None]]
    ELSE ns

UnregisterName(ns, n, i) ==
    IF n # None /\ ns.map[n] = i
    THEN [map |-> [ns.map EXCEPT ![n] = None], reverse |-> [ns.reverse EXCEPT ![i] = None]]
    ELSE ns

\* set() maps the name that an id reserved to it.
RestoreName(ns, i) ==
    IF ns.reverse[i] = None THEN ns
    ELSE [ns EXCEPT !.map = [@ EXCEPT ![ns.reverse[i]] = i]]

\* delete()
Delete(i) ==
    /\ store' = [store EXCEPT ![i] = None]
    /\ reserved' = reserved \ {i}
    /\ names' = ClearName(names, i)

-----------------------------------------------------------------------------
(* Required startup entries.                                               *)

\* Mutant: a restart is not counted.
FailureUncounted(e) ==
    IF attempts[e] > 0
    THEN queue' = [queue EXCEPT ![e] = @ + 1] /\ UNCHANGED <<attempts, stopping>>
    ELSE stopping' = TRUE /\ UNCHANGED <<attempts, queue>>

\* handleRequiredStartupFailure(): queue a restart or stop the hub.
Failure(e) ==
    IF attempts[e] > 0
    THEN /\ attempts' = [attempts EXCEPT ![e] = @ - 1]
         /\ queue' = [queue EXCEPT ![e] = @ + 1]
         /\ UNCHANGED stopping
    ELSE stopping' = TRUE /\ UNCHANGED <<attempts, queue>>

\* handleRequiredStartupInstanceExit(): the exit of a tracked instance counts.
InstanceExit(i) ==
    IF i \in tracked
    THEN tracked' = tracked \ {i} /\ Failure(i)
    ELSE UNCHANGED <<tracked, attempts, queue, stopping>>

\* Mutant: a launch that succeeds does not track its instance again.
LaunchesSucceedUntracked(qs) ==
    /\ launching' = launching \ {by[q] : q \in qs}
    /\ UNCHANGED <<tracked, queue, attempts, notices, stopping, launches>>

\* The launches that the starts in qs were made for come to an end.
LaunchesSucceed(qs) ==
    /\ LET es == {by[q] : q \in qs} \ {None} IN
       tracked' = tracked \cup es /\ launching' = launching \ es
    /\ UNCHANGED <<queue, attempts, notices, stopping, launches>>

\* Mutant: a launch that fails stays marked as under way.
LaunchFailsUnmarked(e) ==
    /\ IF e = None THEN UNCHANGED <<tracked, attempts, queue, stopping>>
       ELSE tracked' = tracked \ {e} /\ Failure(e)
    /\ UNCHANGED <<launching, notices, launches>>

LaunchFails(e) ==
    /\ IF e = None THEN UNCHANGED <<tracked, launching, attempts, queue, stopping>>
       ELSE tracked' = tracked \ {e} /\ launching' = launching \ {e} /\ Failure(e)
    /\ UNCHANGED <<notices, launches>>

-----------------------------------------------------------------------------
(* Starts.                                                                 *)

Conflict(i, n) == HasName(i) \/ HasId(i) \/ (n # None /\ (HasName(n) \/ HasId(n)))

\* startSequence() up to the await that resolves the sequence.
ApiStart(r) ==
    /\ r \in Callers /\ pc[r] = "idle"
    /\ \E i \in Ids, n \in Names \cup {None} :
        /\ ~Conflict(i, n)
        /\ id' = [id EXCEPT ![r] = i] /\ name' = [name EXCEPT ![r] = n]
    /\ pc' = [pc EXCEPT ![r] = "resolving"]
    /\ UNCHANGED <<inventory, by, awaits, controllers, startup>>

\* startRunner() up to the await of adapter.init(): a name that is refused
\* leaves the id reserved.
IdRefused(i) == HasName(i) \/ HasId(i)
NameRefused(i, n) == n # None /\ (HasId(n) \/ n = i \/ ~CanReserveName(names, n, i))

Reserve(i, n) ==
    /\ reserved' = reserved \cup {i}
    /\ names' = IF n = None \/ NameRefused(i, n) THEN names ELSE ReserveName(names, n, i)
    /\ UNCHANGED store

StartRunner(r) ==
    /\ pc[r] = "resolving"
    /\ IF IdRefused(id[r])
       THEN pc' = [pc EXCEPT ![r] = "failed"] /\ UNCHANGED inventory
       ELSE /\ Reserve(id[r], name[r])
            /\ pc' = [pc EXCEPT ![r] = IF NameRefused(id[r], name[r]) THEN "failed" ELSE "init"]
    /\ UNCHANGED <<id, name, by, awaits, controllers, startup>>

\* launchRequiredStartupEntry() up to the same await; a launch under way drops it.
Launch(e) ==
    /\ queue[e] > 0
    /\ IF e \in launching
       THEN /\ queue' = [queue EXCEPT ![e] = @ - 1]
            /\ UNCHANGED <<inventory, starts, tracked, launching, attempts, stopping, launches>>
       ELSE LET n == EntryName[e]
                refused == n # None /\ (HasName(n) \/ (n \in Ids /\ store[n] # None))
            IN IF refused \/ IdRefused(e) \/ NameRefused(e, n)
               THEN /\ IF refused \/ IdRefused(e) THEN UNCHANGED inventory ELSE Reserve(e, n)
                    /\ tracked' = tracked \ {e}
                    /\ IF attempts[e] > 0     \* Failure(e), with the queue one shorter
                       THEN attempts' = [attempts EXCEPT ![e] = @ - 1] /\ UNCHANGED <<queue, stopping>>
                       ELSE stopping' = TRUE /\ UNCHANGED <<attempts, queue>>
                    /\ UNCHANGED <<starts, launching, launches>>
               ELSE \E r \in Runs :
                    /\ pc[r] = "idle"
                    /\ Reserve(e, n)
                    /\ pc' = [pc EXCEPT ![r] = "init"]
                    /\ id' = [id EXCEPT ![r] = e] /\ name' = [name EXCEPT ![r] = n]
                    /\ by' = [by EXCEPT ![r] = e]
                    /\ tracked' = tracked \cup {e} /\ launching' = launching \cup {e}
                    /\ queue' = [queue EXCEPT ![e] = @ - 1]
                    /\ launches' = [launches EXCEPT ![e] = @ + 1]
                    /\ UNCHANGED <<awaits, attempts, stopping>>
    /\ UNCHANGED <<controllers, notices>>

\* adapter.init() resolves, or rejects outside of the try block.
Initialized(r) ==
    /\ pc[r] = "init"
    /\ \/ /\ pc' = [pc EXCEPT ![r] = "dispatching"]
          /\ UNCHANGED startup
       \/ /\ "init" \in Faults
          /\ pc' = [pc EXCEPT ![r] = "failed"]
          /\ LaunchFails(by[r])
    /\ UNCHANGED <<inventory, id, name, by, awaits, controllers>>

\* dispatch() succeeds: createCSIController() stores the controller.
Dispatched(r) ==
    /\ pc[r] = "dispatching"
    /\ pc' = [pc EXCEPT ![r] = "connecting"]
    /\ ctl' = [ctl EXCEPT ![r] = "live"]
    /\ store' = [store EXCEPT ![id[r]] = r]
    /\ reserved' = reserved \ {id[r]}
    /\ names' = RestoreName(names, id[r])
    /\ UNCHANGED <<id, name, by, awaits, pinged, ready, startup>>

\* A start fails after its reservations: both are given up, by id and name.
StartFails(r) ==
    /\ pc' = [pc EXCEPT ![r] = "failed"]
    /\ reserved' = reserved \ {id[r]}
    /\ names' = UnregisterName(names, name[r], id[r])
    /\ LaunchFails(by[r])
    /\ UNCHANGED <<store, id, name, by, awaits, controllers>>

DispatchFails(r) ==
    /\ pc[r] = "dispatching" /\ "dispatch" \in Faults
    /\ StartFails(r)

\* The runner exits before it is established: its controller stays.
ExitsEarly(r) ==
    /\ pc[r] = "connecting"
    /\ StartFails(r)

\* waitForReady() rejects: the deadline passed or the runner rejected its
\* initialization, and failReadiness() killed it or gave up.
ReadinessFails(r) ==
    /\ pc[r] = "readying" /\ awaits[r] # None /\ awaits[r] \notin ready
    /\ StartFails(r)

-----------------------------------------------------------------------------
(* Controllers.                                                            *)

Reports(r) == ctl[r] = "live" \/ ("late" \in Faults /\ ctl[r] = "terminated")

\* PING establishes every start that connects with this id.  Each goes on to
\* wait for the controller in the store, and has started if there is none.
Ping(r) ==
    /\ Reports(r) /\ r \notin pinged
    /\ pinged' = pinged \cup {r}
    /\ LET owner == store[id[r]]
           connecting == {q \in Runs : pc[q] = "connecting" /\ id[q] = id[r]}
           settled == owner = None \/ owner \in ready
       IN /\ names' = IF owner # None /\ name[owner] # None
                      THEN ReserveName(names, name[owner], id[r]) ELSE names
          /\ pc' = [q \in Runs |-> IF q \notin connecting THEN pc[q]
                                   ELSE IF settled THEN "started" ELSE "readying"]
          /\ awaits' = [q \in Runs |-> IF q \in connecting THEN owner ELSE awaits[q]]
          /\ LaunchesSucceed(IF settled THEN connecting ELSE {})
    /\ UNCHANGED <<store, reserved, id, name, by, ctl, ready>>

\* READY settles waitForReady(), unless the readiness has failed before.
Ready(r) ==
    /\ Reports(r) /\ r \in pinged /\ r \notin ready
    /\ \A q \in Runs : awaits[q] = r => pc[q] = "readying"
    /\ ready' = ready \cup {r}
    /\ LET waiting == {q \in Runs : awaits[q] = r} IN
       /\ pc' = [q \in Runs |-> IF q \in waiting THEN "started" ELSE pc[q]]
       /\ LaunchesSucceed(waiting)
    /\ UNCHANGED <<inventory, id, name, by, awaits, ctl, pinged>>

\* cleanupRequiredStartupInstance() of a controller that is in the store.
CleanUp(r) ==
    /\ store' = [store EXCEPT ![id[r]] = None]
    /\ reserved' = reserved \ {id[r]}
    /\ names' = ClearName(UnregisterName(names, name[r], id[r]), id[r])

\* "terminated": a required instance gives up its id and name, and counts.
Terminated(r) ==
    /\ ctl[r] = "live"
    /\ ctl' = [ctl EXCEPT ![r] = "terminated"]
    /\ IF store[id[r]] = r /\ id[r] \in tracked
       THEN CleanUp(r) /\ InstanceExit(id[r])
       ELSE UNCHANGED <<inventory, tracked, attempts, queue, stopping>>
    /\ UNCHANGED <<starts, pinged, ready, launching, notices, launches>>

\* Mutant: an end deletes whatever controller has the id.
EndedOfAnyone(r) ==
    /\ ctl[r] = "terminated"
    /\ ctl' = [ctl EXCEPT ![r] = "ended"]
    /\ Delete(id[r])
    /\ InstanceExit(id[r])
    /\ UNCHANGED <<starts, pinged, ready, launching, notices, launches>>

\* "end": the host hears of it first, waits for the manager and then counts it;
\* the dispatcher removes the controller if the id is still its own.
Ended(r) ==
    /\ ctl[r] = "terminated"
    /\ ctl' = [ctl EXCEPT ![r] = "ended"]
    /\ IF store[id[r]] # r
       THEN UNCHANGED <<inventory, notices, tracked, attempts, queue, stopping>>
       ELSE /\ IF id[r] \in tracked THEN CleanUp(r) ELSE Delete(id[r])
            /\ IF "manager" \in Faults
               THEN /\ notices' = notices \cup {id[r]}
                    /\ UNCHANGED <<tracked, attempts, queue, stopping>>
               ELSE InstanceExit(id[r]) /\ UNCHANGED notices
    /\ UNCHANGED <<starts, pinged, ready, launching, launches>>

HandleEndNotice(i) ==
    /\ i \in notices
    /\ notices' = notices \ {i}
    /\ InstanceExit(i)
    /\ UNCHANGED <<inventory, starts, controllers, launching, launches>>

-----------------------------------------------------------------------------
\* Nothing is modelled of a hub that stops.
Next ==
    /\ ~stopping
    /\ \/ \E r \in Runs :
          \/ ApiStart(r) \/ StartRunner(r)
          \/ Initialized(r) \/ Dispatched(r) \/ DispatchFails(r)
          \/ ExitsEarly(r) \/ ReadinessFails(r)
          \/ Ping(r) \/ Ready(r) \/ Terminated(r) \/ Ended(r)
       \/ \E e \in Entries : Launch(e)
       \/ \E i \in Ids : HandleEndNotice(i)

Spec == Init /\ [][Next]_vars

\* A start goes on: setImmediate and settled promises run, init() and
\* dispatch() answer, a runner connects or exits, READY or its deadline comes,
\* and the manager answers.
StartContinues(r) ==
    \/ StartRunner(r) \/ Initialized(r) \/ Dispatched(r) \/ DispatchFails(r)
    \/ pc[r] = "connecting" /\ (Ping(r) \/ ExitsEarly(r))
    \/ ReadinessFails(r) \/ (pc[r] = "readying" /\ Ready(r))

FairSpec ==
    /\ Spec
    /\ \A r \in Runs : WF_vars(~stopping /\ StartContinues(r))
    /\ \A e \in Entries : WF_vars(~stopping /\ Launch(e))
    /\ \A i \in Ids : WF_vars(~stopping /\ HandleEndNotice(i))

-----------------------------------------------------------------------------
(* Properties.                                                             *)

States == {"idle", "resolving", "init", "dispatching", "connecting", "readying",
           "started", "failed"}

\* Every field stays within its values; the ids and names are those of the store
\* (InstancesStore), of its callers and of the startup configuration.
TypeOK ==
    /\ store \in [Ids -> Runs \cup {None}] /\ reserved \subseteq Ids
    /\ names \in [map : [Names -> Ids \cup {None}], reverse : [Ids -> Names \cup {None}]]
    /\ pc \in [Runs -> States]
    /\ id \in [Runs -> Ids \cup {None}] /\ name \in [Runs -> Names \cup {None}]
    /\ by \in [Runs -> Entries \cup {None}] /\ awaits \in [Runs -> Runs \cup {None}]
    /\ ctl \in [Runs -> {"none", "live", "terminated", "ended"}]
    /\ pinged \subseteq Runs /\ ready \subseteq pinged
    /\ tracked \subseteq Entries /\ launching \subseteq Entries
    /\ queue \in [Entries -> Nat] /\ attempts \in [Entries -> 0 .. RestartLimit]
    /\ notices \subseteq Ids /\ stopping \in BOOLEAN
    /\ launches \in [Entries -> Nat]

\* nameMap and nameReverse are inverse to each other, whatever reserves, registers
\* and gives up names in between: no name resolves to an instance that would not
\* give it up, and no instance has two.
NamesConsistent ==
    \A n \in Names, i \in Ids : names.map[n] = i <=> names.reverse[i] = n

\* An id leaves the store only when the controller it belongs to has terminated:
\* no delayed end of its predecessor and no start that failed takes it out (the
\* identity checks in csi-dispatcher.ts:229 and host.ts:492, 523).
OnlyOwnerLeaves ==
    [][\A i \in Ids : store[i] # None /\ store'[i] = None => ctl'[store[i]] # "live"]_vars

\* A started instance whose id no other start uses keeps its name as long as its
\* controller lives, whatever starts, failures and ends of other ids reserve and
\* give up (unregisterName() and delete()).
NameKeptUnderOwnId ==
    \A r \in Runs :
        /\ pc[r] = "started" /\ ctl[r] = "live" /\ name[r] # None
        /\ \A q \in Runs \ {r} : id[q] # id[r]
        => names.map[name[r]] = id[r]

\* A required startup entry is always looked after: it is being launched, its
\* launch is queued, or the host tracks it and its controller is there to
\* terminate (handleRequiredStartupFailure() and handleRequiredStartupInstanceExit()).
Supervised(e) ==
    \/ e \in launching \/ queue[e] > 0
    \/ e \in tracked /\ store[e] # None /\ ctl[store[e]] = "live"
SupervisionNeverLapses == ~stopping => \A e \in Entries : Supervised(e)

\* No order of failures, exits, late ends and relaunches launches a required entry
\* more often than once and restartLimit times again.
RestartsBounded == \A e \in Entries : launches[e] <= RestartLimit + 1

\* A required startup entry comes up or the hub stops, and it stays so: failures
\* in any phase of its launch lead to another launch or to performStop().
Up(e) == e \in tracked /\ store[e] # None /\ store[e] \in ready /\ ctl[store[e]] = "live"
RequiredUpOrStopping == \A e \in Entries : []<>(stopping \/ Up(e))

=============================================================================
