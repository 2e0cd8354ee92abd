# A verification project for transform-hub

Transform Hub runs user programs ("sequences") as supervised processes or
containers ("instances"), routes streams between them, and reports to managers.
This directory holds TLA+ models of the parts whose correctness depends on the
order of events, the TLC runs that check them on small instances, and proofs,
checked by TLAPS, of what matters most for every value of the constants.
All paths below are relative to the repository's `src/packages/` in this tree.

## 1. The system

| Component | State it keeps | Operations | Talks to |
|---|---|---|---|
| **Instance controller** `host/src/lib/csi-controller.ts` | status, readiness, terminal transition, removal, end flag, timers, storage | `start`, `waitForReady`, `stop`, `kill`, message handlers, `transitionToTerminal` | runner (control and monitoring messages), adapter (`waitUntilExit`, `cleanup`, `remove`), dispatcher (events) |
| **Dispatcher** `csi-dispatcher.ts` and **instance store** `instance-store.ts` | controllers by id; reserved ids; names; exposed paths; manifest owners | `createCSIController`, `startRunner`, `reserveId`, `reserveName`, `set`, `delete`, `publishManifest` | controllers, host, sequence store |
| **Host** `host.ts`, `sequence-store.ts` | sequences with the ids of their instances; required startup entries | start, delete and replace a sequence; startup; relaunch; stop | dispatcher, CPM connector, API |
| **Hub state** `hub-state/src/hub-state-store.ts`, `host/src/lib/auditor.ts` | snapshot and position of the hub; subscribers with their last cursor | `consume`, `checkpoint`, `subscribe`, audit writes | hub (writer), manager and dashboards (readers) |
| **Service discovery** `host/src/lib/serviceDiscovery/*` | topics, their actors, one active ingress, a held first chunk | `acceptPipe`, `pipe`, `unpipe`, `delete` | instances' streams, CPM |
| **CPM connector** `host/src/lib/cpm-connector.ts` | connection generation, registration attempt, one retry loop | `connect`, `reconnect`, `handleCommunicationRequest`, `disconnect` | manager |
| **Manager** `manager/src/lib/*` | registered hubs, their connections and state, topics | register, connect, disconnect, forward | hubs, multi-manager |
| **CSR enrollment** `manager/src/lib/csr-enrollment.ts` | files: grants with their locks, certificates on record, the files of an issue | `approve`, `redeem`, `revokeClientFingerprint`, authorization | operator (approval), hubs (redemption), registration |
| **Multi-manager** `multi-manager/src/lib/*` | manager processes | start, stop, restart | managers |
| **Runners** `runner`, `runner-node`, `runner-python`, `runner-bun` | phase of the sequence, stop and keep-alive state, shutdown grace | handshake, run, stop, kill, report | controller |
| **Adapters** `adapter-*` | one process, container or pod | `dispatch`, `waitUntilExit`, `cleanup`, `remove` | controller |

Everything else (API servers, CLI, clients, configuration, logging, types) has no
state whose order of change matters; `PROJECT.json` lists it under `components`.

### What is hard

`PROJECT.json` lists every hazard at its line. The main ones:

- *one end, many causes*: the runner's exit, two kinds of stop and kill, an
  announced stop or completion, a failed initialization and a missed readiness
  deadline all race to end an instance, while the adapter may fail to remove it;
- *bookkeeping across awaits*: an id or a name is reserved before the awaits of a
  start and released on some of its error paths;
- *late messages*: READY, PING and PANG after the instance failed or was stopped;
- *continuity of a log*: a reader must never miss an event without noticing;
- *generations*: answers of an old connection to the manager that arrive after a
  new one has been made;
- *what a crash leaves behind*: locks, files and half-done redemptions of the enrollment.

## 2. What is modelled

### InstanceLifecycle (with InstanceOwnership)

One instance as its controller coordinates it. A step is what the code runs
between two awaits. Every async call that may be in flight is a process with a
program counter: the API callers (`Callers`) and `failReadiness()`
(`Readiness`), which share `stop()` and `kill()`; the start, main and
`instanceMain` continuations, the two announced-end handlers, the watcher that
`awaitTerminalCompletion()` arms, and the detached end of `kill()` each have a
variable of their own.

| Code | Model |
|---|---|
| `start()`, `main()`, `startInstance()` | `StorageSent`, `StartMain`, `StartCatches`, `MainResumes`, `ExitObserved`, `CleanedUp`, `CleanupFails`, `Settle` |
| `stop()` | `ApiStop`, `StopAnswered`, `StopFails`, `StopDelayEnds` |
| `kill()` | `KillBegins` (to its first await), `KillAnswered`, `KillControlFails`, `KillTimesOut`, `KillRemoved`, `TerminalAwaited`, `KillSettles` |
| `awaitTerminalCompletion()` | `AwaitTerminalCompletion`, `WatcherFires` |
| `removeInstance()`, `transitionToTerminal()`, `finalize()`, `emitEnd()` | `StartRemoval`, `BeginTerminal`, `RemovalSucceeds`, `RemovalFails`, `Terminated`, `ExtensionElapses`, `Ended` |
| `waitForReady()`, `handleReadinessMessage()`, `failReadiness()` | `WaitForReady`, `HandleReady`, `HandleErrored`, `ReadinessTimesOut`, `FailReadiness`, `ReadinessFailed` |
| `handleSequenceStopped()`, `handleSequenceCompleted()` | `HandleSequenceStopped` .. `SequenceStoppedKilled`, `HandleSequenceCompleted`, `SequenceCompletedResult` |
| PING, PANG, ALIVE handlers | `HandlePing`, `HandlePang`, `HandleKeepAliveCommand` |

The status keeps what the code tells apart (`INITIALIZING` is overwritten
synchronously by `start()`; `GONE` and `IDLE` are never assigned). A result is
reduced to the status it carries; `unknown` is a caught error object, which has
none. A timer may fire as soon as it is armed, since the model has no clock; so
every race the deadlines allow is explored, whatever their length.

`InstanceOwnership` is what the hub promises of all this: the adapter owns the
runner until one removal succeeds; a closing attempt is given up when its removal
fails; "terminated" is announced once, with nothing owned, and "end" once, after
it. The refinement mapping reads `phase` from `term` and `owned` from `removal`.

### InstanceRegistry

Several starts of instances on one hub: who owns which id and name. A run is one
attempt to start a runner together with the controller it makes, which is taken
at its word here (`InstanceOwnership`): it terminates once and then ends once. A
step is again what the code runs between two awaits, with the continuations of the
promises it settles.

| Code | Model |
|---|---|
| `InstancesStore` (ids, `nameMap`, `nameReverse`) | `store`, `reserved`, `names`; `Reserve`, `ReserveName`, `UnregisterName`, `ClearName`, `RestoreName`, `Delete` |
| `Host.startSequence()`, `CSIDispatcher.startRunner()` | `ApiStart`, `StartRunner`, `Initialized`, `Dispatched`, `DispatchFails`, `ExitsEarly`, `ReadinessFails`; a run's `pc` names the await it stands at |
| PING and READY of a controller, `waitForReady()`, the `established` handlers | `Ping`, `Ready` |
| the "terminated" and "end" handlers of dispatcher and host | `Terminated`, `Ended`, `HandleEndNotice`, `CleanUp` |
| `performStartup()`, `launchRequiredStartupEntry()`, `handleRequiredStartupFailure()`, `handleRequiredStartupInstanceExit()` | `Init` (one queued launch per entry), `Launch`, `Failure`, `InstanceExit`, `LaunchesSucceed`, `LaunchFails` |

`Faults` says what may go wrong: `adapter.init()` or `dispatch()` rejects ("init",
"dispatch"), a PING or READY is handled after its instance terminated ("late"),
the host must wait for a manager before it counts an end ("manager"). A runner
may always exit before it is established and miss its deadline. A start finds its
sequence; `SequenceInventory` models the sequence. `Runs` bounds the launches; nothing
is modelled of a hub that stops.

### HubStateStore and HubWatch (with WatchedLog)

`HubStateStore` is what a hub offers to those who watch it. `Auditor` numbers each
change of the host's inventory, `HubStateStore.consume()` replays the numbered records,
and the subscribers of one kind are handed the changes of that kind, each linked to the
one before. A mutation is its index in `log`, and the items of a kind are the indices
of its mutations, so that "the store is the replay of the log" can be said at all.
`Faults` are the records that the store guards against: lost, repeated, not applicable,
and a checkpoint from before its position.

`HubWatch` extends it to the whole path of a watch: the stream that serves it, the
connection, the client, the reader. `consume()` calls the subscribers synchronously, so
the step of the source changes the queues; the pump, the connection, the client's checks
and the reader's `next()` are steps of their own.

| Code | Model |
|---|---|
| `Auditor.write`, `auditStateChange`, `auditStateCheckpoint`, `advanceStateCursor` | `AuditChange`, `Checkpoint`, `Reidentify`, `NextPosition`, `AuditCursor` |
| `HubStateStore` `consume`, `checkpoint`, `subscribe`, `invalidate`, `close` | `ConsumeChange`, `ConsumeCheckpoint`, `Subscribe`, `Invalidate`, `Close`, `Notify` |
| `createHubEventWatchStream()` (`enqueue`, `pump`, `fail`, `shutdown`) | `Open`, `Enqueued`, `Overflows`, `Pump`, `Blocked`, `Failed`, `Handed`, `Beat`, `ReleaseStreams` |
| `createHubEventWatch()` (`readPump`, `deliver`, `selectTerminal`, `next`) | `Connect`, `Parse`, `Continues`, `Confirms`, `Delivered`, `Ends`, `EndOfStream`, `ReadNext`, `Stop` |

Error codes are not told apart: every failure ends the watch. A watch is opened while
its client waits for it and before the host releases its streams.

`WatchedLog` is the promise, and `HubWatch` is checked to implement it (`ReadsTheLog`):
a reader sees what the source held at some moment, then at later moments, with nothing
left out in between, until it is told that the watch is over.

### ControlPlane

A hub's `CPMConnector` and its manager's registrations in one module. Registration r is
one POST /sth; r also names the controller the manager makes for it and the /platform
stream that controller opens back to the hub.

| Code | Model |
|---|---|
| `connect()`, `connectOnce()`, `reconnect()` | `AttemptConnects`, `AttemptAbandoned`, `AttemptAnswered`, `BackoffEnds` |
| `handleCommunicationRequest()`, `handleConnectionClose()`, drop message, `disconnect()` | `PlatformRequested`, `StreamCloses`, `DropReceived`, `Disconnect` |
| `handleSthRegistration()` with `captureHubSnapshot()` and `rollbackFailedSthRegistration()` | `RouteReady`, `RouteTimesOut`, `InitSucceeds`, `InitFails`, `Registered`, `Rollback` |
| `STHController` (messages, `dispose()`), the broker's route events | `InventoryArrives`, `Broken`, `RouteRemoved`, `LeaseTimesOut` |
| what the network and the processes do | `AttemptFails`, `GuestLost`, `ManagerRestarts`, `PostLost` |

The code's generation counters are modelled by what they decide: `generation` is the
stream accepted last, and `valid` says that no close came since the attempt in flight read
its generation. The hub is told of the loss of a stream once, before its guest connects
again; the acceptance of a stream is one step. A crash of the hub is a lost guest with a
lost POST. Drop messages come from the manager, not from its operators' API.

### SequenceInventory

One sequence and the ids of the instances it lists, against uploads, updates, fetches
from the manager's store and deletions. Sequences share only the map that holds them.
A controller is taken at the word of `InstanceOwnership` again.

| Code | Model |
|---|---|
| the end of `addSequence()`, `SequenceStore.delete()` | `SetSequence`, `DeleteSequence` |
| `handleUpdateSequence()` with `addSequence()` | `Update`, `Unpacked` |
| `resolveSequenceForStart()`, `launchRequiredStartupEntry()`, `getExternalSequence()` | `Start`, `Resolved`, `Dispatched` |
| the "ping", "terminated" and "end" handlers of dispatcher and host | `Ping`, `Fetched`, `Terminated`, `End`, `Leaves` |
| `deleteSequence()` | `Delete`, `ForceDelete`, `KillReturns`, `KillFails`, `Refused`, `Removed`, `Answered` |

The list is a set here: the code may list an id twice, and `filter()` takes all of its
copies off. A PING from the wrong adapter, the package directory and the messages to the
manager are left out. `unlisted`, `victims` and `missed` are what the properties need to
remember: connected instances whose sequence was deleted or replaced, the instances that a
deletion killed, and the ids for which no controller was left to await an end from.

### TopicIngress

One `Topic`: the sources that are piped into it one after the other and the readers it is
piped to. Node's streams are modelled from how the class uses them. Of the marks that the
constructor gives (`topic.ts:45`), `highWaterMark` takes precedence, so the writable side buffers
as much as the readable one: both are full with `Cap` chunks.

| Code | Model |
|---|---|
| `acceptPipe()`, `consumePipe()` | `Accept`, `Turns`, `ConsumeNext`, `Write`, `End`, `Break` |
| `_transform()` | `WriteChunk`, `SeenOnWrite`, `Push` |
| `_read()`, with the one of Transform | `Deliver` |
| `pipe()`, `flushPendingIngress()`, `clearPendingIngress()`, `unpipe()` | `Attach`, `Detach` |
| `holdFirstIngressChunk()`, `failPendingIngress()`, `TopicsMap.delete()` | `WriteChunk`, `Break`, `DeleteTopic` |
| `addXndjsonException()` | the second disjunct of `End` |

One chunk at a time is in `_transform()`: in `held` when `_pendingIngress` has it, or as the last
chunk of `buffer` when its callback is `_pendingTransform` (`stall = "pending"`). Those written
meanwhile are in `waiting`, and `full` is the writable side's `needDrain`, which pauses the
source. They stay there when their source ends and the next one takes its turn, and are
transformed, one after the other, when the callback is called: by then under the ingress of the
next source. The only callback that finds chunks waiting is the one of `flushPendingIngress()`,
so this always happens with a reader (`Attach`).

The `_read()` of a Transform calls its own callback only while the readable side is below its
mark. `Topic._read()` calls `super._read()` first, and its kept callback is the one that Transform
wraps: called when the first `read()` after a stall is about to take a chunk, with the side still
at its mark, it is not run but stored for the next `_read()` (`stall = "kept"`). No other comes,
because `read()` calls `_read()` again only after a `push()`, and the writer that would push is the
one that waits. That is how Node's Transform and Readable (v22 line) are written; nothing in `src/`
says it, and no test of the repository reaches it.

A chunk is one of `Chunks` that a source writes, or the newline that an ndjson topic adds at the end
of its source. It goes to readers at once if nothing is buffered and they are ready, which the model
leaves open, and into the readable side otherwise. A topic that is destroyed is over.

### CsrEnrollment

The authority that gives a hub its certificate. `redeem()` is synchronous, so one redemption
runs at a time, with a program counter that stands before its next file operation; what
matters is what is on the disk when the process dies there.

| Code | Model |
|---|---|
| `approve()`, `revokeClientFingerprint()`, `isClientFingerprintAuthorizedForHub()` | `Approve`, `Revoke`, `Authorized` |
| `redeem()` | `TakeLock`, `Age`, `Read`, `LookedUp`, `Consume`, `Unlock`, `Expire` |
| `issueCertificate()` | `Write`, `Sign`, `Record`, `Clean` |
| an operation that throws, a killed process, a lost answer | `Fail`, `Crash`, `Unlock` |

A file that is replaced by rename (`atomicJson()`) is replaced in one step; that a partial
file of the same pid makes it throw is one of the causes of `Fail`. Requests are valid and
fit their grant. `answers` and `withdrawn` remember what the hub was told and the operator revoked.

## 3. What TLC checks

| Run | Question | Bounds |
|---|---|---|
| `instance_callers` | Two requests race each other, the exit, the extension, a failed removal and every fault; refinement of `InstanceOwnership` | 2 callers (symmetric), exits 0 and failed, the four faults, 1 failed removal |
| `instance_readiness` | READY, the readiness deadline, a failed initialization and a kill race; the kill that a caller or the deadline forces ends the instance | 1 caller, exit 0, readiness awaited, failing control writes |
| `instance_liveness` | A stop, a watched exit and an announced end each end the instance | 1 caller, failed exit and one that cannot be told, no other faults |
| `registry_api` | Starts with overlapping ids and names fail in every phase and end late | 3 runs (symmetric), 2 ids, 2 names, one token both |
| `registry_startup` | A required entry is never forgotten, never launched too often, and comes up or stops the hub | 1 named entry, restart limit 2, 4 runs, no callers |
| `hub_watch` | A watch misses nothing, raises no false alarm, leaves nobody behind; refinement of `WatchedLog` | 1 watch, 2 kinds, 3 changes, 2 identities, queues of 1, all faults and breaks |
| `control_plane` | A hub registers through faults: one controller, no false connection, and hub and manager end up together | 5 registrations, 3 faults of five kinds |
| `control_plane_retry` | *Violated*: the hub retries until it is abandoned | 3 registrations, 1 lost POST |
| `sequences` | Deletions, updates and fetches race runners that connect and end | 2 requests, 2 ids, 3 runs, two of them of one required id, failing kills, a manager |
| `topic_ingress` | Chunks in order, each in one place; first chunks kept; sources get their turn | 3 sources of a chunk and a newline, 2 readers, marks of 2, 1 detachment |
| `csr_enrollment` | One answer per grant, a usable certificate, and no redemption that a crash blocks | 2 grants of one request, 3 faults |
| `csr_retry` | *Violated*: a certificate that was issued before an interruption is kept | 1 grant, 1 fault |

Why the bounds are enough. *Lifecycle*: two callers reach every pair of program points of
`stop()` and `kill()`; a third only repeats a role, because a caller
touches shared state only through `status`, `term`, `removal` and the extension. A
second failed removal finds the state the first one left. The runner sends each
message at most once, except ALIVE, which only sets a flag. *Registry*: an interference
needs the owner of an id or a name, the start that gives it up, and the start that
takes it next, so three runs; a token that is an id and a name reaches the
cross-checks of the two. Entries share nothing but the store, whose ids and names are
distinct for them, so one is enough; four runs are one more than its launches, and limit 2
has a first, a middle and a last attempt. *Watch*: watches share only the source, so one is
enough; three changes are one more than a queue and the connection hold, and give a
change of the other kind between two of its own; a second identity is needed for every
boundary there is. *Control plane*: three faults hit a registration, the retry that follows
and the one after; five registrations leave a retry for each and one to succeed. *Sequences*:
an id that is launched twice gives an end that comes when the id belongs to another; a
second id gives a list of two, one of which may go while the other stays; two requests give a
deletion or an update during another. *Topic*: three sources give one that is consumed, one
that takes over while chunks of it wait, and one behind; a chunk and its newline give a first and one
that is not, and so a source that ends with one held and one waiting; a mark of two gives full,
room and empty on either side. *Enrollment*: two grants of one request
share record and files, so that a redemption meets whatever another one left; three faults cut
a redemption short, fail its retry and lose the answer of the next. Requests share nothing.

### Fairness

- `InstanceLifecycle`: continuations of settled promises and armed timers run, as
  the event loop guarantees; local storage answers; `adapter.remove()` settles; a
  runner whose removal succeeded exits, since `remove()` kills the process or
  deletes the container. Nothing is assumed of callers, of messages, or of a
  runner nobody removed. Nor of the KILL that `handleSequenceStopped()` writes
  (`csi-controller.ts:1282`): it is awaited without a deadline, unlike the writes of `stop()`
  and `kill()`, and a control stream may stay pending. `AnnouncedEndReachesEnd` exempts
  an instance for which it does.
- `InstanceRegistry`: `setImmediate` callbacks and settled promises
  run; `init()` and `dispatch()` answer; a dispatched runner connects or exits; a connected
  one reports READY or meets its deadline, which is a timer; the manager answers. No instance
  is assumed to terminate or to end.
- `HubWatch`: the client parses what arrives, sees the end of its stream, and its reader
  keeps asking. Nothing is assumed of the hub: what it pumps follows from `read()`.
- `ControlPlane`: each await of both programs ends (the backoff, the POST, the wait for a
  route, `init()`), and each close and each inventory message arrives. Faults are bounded.
- `SequenceInventory`: a killed runner terminates and a terminated one ends, as
  `instance_liveness` shows of the controller; `kill()` and the adapter answer.
- `TopicIngress`: a source that is piped and not paused writes and ends; a topic without a reader
  finds one, as the manager attaches the route; readers read.
- `CsrEnrollment`: the process runs on, and starts again after a crash; a lock gets old; a hub
  keeps asking (strong fairness of `TakeLock`, as another grant's redemption may be in the way).

Deadlock is not checked: in each of these an instance, a hub, a watch or a topic may be over,
and the bounded ones may use their bounds up.

### Findings

Two runs show the code doing what a comment or a document says it does not:

1. `control_plane_retry`: a hub whose first POST was lost while the manager completed it
   registers again while its stream is open. The second /platform request is refused without a
   response, so the manager's registration and the hub's attempt both wait for ever.
2. `csr_retry`: `redeem()` looks for what an interrupted redemption issued under a file name
   that `issueCertificate()` does not write, so a retry always signs a second certificate, and
   the one on record is replaced. With the name that is written the property holds, and the
   others still do.

More behaviours are kept in the models and named here. Once a removal failed, the status is
terminal, and `kill({removeImmediately: true})` removes the runner without ending the instance;
the liveness properties of the controller exempt failed removals. A start that fails late
releases its id without a look at who holds it by then, so two later starts may reserve the
same id; `NameKeptUnderOwnId` exempts shared ids. A second grant of a request
replaces the certificate of the first, revoked or not, with its own; `UsableUntilRevoked` exempts requests that
were granted twice. A deletion without force is not refused when one of the listed instances
is finalizing (or stale), and then removes the package under those that run. A forced deletion listens for the end of an
instance after its kill returned, so an end that came before is missed, and with a required
instance it waits for the replacement. A source that broke off while it waited in a topic's
queue is awaited for ever when its turn comes. The properties
`ForcedDeletionAnswers` and `SourcesGetTheirTurn` exempt the last two.

Two more are of the topic, and follow from Node's streams.

- A source that ends while chunks of it wait behind a held one leaves them to the next source. When
  a reader comes they are taken for its first, and if the reader leaves before it writes, its first
  chunk is discarded, although the comment at `topic.ts:126` makes an exception of "the first
  chunk of an active ingress". The newline of an ndjson source is enough. `FirstChunkKept`
  exempts sources whose turn came while others' chunks waited (`behind`), and only these.
- A topic whose readable side once reached its mark stands still for good, since nobody calls the
  callback that Transform then keeps. The title of a test, "topic backpressure resumes delivery after
  the consumer drains" (`sequence-test/test/contracts/topic.contract.spec.ts:142`), says otherwise, but
  the test looks at the stall only. As this rests on Node's streams rather than on `src/`, it is
  not listed as a finding. `SourcesGetTheirTurn` exempts a topic with `stall = "kept"`; the safety
  properties cover it.

## 4. What is proved

Every theorem holds for all values of the constants that satisfy the module's ASSUMEs. Each is
proved from an inductive invariant, called `IInv` in most modules, whose parts are named. Between
them they state every invariant, every action property and both refinements that the runs check.

### InstanceLifecycleProofs

For every set of callers, messages, exits and faults and any number of failed removals:
`TypeCorrect`, `EndAfterRemoval` (`[]EndOwnsNoRunner`), `Refinement` (`RefinesOwnership`),
`NoExtensionForForced` (`[]ForcedKillSkipsExtension`), `NoRouteAfterFailure`
(`[]FailedReadinessOwnsNoRoute`), `ReadinessKept` (`ReadyLostOnlyToRunner`) and
`EndedIsLeftAlone` (`NoControlAfterEnd`).

The assumptions are the three ASSUMEs of `InstanceLifecycle`: the readiness process
is not a caller, the environment's sets are subsets of what the code handles, and
the bound is a number. `TypeOK` is not inductive alone: a result is copied into the
status, so the invariant says that the result is known once the runner's promise has
settled (`ResultKnown`). The lemma `ClosingStepChange` reduces the forty actions to
the five ways a step may change `term`, `removal` and `endEmitted`; the refinement
and `EndOwnsNoRunner` follow from those five alone. `ForcedStepChange` does the same
for the lifetime extension, whose invariant `ForcedInv` adds that a forced kill has
set the delay to zero, so that a later `finalize()` does not wait either.

Readiness is the concern of a few actions only. `OtherSteps` sets the rest aside, and
`ReadinessStepChange` says what the few may do to the readiness, the route and the wait for both.
`ReadinessInv` is then inductive: an instance whose readiness failed is "errored", so a late READY
exposes nothing, and nobody waits for the readiness of one that is ready, so the deadline has
nothing to fail. `NoControlAfterEnd` needs no invariant beyond the types: each place where a call
goes on to send STOP or KILL has its own look at the end, and the proof visits them all.

### InstanceRegistryProofs

For every set of runs, ids, names and entries, every restart limit, and any callers and
faults: `TypeCorrect`, `NamesStayInverse` (`[]NamesConsistent`), `LaunchesBounded`
(`[]RestartsBounded`), `OwnersLeave` (`OnlyOwnerLeaves`) and `NamesKept`
(`[]NameKeptUnderOwnId`); and, where only the host starts instances (`Callers = {}`) and no
message is handled after its instance terminated (`"late" \notin Faults`), `SupervisionKept`
(`[]SupervisionNeverLapses`).

They rest on the ASSUMEs of `InstanceRegistry`: `None` is no run, id or name; entries
have ids, and names that are no entry's id and that no other entry has, as
`validateStartupConfigUniqueness()` requires; the restart limit is a number. The
invariant has a part for each group of variables. Its strengthenings over the
types are two. A start past "idle" knows its id, so the handlers act on an id of the store.
And every entry has a budget: its launches, queued launches and remaining attempts
never exceed `RestartLimit + 1`, since a failure trades an attempt for a queued launch
and a launch takes one off the queue. The lemmas `ReserveNameKeeps`,
`UnregisterNameKeeps`, `ClearNameKeeps` and `RestoreNameKeeps` carry the name maps.

Supervision needs more, since a step of one run must not disturb another's entry.
`OneLaunch` says that an active start is marked as under way and that an id has one such
start; `OneOwner` says that a live controller is the one the store has under its id, that a
start before its dispatch finds the id reserved and no controller there, and that a start
waits for a controller of its own id. Hence a start that fails releases nothing of
another, and a launch that succeeds leaves a live controller behind. Both assumptions are
needed: TLC finds a lapsed supervision when either is dropped. A late PING ends a launch
whose controller has terminated, and a caller's start that fails late under the entry's id
leaves two controllers of that id, one of which takes the other out of
the store.

`NamesKept` is about what others do to a name. Whatever a step makes of the names, it calls
the functions of the store for one id (`Touches`), and none of these takes a name from another
id (`OthersNames`). So it is enough that the run's own steps keep it: `NameHeld` says that a start
that has reserved, whose controller lives and whose id no other start uses has its name, that the
store has controllers under their own ids (so PING reserves the name of no one else), and that a
start has no controller before its dispatch (so `set()` restores the name that it reserved).

### ControlPlaneProofs

For any number of registrations and faults of any kind: `TypeCorrect`, `ConnectionHasStream`
(`[]ConnectedHasStream`), `AbandonedForGood` (`AbandonedStaysDown`) and `InChargeAlone`
(`[]OneController`). `ConnectedHasStream` is where the generation counters matter. The invariant
says that as long as the attempt in flight is valid, the stream it was given, if it was accepted,
is still there (`StreamKept`), and so also when the answer is "ok" (`OkKept`), which the manager
gives only past its init (`PastInit`); a registration that has not been posted has left no trace
(`Fresh`).

`OneController` speaks of the time between registrations; the invariant has to speak of the time
within. `OneStream` ties the streams, the wire and the steps of the registrations to the one
stream the hub accepts; it always holds. `Sole` holds as long as no POST was lost: the
registration in progress is the one the hub waits for (`InTurn`); the store has the newest
controller, and the one behind it is established and may be put back (`Replaced`); all others are
disposed (`Disposed`); and of the two, the one behind has the open stream and the inventory
only until the newest has its own stream (`InCharge`). When nothing registers there is no one
behind, and this is `OneController`.

### SequenceInventoryProofs

For any runs, ids and requests: `TypeCorrect`, `ListedAreHeld` (`[]ListedIsHeld`),
`ConnectedAreListed` (`[]ConnectedIsListed`) and `ForcedRemovalWaits` (`ForcedRemovalIsLast`).
All of them rest on who has an id (`Owners`): a start waits alone and finds it free, a
controller keeps it until it is gone, and the store has only controllers of that id. From
`OwnerHeld` it follows that an end whose id is its own takes no other instance off the list.
A deletion that kills has an eye on each victim (`VictimsWatched`): its kill is awaited, its end
is, nobody is left to await, or it is gone. So when nothing is awaited any more, all are gone.
The ASSUME says that only required ids are launched more than once.

### TopicIngressProofs

For any sources, chunks, readers and sizes: `TypeCorrect`, with the bound of the readable
side, `FirstChunkIsKept` (`[]FirstChunkKept`), `DeliveryInOrder` (`[]DeliveredInOrder`) and
`ChunksAccounted` (`[]Accounted`). `Room` says that `_transform()` may push whenever no callback
waits, and that none does while a chunk is held; `Quiet` that nothing waits behind a chunk
that is in no transform. `ActiveConsumed` says that the source whose turn it is and that is open is
the active ingress, and that as long as it has written nothing its first chunk will be seen as such,
unless it came behind waiting chunks; `Queueing` gives it to the next source, since
one that waits has written nothing and waits once.

For the order, `Line` is all that the stream has still to deliver: the readable side, the held chunk
behind it, the writable side behind that. Every step `Moves` it: some new chunk at its end, some
of its first chunks to some readers, and nothing else (`StepMoves`; one that is discarded never
enters it). So `InOrder`, that the line is in order and that what a reader got comes before it, is
kept by one lemma about all steps (`TakeOrder`), and so is `OnePlace`, that a chunk that was
written is delivered, in the line or discarded, and only one of them (`TakePlaced`): no chunk comes
before itself, so none is there twice. `Queued` says that the sources that wait are the last ones accepted
and that the one consumed comes right before them, so a chunk that is written comes after all the
topic has handled so far (`WrittenLast`), including the chunks of ended sources. What `SubSeq` and
concatenation do to a sequence comes from the library's `SequenceTheorems`. The ASSUME used is that
`None` is no source and no chunk.

### HubStateStoreProofs and HubWatchProofs

For any kinds, subscribers, faults and bounds: `StoreTypeCorrect`, `StoreReplays`
(`[]StoreIsReplay`) and `NoLinkSkips` (`[]LinksSkipNothing`), for `StoreSpec`. The invariant adds
that the epochs begin inside the log and that only an available store has subscribers. A step
leaves the store alone while the log may grow, takes the next change, invalidates, starts again
from a checkpoint, or adds a subscriber; one lemma each shows that the invariant is kept. The
case that matters is a checkpoint of the present epoch: a subscriber stays only if the cursor
does not move, since one behind it fails and one before it is ignored.

`HubWatchProofs` shows that the whole implements the store (`UsesTheStore`: `Spec => StoreSpec`),
so both properties hold under every stream, connection and client. For any watches, capacities
and faults it also proves `WatchTypeCorrect` (`[]TypeOK`), `SubscribersServed`
(`[]SubscriptionsAreServed`), `NoAlarm` (`[]NoFalseAlarm`), `NothingMissed`
(`[]ReaderMissesNothing`) and `PromiseKept`: `Spec => ReadsTheLog`, the refinement of `WatchedLog`.

The invariant `WInv` follows a change from the store to its reader. The store links a live stream to
the end of its queue (`Fed`); the queue goes on where the stream stands (`QueueOK`), each frame
on the wire where the one before it ends (`WireOK`), the first one where the client stands
(`Meets`), and the inbox from where the reader stands to where the client does (`ReadsOK`).
Every frame on the way is `Sound`: a snapshot is whole, and a change leaves out nothing of its kind
between its two cursors. `Sound` takes the log and its epochs as parameters, because a frame is
made under one log and read under a longer one; that it stays true is a lemma (`SoundKept`) about
any log that grows. `pump()`, the one operation that moves several frames at once, is
reduced to `Moves`: n frames from the queue to the wire, and a heartbeat behind them if the
queue is empty. `NoFalseAlarm` is then part of `ReadsOK`, since a frame that `Meets` the client passes
its checks. For the refinement, the frame handed to a reader takes it to a later moment of the
log (`Learns`), every other step leaves what it knows alone or tells it of the end, and the log
grows by one mutation at a time.

### CsrEnrollmentProofs

For any grants, requests and faults: `TypeCorrect`, `AnswersAgree` (`[]OneAnswer`) and
`UsableCertificates` (`[]UsableUntilRevoked`). For the first, a redemption that is past its look at
the grant has found it unconsumed (`Unconsumed`), holds a certificate exactly where the code
returns one (`Under`), and answers only what the grant says. For the second, certificates are told apart by
number: one in hand is on no other record or grant (`Fresh`, `InHand`, `Distinct`), a revoked one
on record is marked (`Marked`), and the response of a consumed grant is the certificate on record as long
as its request has no other grant (`OnRecord`, `Approved`).

### Only model-checked

The liveness properties: the four of the controller, `RequiredUpOrStopping`, `ChangesReachReader`,
`EndsTogether`, `ForcedDeletionAnswers`, `SourcesGetTheirTurn` and `RedemptionCompletes`. They rest
on fairness, which is out of the prover's reach. The type invariants of all modules are proved;
only those of `HubWatch` and `TopicIngress`, which bound queues, are run.

## 5. What is not modelled

*Controller.* Bytes and framing of streams, monitoring data, logging, audit records,
manifest declarations and storage broadcast; the
contents of configuration. `failReadiness()` may send KILL to an instance that has
ended (it calls `kill()` unconditionally, at the deadline), so `NoControlAfterEnd`
speaks of callers only. The liveness runs leave out a failing storage: then `main()`
is never attached and the exit of the runner in fact ends nothing.

*Registry.* Manifests, exposed paths and topic routing of the dispatcher, the shutdown of the host.
A start whose name is refused leaves its id reserved, a late end counts as an exit of
its replacement, and a late PING or READY may end a supervision: the hazards of
`PROJECT.json` say so at their lines, and no property is stated that they would break.

*Hub state.* Validation and copying of values, the auditor's own stream, the wire format of
frames, connections that outlive their request.

*Control plane.* Messages after the inventory (sequence, instance and topic events), the
manager's audit, its API and other hubs; a second close notice of one stream, and the window
between the acceptance of a stream and its listeners. `OneController` and `EndsTogether` say
nothing once a POST was lost (`cut`), because two registrations then overlap.

*Sequences and topics.* Names of sequences, startup files, the package directory (an update and a
deletion share it); the routing of instances to topics and the notices to the manager; encodings and
sizes of chunks, and the other marks that `TopicStreamOptions` could give.

*Enrollment.* The checks of requests, signing requests and the CA, the HTTPS endpoint, and the hub's
side. There a crash between the key and the request leaves a key that
`createHubCsrEnrollmentRequest()` then refuses to overwrite.

*Components not begun.* Service discovery of the manager, the multi-manager, the runners'
executors and their shutdown grace, the Python runner. The adapters,
which are I/O against processes, Docker and Kubernetes, appear as the exit of a runner and
the outcome of `remove()`. Routers, clients, the command line, configuration, logging, types and
vendored stream code keep no state whose order of change matters.

## 6. Plan

1. *(done)* `InstanceLifecycle`, `InstanceOwnership`, `InstanceLifecycleProofs`.
2. *(done)* `InstanceRegistry`, `InstanceRegistryProofs`.
3. *(done)* `HubStateStore`, `HubWatch`, `WatchedLog`, `HubStateStoreProofs`, `HubWatchProofs`.
4. *(done)* `ControlPlane`, `ControlPlaneProofs`.
5. *(done)* `SequenceInventory`, `SequenceInventoryProofs`.
6. *(done)* `TopicIngress`, `TopicIngressProofs`.
7. *(done)* `CsrEnrollment`, `CsrEnrollmentProofs`.
8. *(done)* Proofs of every invariant and action property of the runs, and of the refinement
   of `WatchedLog`.
9. The runner's shutdown grace with the controller; the manager's service discovery; the
   multi-manager; the hub's side of the enrollment.
