------------------------- MODULE InstanceLifecycle -------------------------
(***************************************************************************)
(* The life of one instance as its CSIController coordinates it            *)
(* (host/src/lib/csi-controller.ts): the runner behind the adapter, the    *)
(* messages of the runner, stop and kill requests of API callers, the      *)
(* readiness deadline, and the one terminal transition that all of them    *)
(* race for.                                                               *)
(*                                                                         *)
(* A step is what the code runs between two awaits.  An async call is a    *)
(* process with a program counter: the API callers and the readiness       *)
(* failure (failReadiness), which all share stop() and kill().  A timer of *)
(* the code may fire as soon as it is armed.                               *)
(***************************************************************************)
EXTENDS Naturals

CONSTANTS
    Callers,             \* concurrent stop and kill requests
    Readiness,           \* the process of failReadiness()
    Sends,               \* the messages the runner may send
    Exits,               \* the ways it may exit
    Faults,              \* what may go wrong around it
    AwaitsReadiness,     \* the dispatcher gets to wait for its readiness
    MaxRemovalFailures   \* bound: how often adapter.remove() may fail

Messages == {"ping", "pang", "ready", "errored", "alive", "stopped", "completed"}
ExitKinds == {"zero", "stopped", "failed", "rejected"}

ASSUME ReadinessAssumption == Readiness \notin Callers
ASSUME EnvironmentAssumption ==
    /\ Sends \subseteq Messages /\ Exits \subseteq ExitKinds
    /\ Faults \subseteq {"storage", "connect", "cleanup", "control"}
    /\ AwaitsReadiness \in BOOLEAN
ASSUME FailuresAssumption == MaxRemovalFailures \in Nat

Procs == Callers \cup {Readiness}
Statuses == {"starting", "running", "stopping", "killing",
             "completed", "errored"}
Terminal == {"completed", "errored"}

VARIABLES
    \* --- fields of the controller
    status,        \* InstanceStatus
    readiness,     \* readinessState
    exposed,       \* an RPC route of the instance is registered
    initState,     \* initResolver: pending, resolved or rejected
    term,          \* terminalTransition: none, removing, finalizing, done
    removal,       \* none, pending (removalPromise), done (removalCompleted)
    extended,      \* instanceLifetimeExtensionDelay > 0
    finalizing,    \* finalizingPromise: none, waiting, over
    keepAlive,     \* keepAliveRequested
    endEmitted,
    \* --- continuations of the controller
    boot,          \* start(): pending, attached (main may run), failed
    main,          \* main(): none, waiting, done, or caught by start()
    runnerMain,    \* instanceMain(): running, cleanup, recleanup, settled
    result,        \* what instancePromise carries, once settled
    readyWait,     \* waitForReady(): none, waiting, ok, failing, failed
    seqStopped,    \* handleSequenceStopped()
    seqCompleted,  \* handleSequenceCompleted()
    op, pc,        \* request of a process and where it stands
    watch,         \* its awaitTerminalCompletion(): none, armed, joined, resolved
    bgKill,        \* the detached end of its kill(): none, waiting, removing, done
    \* --- the world
    exit,          \* exit of the runner as the adapter reports it
    got,           \* messages of the runner handled so far
    failures       \* failed removals so far

fields == <<status, readiness, exposed, initState, term, removal, extended,
            finalizing, keepAlive, endEmitted>>
procs == <<op, pc, watch, bgKill>>
handlers == <<seqStopped, seqCompleted>>
runs == <<boot, main, runnerMain, result, readyWait>>
world == <<exit, got, failures>>
vars == <<fields, runs, handlers, procs, world>>

Init ==
    /\ status = "starting"      \* start() runs instanceMain() synchronously
    /\ readiness = "pending" /\ exposed = FALSE
    /\ initState = "pending"
    /\ term = "none" /\ removal = "none"
    /\ extended \in BOOLEAN /\ finalizing = "none"
    /\ keepAlive = FALSE /\ endEmitted = FALSE
    /\ boot = "pending" /\ main = "none"
    /\ runnerMain = "running" /\ result = "pending"
    /\ readyWait = "none"
    /\ seqStopped = "none" /\ seqCompleted = "none"
    /\ op = [p \in Procs |-> "none"] /\ pc = [p \in Procs |-> "idle"]
    /\ watch = [p \in Procs |-> "none"] /\ bgKill = [p \in Procs |-> "none"]
    /\ exit = "none" /\ got = {} /\ failures = 0

-----------------------------------------------------------------------------
(* Removal and the terminal transition.                                    *)

\* removeInstance(): one removal at a time, remembered once it succeeded.
StartRemoval == removal' = IF removal = "none" THEN "pending" ELSE removal

\* transitionToTerminal(): the first caller starts it, the others join it.
BeginTerminal(st) ==
    IF term = "none"
    THEN /\ term' = "removing"
         /\ status' = IF st = "unknown" THEN status ELSE st
         /\ StartRemoval
    ELSE UNCHANGED <<term, status, removal>>

\* What awaiting the transition comes to right away.
Joined == IF term = "done" THEN "resolved" ELSE "joined"

\* Everyone who awaits the transition goes on when it completes or gives up.
Resolved == [p \in Procs |-> IF watch[p] = "joined" THEN "resolved" ELSE watch[p]]

\* Where a process goes when its kill() returns, and when it throws.
FailureAwaits == IF term = "none" THEN "failWait" ELSE "failTerm"
KillReturned(o) == IF o = "ready" THEN FailureAwaits ELSE "done"
KillThrew(o) ==
    IF o = "ready" THEN FailureAwaits
    ELSE IF o = "stop" /\ term # "none" THEN "awaitTerm" ELSE "failed"

\* Where a process goes when the transition it awaits is given up: that promise
\* resolves like one that completed.
AfterTerminal(p) ==
    IF pc[p] = "failTerm" \/ (pc[p] = "forceTerm" /\ op[p] = "ready") THEN "failWait"
    ELSE IF pc[p] \in {"awaitTerm", "forceTerm"} THEN "done"
    ELSE pc[p]

\* Where a process goes when the removal fails that its kill() awaits.
AfterFailedRemoval(p) ==
    IF pc[p] \in {"remove", "forceRemove"}
    THEN IF op[p] = "ready" THEN "failWait" ELSE "failed"
    ELSE IF term = "removing" THEN AfterTerminal(p) ELSE pc[p]

\* adapter.remove() resolves.
RemovalSucceeds ==
    /\ removal = "pending"
    /\ removal' = "done"
    /\ UNCHANGED <<status, readiness, exposed, initState, term, extended,
                   finalizing, keepAlive, endEmitted, runs, handlers, procs, world>>

\* Mutant: a failed removal does not stop the transition (no early return).
RemovalFailsUnnoticed ==
    /\ removal = "pending" /\ failures < MaxRemovalFailures
    /\ failures' = failures + 1
    /\ removal' = "none"
    /\ term' = IF term = "removing" THEN "finalizing" ELSE term
    /\ watch' = IF term = "removing" THEN Resolved ELSE watch
    /\ pc' = [p \in Procs |-> AfterFailedRemoval(p)]
    /\ bgKill' = [p \in Procs |-> IF bgKill[p] = "removing" THEN "removed" ELSE bgKill[p]]
    /\ seqCompleted' = IF seqCompleted = "removing" THEN "done" ELSE seqCompleted
    /\ UNCHANGED <<status, readiness, exposed, initState, extended, finalizing,
                   keepAlive, endEmitted, runs, seqStopped, op, exit, got>>

\* adapter.remove() rejects: the shared promise is dropped, the transition
\* that awaited it is given up, and every other caller sees the error.
RemovalFails ==
    /\ removal = "pending" /\ failures < MaxRemovalFailures
    /\ failures' = failures + 1
    /\ removal' = "none"
    /\ term' = IF term = "removing" THEN "none" ELSE term
    /\ watch' = IF term = "removing" THEN Resolved ELSE watch
    /\ pc' = [p \in Procs |-> AfterFailedRemoval(p)]
    /\ bgKill' = [p \in Procs |-> IF bgKill[p] = "removing" THEN "removed" ELSE bgKill[p]]
    /\ seqCompleted' = IF seqCompleted = "removing" THEN "done" ELSE seqCompleted
    /\ UNCHANGED <<status, readiness, exposed, initState, extended, finalizing,
                   keepAlive, endEmitted, runs, seqStopped, op, exit, got>>

\* Mutant: the transition goes on when the removal is not yet done.
TerminatedEarly ==
    /\ term = "removing" /\ removal # "none"
    /\ term' = "finalizing"
    /\ finalizing' = IF extended THEN "waiting" ELSE finalizing
    /\ UNCHANGED <<status, readiness, exposed, initState, removal, extended,
                   keepAlive, endEmitted, runs, handlers, procs, world>>

\* The transition emits "terminated" and enters finalize().
Terminated ==
    /\ term = "removing" /\ removal = "done"
    /\ term' = "finalizing"
    /\ finalizing' = IF extended THEN "waiting" ELSE finalizing
    /\ UNCHANGED <<status, readiness, exposed, initState, removal, extended,
                   keepAlive, endEmitted, runs, handlers, procs, world>>

\* The lifetime extension elapses (cancellableDefer).
ExtensionElapses ==
    /\ finalizing = "waiting"
    /\ finalizing' = "over"
    /\ UNCHANGED <<status, readiness, exposed, initState, term, removal,
                   extended, keepAlive, endEmitted, runs, handlers, procs, world>>

\* finalize() returns: emitEnd().
Ended ==
    /\ term = "finalizing" /\ finalizing # "waiting"
    /\ term' = "done"
    /\ endEmitted' = TRUE
    /\ watch' = Resolved
    /\ UNCHANGED <<status, readiness, exposed, initState, removal, extended,
                   finalizing, keepAlive, runs, handlers, op, pc, bgKill, world>>

-----------------------------------------------------------------------------
(* The runner process, instanceMain() and start().                         *)

\* The adapter reports that the runner exited, or fails to tell (waitUntilExit).
RunnerExits ==
    /\ exit = "none"
    /\ exit' \in Exits
    /\ UNCHANGED <<fields, runs, handlers, procs, got, failures>>

\* instanceMain() resumes from endOfSequence; a positive code, the STOPPED one
\* too, and a rejection make the status ERRORED before the cleanup.
ExitObserved ==
    /\ runnerMain = "running" /\ exit # "none"
    /\ status' = IF exit = "zero" THEN status ELSE "errored"
    /\ runnerMain' = IF exit = "rejected" THEN "recleanup" ELSE "cleanup"
    /\ UNCHANGED <<readiness, exposed, initState, term, removal, extended, finalizing,
                   keepAlive, endEmitted, boot, main, result, readyWait,
                   handlers, procs, world>>

\* instancePromise settles; a failure also rejects initResolver.
Settle(r) ==
    /\ runnerMain' = "settled"
    /\ result' = r
    /\ initState' = IF r # "completed" /\ initState = "pending" THEN "rejected" ELSE initState

\* adapter.cleanup() succeeds; mapRunnerExitCode() gives the result.
CleanedUp ==
    /\ \/ runnerMain = "cleanup"
          /\ Settle(IF exit \in {"zero", "stopped"} THEN "completed" ELSE "errored")
       \/ runnerMain = "recleanup" /\ Settle("errored")
    /\ UNCHANGED <<status, readiness, exposed, term, removal, extended, finalizing,
                   keepAlive, endEmitted, boot, main, readyWait, handlers, procs, world>>

\* adapter.cleanup() rejects: it is tried once more, and a second failure
\* leaves an error without a status in instancePromise.
CleanupFails ==
    /\ "cleanup" \in Faults
    /\ \/ /\ runnerMain = "cleanup"
          /\ runnerMain' = "recleanup" /\ status' = "errored"
          /\ UNCHANGED <<result, initState>>
       \/ runnerMain = "recleanup" /\ Settle("unknown") /\ UNCHANGED status
    /\ UNCHANGED <<readiness, exposed, term, removal, extended, finalizing,
                   keepAlive, endEmitted, boot, main, readyWait, handlers, procs, world>>

\* main() up to the await of the runner's result; it runs as soon as start() has
\* attached it and the instance is initialized, whatever the status is by then.
StartMain == main' = "waiting" /\ status' = "running"

\* start() has read and sent the local storage, or failed to: only then are
\* main() and the error handler attached to the initialization.
StorageSent ==
    /\ boot = "pending"
    /\ boot' = "attached" \/ (boot' = "failed" /\ "storage" \in Faults)
    /\ IF boot' = "attached" /\ initState = "resolved"
       THEN StartMain ELSE UNCHANGED <<main, status>>
    /\ UNCHANGED <<readiness, exposed, initState, term, removal, extended, finalizing,
                   keepAlive, endEmitted, runnerMain, result, readyWait,
                   handlers, procs, world>>

\* The runner transport cannot connect: initResolver is rejected.
ConnectFails ==
    /\ "connect" \in Faults /\ initState = "pending" /\ got = {}
    /\ initState' = "rejected"
    /\ UNCHANGED <<status, readiness, exposed, term, removal, extended, finalizing,
                   keepAlive, endEmitted, runs, handlers, procs, world>>

\* Mutant: main() forgets the terminal transition.
MainResumesIdle ==
    /\ main = "waiting" /\ runnerMain = "settled"
    /\ main' = "done"
    /\ UNCHANGED <<term, status, removal>>
    /\ UNCHANGED <<readiness, exposed, initState, extended, finalizing, keepAlive,
                   endEmitted, boot, runnerMain, result, readyWait, handlers, procs, world>>

\* main() resumes with the runner's result.
MainResumes ==
    /\ main = "waiting" /\ runnerMain = "settled"
    /\ main' = "done"
    /\ BeginTerminal(result)
    /\ UNCHANGED <<readiness, exposed, initState, extended, finalizing, keepAlive,
                   endEmitted, boot, runnerMain, result, readyWait, handlers, procs, world>>

\* start() catches a rejected initialization.
StartCatches ==
    /\ boot = "attached" /\ initState = "rejected" /\ main = "none"
    /\ main' = "caught"
    /\ IF endEmitted THEN UNCHANGED <<term, status, removal>> ELSE BeginTerminal("errored")
    /\ UNCHANGED <<readiness, exposed, initState, extended, finalizing, keepAlive,
                   endEmitted, boot, runnerMain, result, readyWait, handlers, procs, world>>

-----------------------------------------------------------------------------
(* stop() and kill(), which the API callers and failReadiness() run.       *)

Goto(p, label) == pc' = [pc EXCEPT ![p] = label]

\* awaitTerminalCompletion(): join the transition, or arm one for when the
\* runner's result is known; what is armed fires even when nobody waits for it.
AwaitTerminalCompletion(p) ==
    watch' = [watch EXCEPT ![p] = IF term = "none" THEN "armed" ELSE Joined]

\* Mutant: an immediate kill does not cancel a lifetime extension that waits.
KillBeginsUncancelled(p, o, removeImmediately) ==
    /\ op' = [op EXCEPT ![p] = o]
    /\ extended' = IF removeImmediately THEN FALSE ELSE extended
    /\ finalizing' = finalizing
    /\ \/ /\ status \in Terminal
          /\ IF removeImmediately /\ removal # "done"
             THEN StartRemoval /\ Goto(p, "remove")
             ELSE UNCHANGED removal /\ Goto(p, KillReturned(o))
          /\ UNCHANGED <<status, watch>>
       \/ /\ status = "killing"
          /\ StartRemoval /\ Goto(p, "remove")
          /\ UNCHANGED <<status, watch>>
       \/ /\ status \notin Terminal \cup {"killing"}
          /\ status' = "killing"
          /\ AwaitTerminalCompletion(p) /\ Goto(p, "killSend")
          /\ UNCHANGED removal

\* kill() up to its first await, for a process p doing o.
KillBegins(p, o, removeImmediately) ==
    /\ op' = [op EXCEPT ![p] = o]
    /\ extended' = IF removeImmediately THEN FALSE ELSE extended
    /\ finalizing' = IF removeImmediately /\ finalizing = "waiting" THEN "over" ELSE finalizing
    /\ \/ /\ status \in Terminal
          /\ IF removeImmediately /\ removal # "done"
             THEN StartRemoval /\ Goto(p, "remove")
             ELSE UNCHANGED removal /\ Goto(p, KillReturned(o))
          /\ UNCHANGED <<status, watch>>
       \/ /\ status = "killing"
          /\ StartRemoval /\ Goto(p, "remove")
          /\ UNCHANGED <<status, watch>>
       \/ /\ status \notin Terminal \cup {"killing"}
          /\ status' = "killing"
          /\ AwaitTerminalCompletion(p) /\ Goto(p, "killSend")
          /\ UNCHANGED removal

\* The routes of an instance exist until its end takes it out of the store.
CanCall(p) == p \in Callers /\ pc[p] = "idle" /\ ~endEmitted

ApiStop(p) ==
    /\ CanCall(p)
    /\ op' = [op EXCEPT ![p] = "stop"]
    /\ IF term # "none"
       THEN Goto(p, "done") /\ UNCHANGED <<status, watch>>
       ELSE status' = "stopping" /\ AwaitTerminalCompletion(p) /\ Goto(p, "stopSend")
    /\ UNCHANGED <<readiness, exposed, initState, term, removal, extended, finalizing,
                   keepAlive, endEmitted, runs, handlers, bgKill, world>>

\* The API accepts a plain kill only for an instance that starts or runs.
ApiKill(p) ==
    /\ CanCall(p) /\ status \in {"starting", "running"}
    /\ KillBegins(p, "kill", FALSE)
    /\ UNCHANGED <<readiness, exposed, initState, term, keepAlive, endEmitted,
                   runs, handlers, bgKill, world>>

ApiKillImmediately(p) ==
    /\ CanCall(p)
    /\ KillBegins(p, "killNow", TRUE)
    /\ UNCHANGED <<readiness, exposed, initState, term, keepAlive, endEmitted,
                   runs, handlers, bgKill, world>>

\* STOP was written, or the terminal completion came first.
StopAnswered(p) ==
    /\ pc[p] = "stopSend"
    /\ keepAlive' = FALSE
    /\ IF endEmitted THEN Goto(p, "done") ELSE Goto(p, "stopDelay")
    /\ UNCHANGED <<status, readiness, exposed, initState, term, removal, extended,
                   finalizing, endEmitted, runs, handlers, op, watch, bgKill, world>>

\* A control write that fails leaves the call to the terminal completion;
\* a deadline that passes first makes it throw.
StopFails(p) ==
    /\ \/ pc[p] = "stopSend" /\ "control" \in Faults /\ Goto(p, "stopBounded")
       \/ pc[p] = "stopBounded" /\ watch[p] = "resolved" /\ Goto(p, "done")
       \/ pc[p] \in {"stopSend", "stopBounded"} /\ watch[p] # "resolved" /\ Goto(p, "failed")
    /\ UNCHANGED <<fields, runs, handlers, op, watch, bgKill, world>>

\* Mutant: the terminal state is not checked again after the delay.
StopDelayEndsBlindly(p) ==
    /\ pc[p] = "stopDelay"
    /\ IF keepAlive
       THEN Goto(p, "done") /\ UNCHANGED <<op, extended, finalizing, status, removal, watch>>
       ELSE KillBegins(p, "stop", FALSE)
    /\ UNCHANGED <<readiness, exposed, initState, term, keepAlive, endEmitted,
                   runs, handlers, bgKill, world>>

\* The stop delay is over: kill() unless the instance ended or asked to live.
StopDelayEnds(p) ==
    /\ pc[p] = "stopDelay"
    /\ IF term # "none" \/ endEmitted \/ keepAlive
       THEN Goto(p, "done") /\ UNCHANGED <<op, extended, finalizing, status, removal, watch>>
       ELSE KillBegins(p, "stop", FALSE)
    /\ UNCHANGED <<readiness, exposed, initState, term, keepAlive, endEmitted,
                   runs, handlers, bgKill, world>>

\* KILL was written, or the terminal completion came first: the rest of the
\* kill goes on detached.
KillAnswered(p) ==
    /\ pc[p] = "killSend"
    /\ bgKill' = [bgKill EXCEPT ![p] = "waiting"]
    /\ Goto(p, KillReturned(op[p]))
    /\ UNCHANGED <<fields, runs, handlers, op, watch, world>>

KillControlFails(p) ==
    /\ \/ pc[p] = "killSend" /\ "control" \in Faults /\ Goto(p, "killBounded")
       \/ pc[p] = "killBounded" /\ watch[p] = "resolved" /\ Goto(p, KillReturned(op[p]))
    /\ UNCHANGED <<fields, runs, handlers, op, watch, bgKill, world>>

\* Mutant: an immediate kill whose control fails throws like a plain one.
KillTimesOutPlain(p) ==
    /\ pc[p] \in {"killSend", "killBounded"} /\ watch[p] # "resolved"
    /\ IF op[p] = "none"
       THEN StartRemoval /\ Goto(p, "forceRemove")
       ELSE /\ IF term # "none" \/ endEmitted \/ status \in Terminal
               THEN Goto(p, KillReturned(op[p])) ELSE Goto(p, KillThrew(op[p]))
            /\ UNCHANGED removal
    /\ UNCHANGED <<status, readiness, exposed, initState, term, extended, finalizing,
                   keepAlive, endEmitted, runs, handlers, op, watch, bgKill, world>>

\* Neither the control write nor the runner answered in time.
KillTimesOut(p) ==
    /\ pc[p] \in {"killSend", "killBounded"} /\ watch[p] # "resolved"
    /\ IF op[p] \in {"killNow", "ready"}
       THEN StartRemoval /\ Goto(p, "forceRemove")
       ELSE /\ IF term # "none" \/ endEmitted \/ status \in Terminal
               THEN Goto(p, KillReturned(op[p])) ELSE Goto(p, KillThrew(op[p]))
            /\ UNCHANGED removal
    /\ UNCHANGED <<status, readiness, exposed, initState, term, extended, finalizing,
                   keepAlive, endEmitted, runs, handlers, op, watch, bgKill, world>>

\* The removal a kill() awaits succeeded; a forced one goes on to the transition.
KillRemoved(p) ==
    /\ removal = "done"
    /\ \/ /\ pc[p] = "remove" /\ Goto(p, KillReturned(op[p]))
          /\ UNCHANGED <<term, status, removal>>
       \/ /\ pc[p] = "forceRemove" /\ Goto(p, "forceTerm")
          /\ BeginTerminal("errored")
    /\ UNCHANGED <<readiness, exposed, initState, extended, finalizing, keepAlive,
                   endEmitted, runs, handlers, op, watch, bgKill, world>>

\* The process goes on after the transition it awaits completed.
TerminalAwaited(p) ==
    /\ pc[p] \in {"awaitTerm", "forceTerm"} /\ term = "done"
    /\ Goto(p, AfterTerminal(p))
    /\ UNCHANGED <<fields, runs, handlers, op, watch, bgKill, world>>

\* The continuation of awaitTerminalCompletion() on instancePromise.
WatcherFires(p) ==
    /\ watch[p] = "armed" /\ runnerMain = "settled"
    /\ watch' = [watch EXCEPT ![p] = Joined]
    /\ BeginTerminal(result)
    /\ UNCHANGED <<readiness, exposed, initState, extended, finalizing, keepAlive,
                   endEmitted, runs, handlers, op, pc, bgKill, world>>

\* Mutant: the detached kill waits for the runner without a deadline.
KillSettlesWithoutDeadline(p) ==
    /\ \/ /\ bgKill[p] = "waiting" /\ runnerMain = "settled"
          /\ BeginTerminal(result)
          /\ bgKill' = [bgKill EXCEPT ![p] = "done"]
       \/ /\ bgKill[p] = "removed" \/ (bgKill[p] = "removing" /\ removal = "done")
          /\ BeginTerminal("errored")
          /\ bgKill' = [bgKill EXCEPT ![p] = "done"]
    /\ UNCHANGED <<readiness, exposed, initState, extended, finalizing, keepAlive,
                   endEmitted, runs, handlers, op, pc, watch, world>>

\* The detached end of a kill: the runner's result, or removal at the deadline.
KillSettles(p) ==
    /\ \/ /\ bgKill[p] = "waiting" /\ runnerMain = "settled"
          /\ BeginTerminal(result)
          /\ bgKill' = [bgKill EXCEPT ![p] = "done"]
       \/ /\ bgKill[p] = "waiting" /\ runnerMain # "settled"
          /\ StartRemoval
          /\ bgKill' = [bgKill EXCEPT ![p] = "removing"]
          /\ UNCHANGED <<term, status>>
       \/ /\ bgKill[p] = "removed" \/ (bgKill[p] = "removing" /\ removal = "done")
          /\ BeginTerminal("errored")
          /\ bgKill' = [bgKill EXCEPT ![p] = "done"]
    /\ UNCHANGED <<readiness, exposed, initState, extended, finalizing, keepAlive,
                   endEmitted, runs, handlers, op, pc, watch, world>>

-----------------------------------------------------------------------------
(* Messages of the runner and the readiness of the instance.               *)

\* Each message is handled once; nothing comes before the PING.
Receive(m) ==
    /\ m \in Sends \ got /\ (m = "ping" \/ "ping" \in got)
    /\ got' = got \cup {m}

HandlePing ==
    /\ Receive("ping")
    /\ status' \in {"starting", "running"}
    /\ UNCHANGED <<readiness, exposed, initState, term, removal, extended, finalizing,
                   keepAlive, endEmitted, runs, handlers, procs, exit, failures>>

\* handleInstanceConnect() resumes: the instance is initialized.
HandlePang ==
    /\ Receive("pang")
    /\ IF initState = "pending" THEN initState' = "resolved" ELSE UNCHANGED initState
    /\ IF initState = "pending" /\ boot = "attached"
       THEN StartMain ELSE UNCHANGED <<main, status>>
    /\ UNCHANGED <<readiness, exposed, term, removal, extended, finalizing, keepAlive,
                   endEmitted, boot, runnerMain, result, readyWait, handlers, procs,
                   exit, failures>>

HandleKeepAliveCommand ==
    /\ "alive" \in Sends /\ "ping" \in got
    /\ keepAlive' = TRUE
    /\ UNCHANGED <<status, readiness, exposed, initState, term, removal, extended,
                   finalizing, endEmitted, runs, handlers, procs, world>>

\* The dispatcher awaits readiness once the instance is established.
WaitForReady ==
    /\ AwaitsReadiness /\ "ping" \in got /\ readyWait = "none" /\ ~endEmitted
    /\ \/ readiness = "ready" /\ readyWait' = "ok"
       \/ readiness = "pending" /\ readyWait' = "waiting"
       \/ readiness = "errored" /\ readyWait' = IF pc[Readiness] = "done" THEN "failed" ELSE "failing"
    /\ UNCHANGED <<fields, boot, main, runnerMain, result, handlers, procs, world>>

\* Mutant: READY is accepted after a failed readiness.
HandleReadyAlways ==
    /\ Receive("ready")
    /\ IF endEmitted
       THEN UNCHANGED <<readiness, exposed, readyWait>>
       ELSE /\ readiness' = "ready"
            /\ exposed' = TRUE \/ UNCHANGED exposed
            /\ readyWait' = IF readyWait = "waiting" THEN "ok" ELSE readyWait
    /\ UNCHANGED <<status, initState, term, removal, extended, finalizing, keepAlive,
                   endEmitted, boot, main, runnerMain, result, handlers, procs,
                   exit, failures>>

\* Mutant: READY does not clear the readiness deadline.
HandleReadyTimerKept ==
    /\ Receive("ready")
    /\ IF readiness = "errored" \/ endEmitted
       THEN UNCHANGED <<readiness, exposed, readyWait>>
       ELSE /\ readiness' = "ready"
            /\ exposed' = TRUE \/ UNCHANGED exposed
            /\ UNCHANGED readyWait
    /\ UNCHANGED <<status, initState, term, removal, extended, finalizing, keepAlive,
                   endEmitted, boot, main, runnerMain, result, handlers, procs,
                   exit, failures>>

\* READY; an errored readiness and an ended instance ignore it.
HandleReady ==
    /\ Receive("ready")
    /\ IF readiness = "errored" \/ endEmitted
       THEN UNCHANGED <<readiness, exposed, readyWait>>
       ELSE /\ readiness' = "ready"
            /\ exposed' = TRUE \/ UNCHANGED exposed
            /\ readyWait' = IF readyWait = "waiting" THEN "ok" ELSE readyWait
    /\ UNCHANGED <<status, initState, term, removal, extended, finalizing, keepAlive,
                   endEmitted, boot, main, runnerMain, result, handlers, procs,
                   exit, failures>>

\* failReadiness() up to the await of its kill().
FailReadiness ==
    /\ readiness' = "errored"
    /\ exposed' = FALSE
    /\ KillBegins(Readiness, "ready", TRUE)
    /\ UNCHANGED <<initState, term, keepAlive, endEmitted, boot, main, runnerMain, result,
                   handlers, bgKill, exit, failures>>

\* The runner rejects its initialization.
HandleErrored ==
    /\ Receive("errored")
    /\ \/ /\ readiness = "errored" \/ endEmitted
          /\ UNCHANGED <<fields, runs, handlers, procs, exit, failures>>
       \/ /\ readiness # "errored" /\ ~endEmitted
          /\ readyWait' = IF readyWait = "waiting" THEN "failing" ELSE readyWait
          /\ FailReadiness

\* The readiness deadline; READY or a rejection has cleared it.
ReadinessTimesOut ==
    /\ readyWait = "waiting"
    /\ readyWait' = "failing"
    /\ FailReadiness
    /\ UNCHANGED got

\* failReadiness() after its kill(): once the instance ended or a deadline passed,
\* report, and let waitForReady() reject.
ReadinessFailed ==
    /\ pc[Readiness] = "failWait" \/ (pc[Readiness] = "failTerm" /\ term = "done")
    /\ Goto(Readiness, "done")
    /\ status' = "errored"
    /\ readyWait' = IF readyWait = "failing" THEN "failed" ELSE readyWait
    /\ UNCHANGED <<readiness, exposed, initState, term, removal, extended, finalizing,
                   keepAlive, endEmitted, boot, main, runnerMain, result, handlers,
                   op, watch, bgKill, world>>

-----------------------------------------------------------------------------
(* The end of the sequence as the runner announces it.                     *)

Closing == term # "none" \/ endEmitted

HandleSequenceStopped ==
    /\ Receive("stopped")
    /\ seqStopped' = IF endEmitted THEN "done" ELSE "waitExit"
    /\ UNCHANGED <<fields, runs, seqCompleted, procs, exit, failures>>

\* The runner exits in time, or a KILL is sent when the deadline passes or
\* its exit cannot be told.
SequenceStoppedExit ==
    /\ seqStopped = "waitExit"
    /\ \/ /\ exit \notin {"none", "rejected"}
          /\ seqStopped' = IF Closing THEN "done" ELSE "waitResult"
       \/ /\ exit \in {"none", "rejected"}
          /\ seqStopped' = IF Closing THEN "done" ELSE "killSend"
    /\ UNCHANGED <<fields, runs, seqCompleted, procs, world>>

SequenceStoppedResult ==
    /\ seqStopped = "waitResult" /\ runnerMain = "settled"
    /\ seqStopped' = "done"
    /\ BeginTerminal(result)
    /\ UNCHANGED <<readiness, exposed, initState, extended, finalizing, keepAlive,
                   endEmitted, runs, seqCompleted, procs, world>>

\* The KILL is written, or its failure ends the handler.
SequenceStoppedKill ==
    /\ seqStopped = "killSend"
    /\ seqStopped' = "waitKilled" \/ (seqStopped' = "done" /\ "control" \in Faults)
    /\ UNCHANGED <<fields, runs, seqCompleted, procs, world>>

\* Mutant: an unresponsive runner is left to others after the KILL.
SequenceStoppedKilledOnly ==
    /\ seqStopped = "waitKilled"
    /\ seqStopped' = "done"
    /\ UNCHANGED <<term, status, removal>>
    /\ UNCHANGED <<readiness, exposed, initState, extended, finalizing, keepAlive,
                   endEmitted, runs, seqCompleted, procs, world>>

\* A killed runner leaves the transition to others; an unresponsive one does not.
SequenceStoppedKilled ==
    /\ seqStopped = "waitKilled"
    /\ seqStopped' = "done"
    /\ IF exit \in {"none", "rejected"} THEN BeginTerminal("errored")
       ELSE UNCHANGED <<term, status, removal>>
    /\ UNCHANGED <<readiness, exposed, initState, extended, finalizing, keepAlive,
                   endEmitted, runs, seqCompleted, procs, world>>

HandleSequenceCompleted ==
    /\ Receive("completed")
    /\ seqCompleted' = IF endEmitted THEN "done" ELSE "waitResult"
    /\ UNCHANGED <<fields, runs, seqStopped, procs, exit, failures>>

\* The runner's result, or the removal of the runner at the deadline.
SequenceCompletedResult ==
    /\ \/ /\ seqCompleted = "waitResult" /\ runnerMain = "settled"
          /\ seqCompleted' = "done"
          /\ BeginTerminal(result)
       \/ /\ seqCompleted = "waitResult" /\ runnerMain # "settled"
          /\ seqCompleted' = "removing"
          /\ StartRemoval
          /\ UNCHANGED <<term, status>>
       \/ /\ seqCompleted = "removing" /\ removal = "done"
          /\ seqCompleted' = "done"
          /\ UNCHANGED <<term, status, removal>>
    /\ UNCHANGED <<readiness, exposed, initState, extended, finalizing, keepAlive,
                   endEmitted, runs, seqStopped, procs, world>>

-----------------------------------------------------------------------------
RunnerStep == ExitObserved \/ CleanedUp \/ CleanupFails
ClosingStep == Terminated \/ ExtensionElapses \/ Ended
MainStep == MainResumes \/ StartCatches
StopStep(p) == StopAnswered(p) \/ StopFails(p) \/ StopDelayEnds(p)
KillStep(p) ==
    \/ KillAnswered(p) \/ KillControlFails(p) \/ KillTimesOut(p)
    \/ KillRemoved(p) \/ TerminalAwaited(p)
ReadinessStep == ReadinessTimesOut \/ ReadinessFailed
SequenceStep ==
    \/ SequenceStoppedExit \/ SequenceStoppedResult \/ SequenceStoppedKilled
    \/ SequenceCompletedResult

Environment ==
    \/ RunnerExits \/ StorageSent \/ ConnectFails
    \/ HandlePing \/ HandlePang \/ HandleReady \/ HandleErrored
    \/ HandleKeepAliveCommand \/ HandleSequenceStopped \/ HandleSequenceCompleted
    \/ WaitForReady
    \/ \E p \in Callers : ApiStop(p) \/ ApiKill(p) \/ ApiKillImmediately(p)

Next ==
    \/ RemovalSucceeds \/ RemovalFails
    \/ RunnerStep \/ ClosingStep \/ MainStep \/ ReadinessStep \/ SequenceStep
    \/ SequenceStoppedKill
    \/ \E p \in Procs : StopStep(p) \/ KillStep(p) \/ WatcherFires(p) \/ KillSettles(p)
    \/ Environment

Spec == Init /\ [][Next]_vars

\* Continuations run, the dispatcher awaits readiness if it comes to it, timers
\* fire, local storage and a removal settle, and a
\* runner whose removal succeeded exits.  Callers, messages and all else of the
\* runner owe nothing, nor does the KILL that handleSequenceStopped() writes: it
\* is awaited without a deadline, and a control stream can stay pending.
Fairness ==
    /\ WF_vars(RemovalSucceeds \/ RemovalFails)
    /\ WF_vars(StorageSent) /\ WF_vars(WaitForReady)
    /\ WF_vars(RunnerStep) /\ WF_vars(ClosingStep) /\ WF_vars(MainStep)
    /\ WF_vars(ReadinessStep) /\ WF_vars(SequenceStep)
    /\ WF_vars(removal = "done" /\ RunnerExits)
    /\ \A p \in Procs :
        /\ WF_vars(StopStep(p)) /\ WF_vars(KillStep(p))
        /\ WF_vars(WatcherFires(p)) /\ WF_vars(KillSettles(p))

FairSpec == Spec /\ Fairness

-----------------------------------------------------------------------------
(* Properties.                                                             *)

Labels == {"idle", "stopSend", "stopBounded", "stopDelay", "killSend", "killBounded",
           "remove", "forceRemove", "forceTerm", "awaitTerm", "failWait", "failTerm",
           "done", "failed"}

\* Every value the controller and its continuations may hold.
TypeOK ==
    /\ status \in Statuses
    /\ readiness \in {"pending", "ready", "errored"}
    /\ exposed \in BOOLEAN
    /\ initState \in {"pending", "resolved", "rejected"}
    /\ term \in {"none", "removing", "finalizing", "done"}
    /\ removal \in {"none", "pending", "done"}
    /\ extended \in BOOLEAN /\ finalizing \in {"none", "waiting", "over"}
    /\ keepAlive \in BOOLEAN /\ endEmitted \in BOOLEAN
    /\ boot \in {"pending", "attached", "failed"}
    /\ main \in {"none", "waiting", "done", "caught"}
    /\ runnerMain \in {"running", "cleanup", "recleanup", "settled"}
    /\ result \in {"pending", "completed", "errored", "unknown"}
    /\ readyWait \in {"none", "waiting", "ok", "failing", "failed"}
    /\ seqStopped \in {"none", "waitExit", "waitResult", "killSend", "waitKilled", "done"}
    /\ seqCompleted \in {"none", "waitResult", "removing", "done"}
    /\ op \in [Procs -> {"none", "stop", "kill", "killNow", "ready"}]
    /\ pc \in [Procs -> Labels]
    /\ watch \in [Procs -> {"none", "armed", "joined", "resolved"}]
    /\ bgKill \in [Procs -> {"none", "waiting", "removing", "removed", "done"}]
    /\ exit \in ExitKinds \cup {"none"}
    /\ got \subseteq Messages
    /\ failures \in 0..MaxRemovalFailures

\* However many callers, messages and failed removals race for it, the instance
\* closes as the hub promises: nothing announced while a runner is owned,
\* "terminated" once and before "end", "end" once (transitionToTerminal).
Ownership == INSTANCE InstanceOwnership WITH
    phase <- IF term = "none" THEN "live"
             ELSE IF term = "removing" THEN "closing"
             ELSE IF term = "finalizing" THEN "terminated" ELSE "ended",
    owned <- removal # "done"
RefinesOwnership == Ownership!Spec

\* The instance ends only after the adapter let its runner go, and a closing
\* instance always has a removal under way or behind it.
EndOwnsNoRunner ==
    /\ endEmitted <=> term = "done"
    /\ term \in {"finalizing", "done"} => removal = "done"
    /\ term = "removing" => removal # "none"

\* A request to remove immediately, or a failed readiness, is never held up by
\* the lifetime extension, whether it comes before or during finalize().
ForcedKillSkipsExtension ==
    (\E p \in Procs : op[p] \in {"killNow", "ready"}) => finalizing # "waiting"

\* An instance whose readiness failed owns no RPC route, whatever READY comes
\* late (handleReadinessMessage, failReadiness).
FailedReadinessOwnsNoRoute == op[Readiness] = "ready" => ~exposed

\* A ready instance is failed only by its runner, never by the deadline it met.
ReadyLostOnlyToRunner ==
    [][readiness = "ready" /\ readiness' # "ready" => "errored" \in got' \ got]_vars

\* A caller's STOP or KILL is never sent to an instance that has ended, even when
\* a late message has overwritten its terminal status (stop, kill).
ControlSent(p) == pc[p] \notin {"stopSend", "killSend"} /\ pc'[p] \in {"stopSend", "killSend"}
NoControlAfterEnd == [][endEmitted => \A p \in Callers : ~ControlSent(p)]_vars

\* A forced kill, by a caller or by failed readiness, ends the instance unless
\* the adapter fails to remove the runner.
ForcedKillReachesEnd ==
    (\E p \in Procs : op[p] \in {"killNow", "ready"}) ~> (endEmitted \/ failures > 0)

\* stop() ends the instance, unless its sequence asks to live, the call throws,
\* or the removal fails.
StopReachesEnd ==
    \A p \in Callers :
        op[p] = "stop" ~> (endEmitted \/ keepAlive \/ pc[p] = "failed" \/ failures > 0)

\* The end the runner announces is followed by the end of the instance, even when
\* the runner then hangs or its exit cannot be told, unless the KILL that is
\* written to a hanging runner stays pending for ever (handleSequenceStopped,
\* handleSequenceCompleted).
AnnouncedEndReachesEnd ==
    (main = "waiting" /\ got \cap {"stopped", "completed"} # {})
        ~> (endEmitted \/ failures > 0 \/ [](seqStopped = "killSend"))

\* Once main() watches the runner, the exit of the runner ends the instance.
WatchedExitReachesEnd ==
    (main = "waiting" /\ exit # "none") ~> (endEmitted \/ failures > 0)
=============================================================================
