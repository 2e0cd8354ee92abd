---------------------- MODULE InstanceLifecycleProofs ----------------------
(***************************************************************************)
(* What holds of InstanceLifecycle for any set of callers, messages, exits *)
(* and faults.  The safety theorems share one inductive invariant, Inv;    *)
(* what a step may do to the closing of the instance, and to its lifetime  *)
(* extension, is said once each, by ClosingChange and ForcedChange, and    *)
(* the theorems are proved of those instead of the forty actions.          *)
(***************************************************************************)
EXTENDS InstanceLifecycle, TLAPS

\* instancePromise carries a result exactly when it has settled.
ResultKnown == runnerMain = "settled" <=> result # "pending"

\* The types of what kill() assigns before its first await.
KillTyped ==
    /\ op' \in [Procs -> {"none", "stop", "kill", "killNow", "ready"}]
    /\ extended' \in BOOLEAN /\ finalizing' \in {"none", "waiting", "over"}
    /\ status' \in Statuses /\ removal' \in {"none", "pending", "done"}
    /\ watch' \in [Procs -> {"none", "armed", "joined", "resolved"}]
    /\ pc' \in [Procs -> Labels]

\* kill() up to its first await assigns only values of the right type (kill).
LEMMA KillBeginsType ==
    ASSUME TypeOK, NEW p \in Procs, NEW o \in {"stop", "kill", "killNow", "ready"},
           NEW b \in BOOLEAN, KillBegins(p, o, b)
    PROVE  KillTyped
<1> USE DEF KillTyped, TypeOK, KillBegins, StartRemoval, AwaitTerminalCompletion, Joined, FailureAwaits, KillReturned, KillThrew, Goto, Statuses, Terminal, Labels
<1>1. op' \in [Procs -> {"none", "stop", "kill", "killNow", "ready"}] OBVIOUS
<1>2. extended' \in BOOLEAN OBVIOUS
<1>3. finalizing' \in {"none", "waiting", "over"} OBVIOUS
<1>4. CASE status \in Terminal
    <2>1. pc' \in [Procs -> Labels] BY <1>4
    <2>2. removal' \in {"none", "pending", "done"} BY <1>4
    <2>3. UNCHANGED <<status, watch>> BY <1>4
    <2> QED BY <1>1, <1>2, <1>3, <2>1, <2>2, <2>3
<1>5. CASE status = "killing" BY <1>1, <1>2, <1>3, <1>5
<1>6. CASE status \notin Terminal \cup {"killing"} BY <1>1, <1>2, <1>3, <1>6
<1> QED BY <1>4, <1>5, <1>6

\* Every step of the controller preserves the types, and settles instancePromise
\* only with a result (startInstance).
LEMMA TypeStep ==
    ASSUME TypeOK, ResultKnown, [Next]_vars PROVE TypeOK' /\ ResultKnown'
<1> USE ReadinessAssumption, EnvironmentAssumption, FailuresAssumption DEF TypeOK, Labels, ResultKnown, Procs, Messages, ExitKinds, Statuses, Terminal, fields, runs, handlers, procs, world
<1>1. CASE RemovalSucceeds BY <1>1 DEF RemovalSucceeds
<1>2. CASE RemovalFails BY <1>2 DEF RemovalFails, AfterFailedRemoval, AfterTerminal, Resolved
<1>3. CASE ExitObserved BY <1>3 DEF ExitObserved
<1>4. CASE CleanedUp BY <1>4 DEF CleanedUp, Settle
<1>5. CASE CleanupFails BY <1>5 DEF CleanupFails, Settle
<1>6. CASE Terminated BY <1>6 DEF Terminated
<1>7. CASE ExtensionElapses BY <1>7 DEF ExtensionElapses
<1>8. CASE Ended BY <1>8 DEF Ended, Resolved
<1>9. CASE MainResumes BY <1>9 DEF MainResumes, BeginTerminal, StartRemoval
<1>10. CASE StartCatches BY <1>10 DEF StartCatches, BeginTerminal, StartRemoval
<1>11. CASE ReadinessTimesOut
    <2>1. KillBegins(Readiness, "ready", TRUE) BY <1>11 DEF ReadinessTimesOut, FailReadiness
    <2>2. exposed' \in BOOLEAN BY <1>11 DEF ReadinessTimesOut, FailReadiness
    <2>3. KillTyped BY <2>1, KillBeginsType
    <2> QED BY <1>11, <2>2, <2>3 DEF KillTyped, ReadinessTimesOut, FailReadiness
<1>12. CASE ReadinessFailed BY <1>12 DEF ReadinessFailed, Goto
<1>13. CASE SequenceStoppedExit BY <1>13 DEF SequenceStoppedExit, Closing
<1>14. CASE SequenceStoppedResult BY <1>14 DEF SequenceStoppedResult, BeginTerminal, StartRemoval
<1>15. CASE SequenceStoppedKill BY <1>15 DEF SequenceStoppedKill
<1>16. CASE SequenceStoppedKilled BY <1>16 DEF SequenceStoppedKilled, BeginTerminal, StartRemoval
<1>17. CASE SequenceCompletedResult BY <1>17 DEF SequenceCompletedResult, BeginTerminal, StartRemoval
<1>18. CASE RunnerExits BY <1>18 DEF RunnerExits
<1>19. CASE StorageSent BY <1>19 DEF StorageSent, StartMain
<1>20. CASE ConnectFails BY <1>20 DEF ConnectFails
<1>21. CASE HandlePing BY <1>21 DEF HandlePing, Receive
<1>22. CASE HandlePang BY <1>22 DEF HandlePang, Receive, StartMain
<1>23. CASE HandleReady
    <2>1. exposed' \in BOOLEAN BY <1>23 DEF HandleReady
    <2>2. /\ readiness' \in {"pending", "ready", "errored"}
          /\ readyWait' \in {"none", "waiting", "ok", "failing", "failed"}
        BY <1>23 DEF HandleReady
    <2> QED BY <1>23, <2>1, <2>2 DEF HandleReady, Receive
<1>24. CASE HandleErrored
    <2>1. CASE readiness # "errored" /\ ~endEmitted
        <3>1. KillBegins(Readiness, "ready", TRUE) BY <1>24, <2>1 DEF HandleErrored, FailReadiness
        <3>2. exposed' \in BOOLEAN BY <1>24, <2>1 DEF HandleErrored, FailReadiness
        <3>3. KillTyped BY <3>1, KillBeginsType
        <3>4. /\ readyWait' \in {"none", "waiting", "ok", "failing", "failed"}
              /\ readiness' \in {"pending", "ready", "errored"} /\ got' \subseteq Messages
            BY <1>24, <2>1 DEF HandleErrored, FailReadiness, Receive
        <3>5. UNCHANGED <<initState, term, keepAlive, endEmitted, boot, main, runnerMain,
                          result, seqStopped, seqCompleted, bgKill, exit, failures>>
            BY <1>24, <2>1 DEF HandleErrored, FailReadiness
        <3> QED BY <3>2, <3>3, <3>4, <3>5 DEF KillTyped
    <2>2. CASE readiness = "errored" \/ endEmitted BY <1>24, <2>2 DEF HandleErrored, Receive
    <2> QED BY <2>1, <2>2
<1>25. CASE HandleKeepAliveCommand BY <1>25 DEF HandleKeepAliveCommand
<1>26. CASE HandleSequenceStopped BY <1>26 DEF HandleSequenceStopped, Receive
<1>27. CASE HandleSequenceCompleted BY <1>27 DEF HandleSequenceCompleted, Receive
<1>28. CASE WaitForReady BY <1>28 DEF WaitForReady
<1>29. ASSUME NEW p \in Procs, StopAnswered(p) PROVE TypeOK' /\ ResultKnown'
    <2>1. pc' \in [Procs -> Labels] BY <1>29 DEF StopAnswered, Goto
    <2>2. keepAlive' \in BOOLEAN BY <1>29 DEF StopAnswered
    <2> QED BY <1>29, <2>1, <2>2 DEF StopAnswered
<1>30. ASSUME NEW p \in Procs, StopFails(p) PROVE TypeOK' /\ ResultKnown' BY <1>30 DEF StopFails, Goto
<1>31. ASSUME NEW p \in Procs, StopDelayEnds(p) PROVE TypeOK' /\ ResultKnown' BY <1>31 DEF StopDelayEnds, KillBegins, StartRemoval, AwaitTerminalCompletion, Joined, FailureAwaits, KillReturned, KillThrew, Goto
<1>32. ASSUME NEW p \in Procs, KillAnswered(p) PROVE TypeOK' /\ ResultKnown' BY <1>32 DEF KillAnswered, FailureAwaits, KillReturned, KillThrew, Goto
<1>33. ASSUME NEW p \in Procs, KillControlFails(p) PROVE TypeOK' /\ ResultKnown' BY <1>33 DEF KillControlFails, FailureAwaits, KillReturned, KillThrew, Goto
<1>34. ASSUME NEW p \in Procs, KillTimesOut(p) PROVE TypeOK' /\ ResultKnown' BY <1>34 DEF KillTimesOut, StartRemoval, FailureAwaits, KillReturned, KillThrew, Goto
<1>35. ASSUME NEW p \in Procs, KillRemoved(p) PROVE TypeOK' /\ ResultKnown' BY <1>35 DEF KillRemoved, BeginTerminal, StartRemoval, FailureAwaits, KillReturned, KillThrew, Goto
<1>36. ASSUME NEW p \in Procs, TerminalAwaited(p) PROVE TypeOK' /\ ResultKnown' BY <1>36 DEF TerminalAwaited, AfterTerminal, Goto
<1>37. ASSUME NEW p \in Procs, WatcherFires(p) PROVE TypeOK' /\ ResultKnown' BY <1>37 DEF WatcherFires, BeginTerminal, StartRemoval, Joined
<1>38. ASSUME NEW p \in Procs, KillSettles(p) PROVE TypeOK' /\ ResultKnown' BY <1>38 DEF KillSettles, BeginTerminal, StartRemoval
<1>39. ASSUME NEW p \in Callers, ApiStop(p) PROVE TypeOK' /\ ResultKnown' BY <1>39 DEF ApiStop, CanCall, AwaitTerminalCompletion, Joined, Goto
<1>40. ASSUME NEW p \in Callers, ApiKill(p) PROVE TypeOK' /\ ResultKnown' BY <1>40 DEF ApiKill, CanCall, KillBegins, StartRemoval, AwaitTerminalCompletion, Joined, FailureAwaits, KillReturned, KillThrew, Goto
<1>41. ASSUME NEW p \in Callers, ApiKillImmediately(p) PROVE TypeOK' /\ ResultKnown' BY <1>41 DEF ApiKillImmediately, CanCall, KillBegins, StartRemoval, AwaitTerminalCompletion, Joined, FailureAwaits, KillReturned, KillThrew, Goto
<1>42. CASE UNCHANGED vars BY <1>42 DEF vars
<1> QED BY <1>1, <1>2, <1>3, <1>4, <1>5, <1>6, <1>7, <1>8, <1>9, <1>10, <1>11, <1>12, <1>13, <1>14, <1>15, <1>16, <1>17, <1>18, <1>19, <1>20, <1>21, <1>22, <1>23, <1>24, <1>25, <1>26, <1>27, <1>28, <1>29, <1>30, <1>31, <1>32, <1>33, <1>34, <1>35, <1>36, <1>37, <1>38, <1>39, <1>40, <1>41, <1>42 DEF Next, RunnerStep, ClosingStep, MainStep, ReadinessStep, SequenceStep, StopStep, KillStep, Environment

-----------------------------------------------------------------------------
(* What a step may do to the closing of the instance.                      *)

ClosingChange ==
    \/ /\ removal' = removal \/ StartRemoval \/ (removal = "pending" /\ removal' = "done")
       /\ UNCHANGED <<term, endEmitted>>
    \/ term = "none" /\ term' = "removing" /\ StartRemoval /\ UNCHANGED endEmitted
    \/ /\ removal = "pending" /\ removal' = "none" /\ UNCHANGED endEmitted
       /\ term' = IF term = "removing" THEN "none" ELSE term
    \/ /\ term = "removing" /\ removal = "done" /\ term' = "finalizing"
       /\ UNCHANGED <<removal, endEmitted>>
    \/ term = "finalizing" /\ term' = "done" /\ endEmitted' = TRUE /\ UNCHANGED removal

\* Beginning the terminal transition, or joining it, is a closing change
\* (transitionToTerminal).
LEMMA BeginTerminalCloses ==
    ASSUME NEW st, BeginTerminal(st), UNCHANGED endEmitted PROVE ClosingChange
BY DEF BeginTerminal, ClosingChange, StartRemoval

\* Every step of the controller changes its closing in one of the ways that
\* ClosingChange lists (transitionToTerminal, removeInstance, emitEnd).
LEMMA ClosingStepChange ==
    ASSUME [Next]_vars PROVE ClosingChange
<1> USE DEF fields, runs, handlers, procs, world
<1>1. CASE RemovalSucceeds BY <1>1 DEF RemovalSucceeds, ClosingChange
<1>2. CASE RemovalFails BY <1>2 DEF RemovalFails, ClosingChange
<1>3. CASE ExitObserved BY <1>3 DEF ExitObserved, ClosingChange
<1>4. CASE CleanedUp BY <1>4 DEF CleanedUp, ClosingChange
<1>5. CASE CleanupFails BY <1>5 DEF CleanupFails, ClosingChange
<1>6. CASE Terminated BY <1>6 DEF Terminated, ClosingChange
<1>7. CASE ExtensionElapses BY <1>7 DEF ExtensionElapses, ClosingChange
<1>8. CASE Ended BY <1>8 DEF Ended, ClosingChange
<1>9. CASE MainResumes BY <1>9, BeginTerminalCloses DEF MainResumes
<1>10. CASE StartCatches
    <2>1. CASE endEmitted BY <1>10, <2>1 DEF StartCatches, ClosingChange
    <2>2. CASE ~endEmitted BY <1>10, <2>2, BeginTerminalCloses DEF StartCatches
    <2> QED BY <2>1, <2>2
<1>11. CASE ReadinessTimesOut BY <1>11 DEF ReadinessTimesOut, FailReadiness, KillBegins, ClosingChange
<1>12. CASE ReadinessFailed BY <1>12 DEF ReadinessFailed, ClosingChange
<1>13. CASE SequenceStoppedExit BY <1>13 DEF SequenceStoppedExit, ClosingChange
<1>14. CASE SequenceStoppedResult BY <1>14, BeginTerminalCloses DEF SequenceStoppedResult
<1>15. CASE SequenceStoppedKill BY <1>15 DEF SequenceStoppedKill, ClosingChange
<1>16. CASE SequenceStoppedKilled BY <1>16, BeginTerminalCloses DEF SequenceStoppedKilled, ClosingChange
<1>17. CASE SequenceCompletedResult BY <1>17, BeginTerminalCloses DEF SequenceCompletedResult, ClosingChange
<1>18. CASE RunnerExits BY <1>18 DEF RunnerExits, ClosingChange
<1>19. CASE StorageSent BY <1>19 DEF StorageSent, ClosingChange
<1>20. CASE ConnectFails BY <1>20 DEF ConnectFails, ClosingChange
<1>21. CASE HandlePing BY <1>21 DEF HandlePing, ClosingChange
<1>22. CASE HandlePang BY <1>22 DEF HandlePang, ClosingChange
<1>23. CASE HandleReady BY <1>23 DEF HandleReady, ClosingChange
<1>24. CASE HandleErrored BY <1>24 DEF HandleErrored, FailReadiness, KillBegins, ClosingChange
<1>25. CASE HandleKeepAliveCommand BY <1>25 DEF HandleKeepAliveCommand, ClosingChange
<1>26. CASE HandleSequenceStopped BY <1>26 DEF HandleSequenceStopped, ClosingChange
<1>27. CASE HandleSequenceCompleted BY <1>27 DEF HandleSequenceCompleted, ClosingChange
<1>28. CASE WaitForReady BY <1>28 DEF WaitForReady, ClosingChange
<1>29. ASSUME NEW p \in Procs, StopAnswered(p) PROVE ClosingChange BY <1>29 DEF StopAnswered, ClosingChange
<1>30. ASSUME NEW p \in Procs, StopFails(p) PROVE ClosingChange BY <1>30 DEF StopFails, ClosingChange
<1>31. ASSUME NEW p \in Procs, StopDelayEnds(p) PROVE ClosingChange BY <1>31 DEF StopDelayEnds, KillBegins, ClosingChange
<1>32. ASSUME NEW p \in Procs, KillAnswered(p) PROVE ClosingChange BY <1>32 DEF KillAnswered, ClosingChange
<1>33. ASSUME NEW p \in Procs, KillControlFails(p) PROVE ClosingChange BY <1>33 DEF KillControlFails, ClosingChange
<1>34. ASSUME NEW p \in Procs, KillTimesOut(p) PROVE ClosingChange BY <1>34 DEF KillTimesOut, ClosingChange
<1>35. ASSUME NEW p \in Procs, KillRemoved(p) PROVE ClosingChange BY <1>35, BeginTerminalCloses DEF KillRemoved, ClosingChange
<1>36. ASSUME NEW p \in Procs, TerminalAwaited(p) PROVE ClosingChange BY <1>36 DEF TerminalAwaited, ClosingChange
<1>37. ASSUME NEW p \in Procs, WatcherFires(p) PROVE ClosingChange BY <1>37, BeginTerminalCloses DEF WatcherFires
<1>38. ASSUME NEW p \in Procs, KillSettles(p) PROVE ClosingChange BY <1>38, BeginTerminalCloses DEF KillSettles, ClosingChange
<1>39. ASSUME NEW p \in Callers, ApiStop(p) PROVE ClosingChange BY <1>39 DEF ApiStop, ClosingChange
<1>40. ASSUME NEW p \in Callers, ApiKill(p) PROVE ClosingChange BY <1>40 DEF ApiKill, KillBegins, ClosingChange
<1>41. ASSUME NEW p \in Callers, ApiKillImmediately(p) PROVE ClosingChange BY <1>41 DEF ApiKillImmediately, KillBegins, ClosingChange
<1>42. CASE UNCHANGED vars BY <1>42 DEF vars, ClosingChange
<1> QED BY <1>1, <1>2, <1>3, <1>4, <1>5, <1>6, <1>7, <1>8, <1>9, <1>10, <1>11, <1>12, <1>13, <1>14, <1>15, <1>16, <1>17, <1>18, <1>19, <1>20, <1>21, <1>22, <1>23, <1>24, <1>25, <1>26, <1>27, <1>28, <1>29, <1>30, <1>31, <1>32, <1>33, <1>34, <1>35, <1>36, <1>37, <1>38, <1>39, <1>40, <1>41, <1>42 DEF Next, RunnerStep, ClosingStep, MainStep, ReadinessStep, SequenceStep, StopStep, KillStep, Environment

-----------------------------------------------------------------------------
\* The inductive invariant of the closing.
Inv == TypeOK /\ ResultKnown /\ EndOwnsNoRunner

\* The inductive invariant holds of every behaviour of the controller: its closing
\* and its removal stay in step (transitionToTerminal).
LEMMA Invariance == Spec => []Inv
<1>1. Init => Inv
    <2> SUFFICES ASSUME Init PROVE Inv
        OBVIOUS
    <2>1. failures \in 0..MaxRemovalFailures BY FailuresAssumption DEF Init
    <2>2. exposed \in BOOLEAN /\ extended \in BOOLEAN /\ keepAlive \in BOOLEAN /\ endEmitted \in BOOLEAN
        BY DEF Init
    <2>3. TypeOK BY <2>1, <2>2 DEF Init, TypeOK, Labels, Statuses
    <2> QED BY <2>3 DEF Init, Inv, ResultKnown, EndOwnsNoRunner
<1>2. Inv /\ [Next]_vars => Inv'
    <2> SUFFICES ASSUME Inv, [Next]_vars PROVE Inv'
        OBVIOUS
    <2>1. TypeOK' /\ ResultKnown' BY TypeStep DEF Inv
    <2>2. ClosingChange BY ClosingStepChange
    <2>3. EndOwnsNoRunner'
        BY <2>2 DEF Inv, TypeOK, EndOwnsNoRunner, ClosingChange, StartRemoval
    <2> QED BY <2>1, <2>3 DEF Inv
<1> QED BY <1>1, <1>2, PTL DEF Spec

\* Every value the controller holds is one its code assigns, whatever the callers,
\* the runner's messages and exit, and the faults are.
THEOREM TypeCorrect == Spec => []TypeOK
BY Invariance, PTL DEF Inv

\* The "end" that takes an instance out of the store comes only after a removal
\* by the adapter that succeeded (transitionToTerminal, removeInstance).
THEOREM EndAfterRemoval == Spec => []EndOwnsNoRunner
BY Invariance, PTL DEF Inv

\* The controller closes its instance as InstanceOwnership promises: one
\* "terminated", then one "end", nothing before the runner was let go.
THEOREM Refinement == Spec => RefinesOwnership
<1> USE DEF Ownership!Init, Ownership!Next, Ownership!vars, Ownership!Begin, Ownership!GiveUp,
            Ownership!Release, Ownership!Announce, Ownership!End
<1>1. Init => Ownership!Init BY DEF Init
<1>2. Inv /\ [Next]_vars => [Ownership!Next]_(Ownership!vars)
    <2> SUFFICES ASSUME Inv, [Next]_vars PROVE [Ownership!Next]_(Ownership!vars)
        OBVIOUS
    <2>1. ClosingChange BY ClosingStepChange
    <2> QED BY <2>1 DEF Inv, TypeOK, EndOwnsNoRunner, ClosingChange, StartRemoval
<1> QED BY <1>1, <1>2, Invariance, PTL DEF Spec, RefinesOwnership, Ownership!Spec

-----------------------------------------------------------------------------
(* The lifetime extension and forced kills.                                *)

Forced(p) == op[p] \in {"killNow", "ready"}

\* Why no extension holds up a forced kill: the kill has set the delay to zero,
\* so finalize() does not start to wait either.
ForcedInv == (\E p \in Procs : Forced(p)) => ~extended /\ finalizing # "waiting"

\* What a step may do to the requests and to the extension.
ForcedChange ==
    \/ /\ UNCHANGED <<op, extended>>
       /\ finalizing' = finalizing \/ finalizing' = "over" \/ (extended /\ finalizing' = "waiting")
    \/ \E p \in Procs : op' = [op EXCEPT ![p] = "stop"] /\ UNCHANGED <<extended, finalizing>>
    \/ \E p \in Procs, o \in {"stop", "kill"} : KillBegins(p, o, FALSE)
    \/ \E p \in Procs, o \in {"killNow", "ready"} : KillBegins(p, o, TRUE)

\* Every step changes the requests and the lifetime extension in one of the ways
\* that ForcedChange lists (kill, finalize).
LEMMA ForcedStepChange ==
    ASSUME [Next]_vars PROVE ForcedChange
<1> USE DEF fields, runs, handlers, procs, world
<1>1. CASE RemovalSucceeds BY <1>1 DEF RemovalSucceeds, ForcedChange
<1>2. CASE RemovalFails BY <1>2 DEF RemovalFails, ForcedChange
<1>3. CASE ExitObserved BY <1>3 DEF ExitObserved, ForcedChange
<1>4. CASE CleanedUp BY <1>4 DEF CleanedUp, ForcedChange
<1>5. CASE CleanupFails BY <1>5 DEF CleanupFails, ForcedChange
<1>6. CASE Terminated BY <1>6 DEF Terminated, ForcedChange
<1>7. CASE ExtensionElapses BY <1>7 DEF ExtensionElapses, ForcedChange
<1>8. CASE Ended BY <1>8 DEF Ended, ForcedChange
<1>9. CASE MainResumes BY <1>9 DEF MainResumes, ForcedChange
<1>10. CASE StartCatches BY <1>10 DEF StartCatches, ForcedChange
<1>11. CASE ReadinessTimesOut BY <1>11 DEF ReadinessTimesOut, FailReadiness, Procs, ForcedChange
<1>12. CASE ReadinessFailed BY <1>12 DEF ReadinessFailed, ForcedChange
<1>13. CASE SequenceStoppedExit BY <1>13 DEF SequenceStoppedExit, ForcedChange
<1>14. CASE SequenceStoppedResult BY <1>14 DEF SequenceStoppedResult, ForcedChange
<1>15. CASE SequenceStoppedKill BY <1>15 DEF SequenceStoppedKill, ForcedChange
<1>16. CASE SequenceStoppedKilled BY <1>16 DEF SequenceStoppedKilled, ForcedChange
<1>17. CASE SequenceCompletedResult BY <1>17 DEF SequenceCompletedResult, ForcedChange
<1>18. CASE RunnerExits BY <1>18 DEF RunnerExits, ForcedChange
<1>19. CASE StorageSent BY <1>19 DEF StorageSent, ForcedChange
<1>20. CASE ConnectFails BY <1>20 DEF ConnectFails, ForcedChange
<1>21. CASE HandlePing BY <1>21 DEF HandlePing, ForcedChange
<1>22. CASE HandlePang BY <1>22 DEF HandlePang, ForcedChange
<1>23. CASE HandleReady BY <1>23 DEF HandleReady, ForcedChange
<1>24. CASE HandleErrored
    <2>1. CASE readiness = "errored" \/ endEmitted BY <1>24, <2>1 DEF HandleErrored, ForcedChange
    <2>2. CASE FailReadiness BY <2>2 DEF FailReadiness, ForcedChange, Procs
    <2> QED BY <1>24, <2>1, <2>2 DEF HandleErrored
<1>25. CASE HandleKeepAliveCommand BY <1>25 DEF HandleKeepAliveCommand, ForcedChange
<1>26. CASE HandleSequenceStopped BY <1>26 DEF HandleSequenceStopped, ForcedChange
<1>27. CASE HandleSequenceCompleted BY <1>27 DEF HandleSequenceCompleted, ForcedChange
<1>28. CASE WaitForReady BY <1>28 DEF WaitForReady, ForcedChange
<1>29. ASSUME NEW p \in Procs, StopAnswered(p) PROVE ForcedChange BY <1>29 DEF StopAnswered, ForcedChange
<1>30. ASSUME NEW p \in Procs, StopFails(p) PROVE ForcedChange BY <1>30 DEF StopFails, ForcedChange
<1>31. ASSUME NEW p \in Procs, StopDelayEnds(p) PROVE ForcedChange BY <1>31 DEF StopDelayEnds, ForcedChange
<1>32. ASSUME NEW p \in Procs, KillAnswered(p) PROVE ForcedChange BY <1>32 DEF KillAnswered, ForcedChange
<1>33. ASSUME NEW p \in Procs, KillControlFails(p) PROVE ForcedChange BY <1>33 DEF KillControlFails, ForcedChange
<1>34. ASSUME NEW p \in Procs, KillTimesOut(p) PROVE ForcedChange BY <1>34 DEF KillTimesOut, ForcedChange
<1>35. ASSUME NEW p \in Procs, KillRemoved(p) PROVE ForcedChange BY <1>35 DEF KillRemoved, ForcedChange
<1>36. ASSUME NEW p \in Procs, TerminalAwaited(p) PROVE ForcedChange BY <1>36 DEF TerminalAwaited, ForcedChange
<1>37. ASSUME NEW p \in Procs, WatcherFires(p) PROVE ForcedChange BY <1>37 DEF WatcherFires, ForcedChange
<1>38. ASSUME NEW p \in Procs, KillSettles(p) PROVE ForcedChange BY <1>38 DEF KillSettles, ForcedChange
<1>39. ASSUME NEW p \in Callers, ApiStop(p) PROVE ForcedChange BY <1>39 DEF ApiStop, Procs, ForcedChange
<1>40. ASSUME NEW p \in Callers, ApiKill(p) PROVE ForcedChange BY <1>40 DEF ApiKill, Procs, ForcedChange
<1>41. ASSUME NEW p \in Callers, ApiKillImmediately(p) PROVE ForcedChange BY <1>41 DEF ApiKillImmediately, Procs, ForcedChange
<1>42. CASE UNCHANGED vars BY <1>42 DEF vars, ForcedChange
<1> QED BY <1>1, <1>2, <1>3, <1>4, <1>5, <1>6, <1>7, <1>8, <1>9, <1>10, <1>11, <1>12, <1>13, <1>14, <1>15, <1>16, <1>17, <1>18, <1>19, <1>20, <1>21, <1>22, <1>23, <1>24, <1>25, <1>26, <1>27, <1>28, <1>29, <1>30, <1>31, <1>32, <1>33, <1>34, <1>35, <1>36, <1>37, <1>38, <1>39, <1>40, <1>41, <1>42 DEF Next, RunnerStep, ClosingStep, MainStep, ReadinessStep, SequenceStep, StopStep, KillStep, Environment

\* Neither a caller's immediate removal nor a failed readiness waits for the
\* lifetime extension (kill, finalize).
THEOREM NoExtensionForForced == Spec => []ForcedKillSkipsExtension
<1>1. Init => ForcedInv
    BY DEF Init, ForcedInv, Forced
<1>2. ASSUME TypeOK, ForcedInv, [Next]_vars PROVE ForcedInv'
    <2>1. ForcedChange BY <1>2, ForcedStepChange
    <2>2. CASE /\ UNCHANGED <<op, extended>>
               /\ \/ finalizing' = finalizing \/ finalizing' = "over"
                  \/ extended /\ finalizing' = "waiting"
        BY <1>2, <2>2 DEF ForcedInv, Forced
    <2>3. ASSUME NEW p \in Procs, op' = [op EXCEPT ![p] = "stop"], UNCHANGED <<extended, finalizing>>
          PROVE ForcedInv'
        BY <1>2, <2>3 DEF ForcedInv, Forced, TypeOK
    <2>4. ASSUME NEW p \in Procs, NEW o \in {"stop", "kill"}, KillBegins(p, o, FALSE)
          PROVE ForcedInv'
        <3>1. op' = [op EXCEPT ![p] = o] /\ UNCHANGED <<extended, finalizing>>
            BY <2>4 DEF KillBegins
        <3> QED BY <1>2, <3>1 DEF ForcedInv, Forced, TypeOK
    <2>5. ASSUME NEW p \in Procs, NEW o \in {"killNow", "ready"}, KillBegins(p, o, TRUE)
          PROVE ForcedInv'
        <3>1. ~extended' /\ finalizing' # "waiting"
            BY <2>5 DEF KillBegins
        <3> QED BY <3>1 DEF ForcedInv
    <2> QED BY <2>1, <2>2, <2>3, <2>4, <2>5 DEF ForcedChange
<1>3. ForcedInv => ForcedKillSkipsExtension
    BY DEF ForcedInv, Forced, ForcedKillSkipsExtension
<1> QED BY <1>1, <1>2, <1>3, TypeCorrect, PTL DEF Spec

-----------------------------------------------------------------------------
(* Readiness, and what is sent to the runner.                              *)

\* The steps that end, or go on with, a call or the wait for readiness.
CallStep ==
    \/ RemovalFails \/ ReadinessTimesOut \/ ReadinessFailed
    \/ HandleReady \/ HandleErrored \/ WaitForReady
    \/ \E p \in Procs : StopStep(p) \/ KillStep(p)
    \/ \E p \in Callers : ApiStop(p) \/ ApiKill(p) \/ ApiKillImmediately(p)

\* Every other step, a detached continuation too, leaves the calls and the
\* readiness of the instance alone.
LEMMA OtherSteps ==
    ASSUME [Next]_vars, ~CallStep
    PROVE  UNCHANGED <<op, pc, readiness, exposed, readyWait>>
<1> USE Zenon DEF fields, runs, handlers, procs, world
<1>1. RemovalSucceeds \/ ClosingStep => UNCHANGED <<op, pc, readiness, exposed, readyWait>>
    BY DEF RemovalSucceeds, ClosingStep, Terminated, ExtensionElapses, Ended
<1>2. RunnerStep \/ MainStep => UNCHANGED <<op, pc, readiness, exposed, readyWait>>
    BY DEF RunnerStep, ExitObserved, CleanedUp, CleanupFails, MainStep, MainResumes, StartCatches
<1>3. SequenceStep \/ SequenceStoppedKill => UNCHANGED <<op, pc, readiness, exposed, readyWait>>
    BY DEF SequenceStep, SequenceStoppedExit, SequenceStoppedResult, SequenceStoppedKill,
           SequenceStoppedKilled, SequenceCompletedResult
<1>4. ASSUME NEW p \in Procs, WatcherFires(p) \/ KillSettles(p)
      PROVE  UNCHANGED <<op, pc, readiness, exposed, readyWait>>
    BY <1>4 DEF WatcherFires, KillSettles
<1>5. Environment => UNCHANGED <<op, pc, readiness, exposed, readyWait>>
    BY DEF Environment, CallStep, RunnerExits, StorageSent, ConnectFails, HandlePing, HandlePang,
           HandleKeepAliveCommand, HandleSequenceStopped, HandleSequenceCompleted
<1>6. UNCHANGED vars => UNCHANGED <<op, pc, readiness, exposed, readyWait>>
    BY DEF vars
<1> QED
    BY <1>1, <1>2, <1>3, <1>4, <1>5, <1>6 DEF Next, CallStep, ReadinessStep

\* A request other than a failed readiness.
Requests(p) == \E o \in {"stop", "kill", "killNow"} : op' = [op EXCEPT ![p] = o]

\* What a step may do to the readiness, to the route and to the wait for both.
ReadinessChange ==
    \/ /\ UNCHANGED <<readiness, exposed, readyWait>>
       /\ op' = op \/ \E p \in Procs : Requests(p)
    \/ /\ readiness # "errored" /\ readiness' = "ready"
       /\ readyWait' # "waiting" /\ UNCHANGED op
    \/ /\ readiness' = "errored" /\ ~exposed' /\ readyWait' # "waiting"
       /\ readyWait = "waiting" \/ "errored" \in got' \ got
    \/ /\ UNCHANGED <<op, readiness, exposed>>
       /\ readyWait' = "waiting" => readiness = "pending"

\* Every step changes readiness in one of the ways that ReadinessChange lists
\* (handleReadinessMessage, waitForReady, failReadiness).
LEMMA ReadinessStepChange == ASSUME [Next]_vars PROVE ReadinessChange
<1> USE DEF fields, runs, handlers, procs, world
<1>1. CASE ~CallStep
    BY <1>1, OtherSteps, Zenon DEF ReadinessChange
<1>2. CASE RemovalFails
    BY <1>2, Zenon DEF RemovalFails, ReadinessChange
<1>3. CASE ReadinessTimesOut
    BY <1>3 DEF ReadinessTimesOut, FailReadiness, ReadinessChange
<1>4. CASE ReadinessFailed
    BY <1>4 DEF ReadinessFailed, ReadinessChange
<1>5. CASE HandleReady
    BY <1>5 DEF HandleReady, ReadinessChange
<1>6. CASE HandleErrored
    <2>1. "errored" \in got' \ got
        BY <1>6 DEF HandleErrored, Receive
    <2> QED
        BY <1>6, <2>1 DEF HandleErrored, FailReadiness, ReadinessChange
<1>7. CASE WaitForReady
    BY <1>7 DEF WaitForReady, ReadinessChange
<1>8. ASSUME NEW p \in Procs, StopStep(p) PROVE ReadinessChange
    <2>1. CASE StopAnswered(p) \/ StopFails(p)
        BY <2>1, Zenon DEF StopAnswered, StopFails, ReadinessChange
    <2>2. CASE StopDelayEnds(p)
        BY <2>2 DEF StopDelayEnds, KillBegins, Requests, ReadinessChange
    <2> QED
        BY <1>8, <2>1, <2>2 DEF StopStep
<1>9. ASSUME NEW p \in Procs, KillStep(p) PROVE ReadinessChange
    BY <1>9, Zenon DEF KillStep, KillAnswered, KillControlFails, KillTimesOut, KillRemoved,
                       TerminalAwaited, ReadinessChange
<1>10. ASSUME NEW p \in Callers, ApiStop(p) \/ ApiKill(p) \/ ApiKillImmediately(p)
       PROVE  ReadinessChange
    <2>1. UNCHANGED <<readiness, exposed, readyWait>> /\ p \in Procs
        BY <1>10, Zenon DEF ApiStop, ApiKill, ApiKillImmediately, Procs
    <2>2. Requests(p)
        BY <1>10 DEF ApiStop, ApiKill, ApiKillImmediately, KillBegins, Requests
    <2> QED
        BY <2>1, <2>2 DEF ReadinessChange
<1> QED
    BY <1>1, <1>2, <1>3, <1>4, <1>5, <1>6, <1>7, <1>8, <1>9, <1>10, Zenon DEF CallStep

\* An instance whose readiness failed stays errored, so that a late READY cannot
\* expose it; and nobody waits for the readiness of one that is ready.
ReadinessInv ==
    /\ op[Readiness] = "ready" => readiness = "errored" /\ ~exposed
    /\ readyWait = "waiting" => readiness = "pending"

LEMMA ReadinessInvariance == Spec => []ReadinessInv
<1>1. Init => ReadinessInv
    BY DEF Init, ReadinessInv, Procs
<1>2. ASSUME TypeOK, ReadinessInv, [Next]_vars PROVE ReadinessInv'
    <2>1. ReadinessChange
        BY <1>2, ReadinessStepChange
    <2>2. ASSUME NEW p \in Procs, Requests(p) PROVE op'[Readiness] = "ready" => op[Readiness] = "ready"
        BY <1>2, <2>2 DEF Requests, TypeOK
    <2> QED
        BY <1>2, <2>1, <2>2 DEF ReadinessInv, ReadinessChange
<1> QED
    BY <1>1, <1>2, TypeCorrect, PTL DEF Spec

\* However late READY comes, and whoever else kills the instance, one whose
\* readiness failed has no RPC route (handleReadinessMessage, failReadiness).
THEOREM NoRouteAfterFailure == Spec => []FailedReadinessOwnsNoRoute
<1>1. ReadinessInv => FailedReadinessOwnsNoRoute
    BY DEF ReadinessInv, FailedReadinessOwnsNoRoute
<1> QED
    BY <1>1, ReadinessInvariance, PTL

\* A ready instance is failed only by a rejection of its runner: the deadline was
\* cleared when it became ready (waitForReady, handleReadinessMessage).
THEOREM ReadinessKept == Spec => ReadyLostOnlyToRunner
<1>1. ASSUME ReadinessInv, [Next]_vars
      PROVE  readiness = "ready" /\ readiness' # "ready" => "errored" \in got' \ got
    <2>1. ReadinessChange
        BY <1>1, ReadinessStepChange
    <2> QED
        BY <1>1, <2>1 DEF ReadinessInv, ReadinessChange
<1> QED
    BY <1>1, ReadinessInvariance, PTL DEF Spec, ReadyLostOnlyToRunner

-----------------------------------------------------------------------------
\* The labels at which a STOP or a KILL is on its way to the runner.
Sending == {"stopSend", "killSend"}

\* Where a call goes on after it waited, it does not send anything.
LEMMA NoSendAfterWait ==
    ASSUME NEW o PROVE {KillReturned(o), KillThrew(o), FailureAwaits} \cap Sending = {}
BY DEF KillReturned, KillThrew, FailureAwaits, Sending

\* kill() moves only the process that runs it (kill).
LEMMA KillMovesItself ==
    ASSUME pc \in [Procs -> Labels], NEW q \in Procs, NEW p, p # q,
           NEW o, NEW b, KillBegins(p, o, b)
    PROVE  pc'[q] = pc[q]
BY DEF KillBegins, Goto

\* Once the instance ended, no caller sends its runner STOP or KILL: calls find no
\* route, and those that wait look at the end before they go on (stop, kill).
THEOREM EndedIsLeftAlone == Spec => NoControlAfterEnd
<1>1. ASSUME TypeOK, endEmitted, [Next]_vars, NEW q \in Callers PROVE ~ControlSent(q)
    <2> USE DEF Goto
    <2>0. q \in Procs /\ q # Readiness /\ pc \in [Procs -> Labels]
        BY <1>1, ReadinessAssumption, Zenon DEF Procs, TypeOK
    <2>1. CASE pc'[q] = pc[q]
        BY <2>1 DEF ControlSent
    <2>2. CASE pc'[q] \notin Sending
        BY <2>2 DEF ControlSent, Sending
    <2>3. CASE ~CallStep
        BY <1>1, <2>1, <2>3, OtherSteps, Zenon
    <2>4. CASE RemovalFails
        <3>1. pc'[q] = AfterFailedRemoval(q)
            BY <2>0, <2>4 DEF RemovalFails
        <3> QED
            BY <2>1, <2>2, <3>1 DEF AfterFailedRemoval, AfterTerminal, Sending
    <2>5. CASE ReadinessTimesOut \/ HandleErrored
        <3>1. KillBegins(Readiness, "ready", TRUE) \/ pc' = pc
            BY <2>5, Zenon DEF ReadinessTimesOut, HandleErrored, FailReadiness, procs
        <3>2. pc'[q] = pc[q]
            BY <2>0, <3>1, KillMovesItself
        <3> QED
            BY <2>1, <3>2
    <2>6. CASE ReadinessFailed
        BY <2>0, <2>1, <2>6 DEF ReadinessFailed
    <2>7. CASE HandleReady \/ WaitForReady
        BY <2>1, <2>7, Zenon DEF HandleReady, WaitForReady, procs
    <2>8. ASSUME NEW p \in Procs, StopStep(p) PROVE ~ControlSent(q)
        <3>1. pc' = pc \/ \E l \in Labels \ Sending : pc' = [pc EXCEPT ![p] = l]
            BY <1>1, <2>8 DEF StopStep, StopAnswered, StopFails, StopDelayEnds, Labels, Sending
        <3> QED
            BY <2>0, <2>1, <2>2, <3>1
    <2>9. ASSUME NEW p \in Procs, KillStep(p) PROVE ~ControlSent(q)
        <3>1. \E l : l \notin Sending /\ pc' = [pc EXCEPT ![p] = l]
            <4>1. CASE KillAnswered(p)
                BY <4>1, NoSendAfterWait DEF KillAnswered
            <4>2. CASE KillControlFails(p)
                BY <4>2, NoSendAfterWait DEF KillControlFails, Sending
            <4>3. CASE KillTimesOut(p)
                BY <4>3, NoSendAfterWait DEF KillTimesOut, Sending
            <4>4. CASE KillRemoved(p)
                BY <4>4, NoSendAfterWait DEF KillRemoved, Sending
            <4>5. CASE TerminalAwaited(p)
                BY <4>5 DEF TerminalAwaited, AfterTerminal, Sending
            <4> QED
                BY <2>9, <4>1, <4>2, <4>3, <4>4, <4>5, Zenon DEF KillStep
        <3> QED
            BY <2>0, <2>1, <2>2, <3>1
    <2>10. ASSUME NEW p \in Callers, ApiStop(p) \/ ApiKill(p) \/ ApiKillImmediately(p)
           PROVE  ~ControlSent(q)
        BY <1>1, <2>10, Zenon DEF ApiStop, ApiKill, ApiKillImmediately, CanCall
    <2> QED
        BY <2>3, <2>4, <2>5, <2>6, <2>7, <2>8, <2>9, <2>10, Zenon DEF CallStep
<1>2. ASSUME TypeOK, [Next]_vars PROVE endEmitted => \A p \in Callers : ~ControlSent(p)
    BY <1>1, <1>2, Zenon
<1> QED
    BY <1>2, TypeCorrect, PTL DEF Spec, NoControlAfterEnd

=============================================================================
