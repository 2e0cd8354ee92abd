---------------------------- MODULE ControlPlane ----------------------------
(***************************************************************************)
(* The control plane between one hub and its manager: the hub's            *)
(* CPMConnector (host/src/lib/cpm-connector.ts), which registers with      *)
(* POST /sth and retries for ever, and the manager's registrations         *)
(* (manager/src/lib/manager.ts, sth-controller.ts), each of which replaces *)
(* the hub's controller and opens POST /platform back to the hub, the one  *)
(* stream on which both then talk.                                         *)
(*                                                                         *)
(* Registration r is one POST /sth, and r also names the controller and    *)
(* the /platform stream it makes.  A step is what either program runs      *)
(* between two awaits.                                                     *)
(***************************************************************************)
EXTENDS Naturals, FiniteSets

CONSTANTS
    MaxRegistrations,   \* bound: registrations posted by the hub
    MaxFaults,          \* bound: faults
    Faults              \* which faults: see Fault below

ASSUME BoundsAssumption ==
    /\ MaxRegistrations \in Nat \ {0} /\ MaxFaults \in Nat
    /\ Faults \subseteq {"connect", "guest", "init", "restart", "cut"}

Registrations == 1..MaxRegistrations

VARIABLES
    \* --- the hub
    connected,     \* what the hub reports, setConnected()
    abandoned,     \* isAbandoned
    link,          \* the stream behind communicationStream, or 0
    generation,    \* the stream accepted last, communicationGeneration
    attempt,       \* connectionAttempt: none, connecting, posting
    posted,        \* how many registrations the hub has posted
    valid,         \* no close since the attempt read registrationAttemptGeneration
    loop,          \* reconnectPromise: none, backoff, attempt
    \* --- between them
    route,         \* the manager has a route to the hub's guest
    removed,       \* a "removed" route event not yet handled
    stream,        \* of a /platform request: none, sent, refused, failed, open,
                   \*   broken (the hub is not yet told), closed
    answer,        \* to the POST in flight: none, ok, error
    \* --- the manager
    step,          \* of a registration: none, route, init, update, done, failed
    previous,      \* previousSth, the controller it replaces, or 0
    snapshot,      \* captureHubSnapshot(): the register's content then
    store,         \* the controller the connection store has for the hub, or 0
    disposed,      \* controllers that were disposed
    inventory,     \* the controller whose inventory the register has, or 0
    told,          \* controllers that got the hub's inventory
    faults,        \* faults so far
    cut            \* a POST was lost while the manager went on with it

hubVars == <<connected, abandoned, link, generation, attempt, posted, valid, loop>>
wireVars == <<route, removed, stream, answer>>
managerVars == <<step, previous, snapshot, store, disposed, inventory, told>>
vars == <<hubVars, wireVars, managerVars, faults, cut>>

TypeOK ==
    /\ connected \in BOOLEAN /\ abandoned \in BOOLEAN /\ valid \in BOOLEAN
    /\ route \in BOOLEAN /\ removed \in BOOLEAN /\ cut \in BOOLEAN
    /\ link \in 0..MaxRegistrations /\ generation \in 0..MaxRegistrations
    /\ posted \in 0..MaxRegistrations
    /\ attempt \in {"none", "connecting", "posting"}
    /\ loop \in {"none", "backoff", "attempt"}
    /\ stream \in [Registrations -> {"none", "sent", "refused", "failed",
                               "open", "broken", "closed"}]
    /\ answer \in {"none", "ok", "error"}
    /\ step \in [Registrations -> {"none", "route", "init", "update", "done", "failed"}]
    /\ previous \in [Registrations -> 0..MaxRegistrations]
    /\ snapshot \in [Registrations -> 0..MaxRegistrations]
    /\ store \in 0..MaxRegistrations /\ inventory \in 0..MaxRegistrations
    /\ disposed \subseteq Registrations /\ told \subseteq Registrations
    /\ faults \in 0..MaxFaults

Init ==
    /\ connected = FALSE /\ abandoned = FALSE /\ link = 0 /\ generation = 0
    /\ attempt = "connecting" /\ posted = 0 /\ valid = FALSE /\ loop = "none"
    /\ route = FALSE /\ removed = FALSE /\ answer = "none"
    /\ stream = [r \in Registrations |-> "none"]
    /\ step = [r \in Registrations |-> "none"]
    /\ previous = [r \in Registrations |-> 0]
    /\ snapshot = [r \in Registrations |-> 0]
    /\ store = 0 /\ disposed = {} /\ inventory = 0 /\ told = {}
    /\ faults = 0 /\ cut = FALSE

-----------------------------------------------------------------------------
(* The hub. *)

\* connectOnce(): broker and guest are connected, and the registration is posted.
\* A guest that connects anew has closed the streams of its old connection.
AttemptConnects ==
    /\ attempt = "connecting" /\ ~abandoned /\ posted < MaxRegistrations
    /\ route \/ \A r \in Registrations : stream[r] # "broken"
    /\ attempt' = "posting" /\ posted' = posted + 1 /\ valid' = TRUE
    /\ route' = TRUE /\ answer' = "none"
    /\ step' = [step EXCEPT ![posted'] = "route"]
    /\ UNCHANGED <<connected, abandoned, link, generation, loop, removed, stream,
                   previous, snapshot, store, disposed, inventory, told, faults, cut>>

\* It returns at once when the connector was abandoned meanwhile.
AttemptAbandoned ==
    /\ attempt = "connecting" /\ abandoned
    /\ attempt' = "none" /\ loop' = "none"
    /\ UNCHANGED <<connected, abandoned, link, generation, posted, valid,
                   wireVars, managerVars, faults, cut>>

\* Mutant: connectOnce() reports a connection although the stream closed meanwhile.
AttemptAnsweredStale ==
    /\ attempt = "posting" /\ answer # "none" /\ ~abandoned
    /\ attempt' = "none" /\ answer' = "none"
    /\ connected' = (answer = "ok")
    /\ loop' = IF answer = "ok" THEN "none" ELSE "backoff"
    /\ UNCHANGED <<abandoned, link, generation, posted, valid, route, removed, stream,
                   managerVars, faults, cut>>

\* Mutant: connectOnce() does not look at isAbandoned after the registration.
AttemptAnsweredAbandoned ==
    /\ attempt = "posting" /\ answer # "none"
    /\ attempt' = "none" /\ answer' = "none"
    /\ connected' = (answer = "ok" /\ valid)
    /\ loop' = IF answer = "ok" /\ valid THEN "none" ELSE "backoff"
    /\ UNCHANGED <<abandoned, link, generation, posted, valid, route, removed, stream,
                   managerVars, faults, cut>>

\* An attempt that throws goes back to the retry loop; connect() starts the loop
\* when its own attempt did not connect the hub.
AttemptAnswered ==
    /\ attempt = "posting" /\ answer # "none"
    /\ attempt' = "none" /\ answer' = "none"
    /\ \/ /\ answer = "ok" /\ valid /\ ~abandoned
          /\ connected' = TRUE /\ loop' = "none"
       \/ /\ abandoned
          /\ loop' = "none" /\ UNCHANGED connected
       \/ /\ answer = "error" \/ ~valid
          /\ ~abandoned
          /\ loop' = "backoff" /\ UNCHANGED connected
    /\ UNCHANGED <<abandoned, link, generation, posted, valid, route, removed, stream,
                   managerVars, faults, cut>>

\* reconnect(): the delay of the single retry loop is over.  An attempt that is
\* still in flight is shared.
BackoffEnds ==
    /\ loop = "backoff"
    /\ IF abandoned
       THEN loop' = "none" /\ UNCHANGED attempt
       ELSE /\ loop' = "attempt"
            /\ attempt' = IF attempt = "none" THEN "connecting" ELSE attempt
    /\ UNCHANGED <<connected, abandoned, link, generation, posted, valid,
                   wireVars, managerVars, faults, cut>>

\* handleCommunicationRequest(): one stream at a time.  A conflict is returned by
\* the handler, but the duplex route ignores what its handler returns: the
\* manager gets no response.
PlatformRequested(r) ==
    /\ stream[r] = "sent"
    /\ IF link # 0
       THEN stream' = [stream EXCEPT ![r] = "refused"] /\ UNCHANGED <<link, generation>>
       ELSE /\ stream' = [stream EXCEPT ![r] = "open"]
            /\ link' = r /\ generation' = r
    /\ UNCHANGED <<connected, abandoned, attempt, posted, valid, loop, route, removed,
                   answer, managerVars, faults, cut>>

\* handleConnectionClose() for the end, close or error of a stream: it counts only
\* for the stream accepted last.
StreamCloses(r) ==
    /\ stream[r] = "broken"
    /\ stream' = [stream EXCEPT ![r] = "closed"]
    /\ IF generation # r
       THEN UNCHANGED <<connected, link, valid, loop>>
       ELSE /\ valid' = FALSE /\ link' = 0 /\ connected' = FALSE
            /\ loop' = IF loop = "none" /\ ~abandoned THEN "backoff" ELSE loop
    /\ UNCHANGED <<abandoned, generation, attempt, posted, route, removed, answer,
                   managerVars, faults, cut>>

\* The manager's KEY_REVOKED, LIMIT_EXCEEDED or ID_DROP.
DropReceived ==
    /\ link # 0 /\ stream[link] = "open" /\ ~abandoned
    /\ abandoned' = TRUE
    /\ UNCHANGED <<connected, link, generation, attempt, posted, valid, loop,
                   wireVars, managerVars, faults, cut>>

\* disconnect(), when the hub stops: stream, guest and broker are closed, and a
\* POST in flight fails.
Disconnect ==
    /\ ~abandoned
    /\ abandoned' = TRUE /\ connected' = FALSE /\ link' = 0
    /\ route' = FALSE /\ removed' = (removed \/ route)
    /\ stream' = [r \in Registrations |->
                    IF stream[r] \in {"open", "broken"} THEN "closed"
                    ELSE IF stream[r] \in {"sent", "refused"} THEN "failed" ELSE stream[r]]
    /\ answer' = IF attempt = "posting" THEN "error" ELSE answer
    /\ UNCHANGED <<generation, attempt, posted, valid, loop, managerVars, faults, cut>>

-----------------------------------------------------------------------------
(* The manager. *)

\* What the loss of the connection under these streams leaves of them.
Broken(rs) == [r \in Registrations |->
                 IF r \in rs /\ stream[r] = "open" THEN "broken"
                 ELSE IF r \in rs /\ stream[r] \in {"sent", "refused"} THEN "failed"
                 ELSE stream[r]]

Answer(r, a) == answer' = IF attempt = "posting" /\ posted = r /\ answer = "none"
                          THEN a ELSE answer

\* handleSthRegistration() once waitForRoute() let it go on: the new controller
\* takes the place of the previous one, whose inventory is put aside, and asks the
\* hub for a stream.
RouteReady(r) ==
    /\ step[r] = "route" /\ route
    /\ step' = [step EXCEPT ![r] = "init"]
    /\ previous' = [previous EXCEPT ![r] = store]
    /\ snapshot' = [snapshot EXCEPT ![r] = inventory]
    /\ store' = r /\ inventory' = 0
    /\ stream' = [stream EXCEPT ![r] = "sent"]
    /\ UNCHANGED <<hubVars, route, removed, answer, disposed, told, faults, cut>>

RouteTimesOut(r) ==
    /\ step[r] = "route" /\ ~route
    /\ step' = [step EXCEPT ![r] = "failed"]
    /\ Answer(r, "error")
    /\ UNCHANGED <<hubVars, route, removed, stream, previous, snapshot, store, disposed,
                   inventory, told, faults, cut>>

\* The controller has its streams: the previous one is disposed, and its
\* stream destroyed, if it has one by now.
InitSucceeds(r) ==
    /\ step[r] = "init" /\ stream[r] \in {"open", "broken", "closed"}
    /\ step' = [step EXCEPT ![r] = "update"]
    /\ disposed' = disposed \cup ({previous[r]} \ {0})
    /\ stream' = Broken({p \in Registrations :
                          p = previous[r] /\ step[p] \in {"update", "done"}})
    /\ UNCHANGED <<hubVars, route, removed, answer, previous, snapshot, store, inventory,
                   told, faults, cut>>

\* Mutant: a rollback leaves the failed controller in the store.
RollbackKeepsFailed(r) ==
    /\ step' = [step EXCEPT ![r] = "failed"]
    /\ disposed' = disposed \cup {r}
    /\ inventory' = IF previous[r] = 0 THEN 0 ELSE snapshot[r]
    /\ Answer(r, "error")
    /\ UNCHANGED store

\* rollbackFailedSthRegistration(): by the id of the hub, whoever is in the store.
Rollback(r) ==
    /\ step' = [step EXCEPT ![r] = "failed"]
    /\ disposed' = disposed \cup {r}
    /\ store' = previous[r]
    /\ inventory' = IF previous[r] = 0 THEN 0 ELSE snapshot[r]
    /\ Answer(r, "error")

\* The /platform request fails, also when only its response was lost.
InitFails(r) ==
    /\ step[r] = "init" /\ stream[r] \in {"failed", "broken", "closed"}
    /\ Rollback(r)
    /\ UNCHANGED <<hubVars, route, removed, stream, previous, snapshot, told, faults, cut>>

\* The audit streams are updated, and the hub gets its answer.
Registered(r) ==
    /\ step[r] = "update"
    /\ step' = [step EXCEPT ![r] = "done"]
    /\ Answer(r, "ok")
    /\ UNCHANGED <<hubVars, route, removed, stream, previous, snapshot, store, disposed,
                   inventory, told, faults, cut>>

\* The hub's sequences and instances, sent once per stream, reach the register
\* through the controller that reads the stream.
InventoryArrives(r) ==
    /\ stream[r] = "open" /\ step[r] \in {"update", "done"} /\ r \notin told
    /\ inventory' = r /\ told' = told \cup {r}
    /\ UNCHANGED <<hubVars, wireVars, step, previous, snapshot, store, disposed, faults, cut>>

\* Mutant: a late "removed" event cleans up after a hub that is back.
RouteRemovedAlways ==
    /\ removed /\ removed' = FALSE /\ inventory' = 0
    /\ UNCHANGED <<hubVars, route, stream, answer, step, previous, snapshot, store,
                   disposed, told, faults, cut>>

\* A "removed" event cleans up after the hub, unless its route is back.
RouteRemoved ==
    /\ removed /\ removed' = FALSE
    /\ inventory' = IF ~route /\ store # 0 THEN 0 ELSE inventory
    /\ UNCHANGED <<hubVars, route, stream, answer, step, previous, snapshot, store,
                   disposed, told, faults, cut>>

-----------------------------------------------------------------------------
(* Faults. *)

Fault(f) == f \in Faults /\ faults < MaxFaults /\ faults' = faults + 1

\* connectOnce() rejects before the registration is posted, since the broker or the
\* guest cannot connect.
AttemptFails ==
    /\ Fault("connect") /\ attempt = "connecting"
    /\ attempt' = "none" /\ loop' = IF abandoned THEN "none" ELSE "backoff"
    /\ UNCHANGED <<connected, abandoned, link, generation, posted, valid,
                   wireVars, managerVars, cut>>

\* The hub's guest loses its connection, and with it route and streams.
GuestLost ==
    /\ Fault("guest") /\ route
    /\ route' = FALSE /\ removed' = TRUE
    /\ stream' = Broken(Registrations)
    /\ UNCHANGED <<hubVars, answer, managerVars, cut>>

\* A /platform request is not answered in time, for want of a lease.
LeaseTimesOut(r) ==
    /\ Fault("init") /\ step[r] = "init" /\ stream[r] = "sent"
    /\ stream' = [stream EXCEPT ![r] = "failed"]
    /\ Rollback(r)
    /\ UNCHANGED <<hubVars, route, removed, previous, snapshot, told, cut>>

\* The manager restarts, and forgets everything.
ManagerRestarts ==
    /\ Fault("restart")
    /\ route' = FALSE /\ removed' = FALSE
    /\ stream' = Broken(Registrations)
    /\ answer' = IF attempt = "posting" THEN "error" ELSE answer
    /\ step' = [r \in Registrations |-> IF step[r] = "none" THEN "none" ELSE "failed"]
    /\ store' = 0 /\ inventory' = 0 /\ disposed' = {r \in Registrations : step[r] # "none"}
    /\ UNCHANGED <<hubVars, previous, snapshot, told, cut>>

\* The hub's POST is lost with the connection of its broker, or with the process
\* that sent it; the manager goes on with the registration.
PostLost ==
    /\ Fault("cut") /\ attempt = "posting" /\ answer = "none"
    /\ answer' = "error" /\ cut' = TRUE
    /\ UNCHANGED <<hubVars, route, removed, stream, managerVars>>

Hub ==
    \/ AttemptConnects \/ AttemptAbandoned \/ AttemptAnswered \/ BackoffEnds
    \/ \E r \in Registrations : PlatformRequested(r) \/ StreamCloses(r)

Manager ==
    \/ RouteRemoved
    \/ \E r \in Registrations :
         \/ RouteReady(r) \/ RouteTimesOut(r) \/ InitSucceeds(r) \/ InitFails(r)
         \/ Registered(r) \/ InventoryArrives(r)

Next ==
    \/ Hub \/ Manager \/ DropReceived \/ Disconnect
    \/ AttemptFails \/ GuestLost \/ ManagerRestarts \/ PostLost
    \/ \E r \in Registrations : LeaseTimesOut(r)

Spec == Init /\ [][Next]_vars

\* Each await of both programs is eventually over.
FairSpec ==
    /\ Spec
    /\ WF_vars(AttemptConnects) /\ WF_vars(AttemptAbandoned)
    /\ WF_vars(AttemptAnswered) /\ WF_vars(BackoffEnds) /\ WF_vars(RouteRemoved)
    /\ \A r \in Registrations :
         /\ WF_vars(PlatformRequested(r)) /\ WF_vars(StreamCloses(r))
         /\ WF_vars(RouteReady(r)) /\ WF_vars(RouteTimesOut(r))
         /\ WF_vars(InitSucceeds(r)) /\ WF_vars(InitFails(r))
         /\ WF_vars(Registered(r)) /\ WF_vars(InventoryArrives(r))

-----------------------------------------------------------------------------
(* Properties. *)

\* The hub reports a connection only while it has a communication stream, also
\* when streams close while a registration is in flight (connectOnce,
\* handleConnectionClose).
ConnectedHasStream == connected => link # 0

\* Once abandoned, the hub never becomes connected again, whatever was in flight.
AbandonedStaysDown == [][abandoned /\ ~connected => ~connected']_vars

Registering == \E r \in Registrations : step[r] \in {"route", "init", "update"}

\* Between registrations one controller is in charge: it is in the store and
\* alive, it reads the stream of the connected hub, the register holds nothing but
\* its inventory, and every other controller is disposed (handleSthRegistration,
\* rollbackFailedSthRegistration).  A lost POST makes registrations overlap.
OneController ==
    ~Registering /\ ~cut =>
        /\ connected /\ stream[link] = "open" => store = link
        /\ inventory \in {0, store}
        /\ \A r \in Registrations : stream[r] # "none" => (r \in disposed) = (r # store)

\* The hub and the manager end up on one stream, with one controller and its
\* inventory, after any of the other faults.
Together == connected /\ stream[link] = "open" /\ store = link /\ inventory = link
EndsTogether == <>[](abandoned \/ cut \/ Together)

\* Stated of the code, and violated.
\* The hub connects again and again until it is abandoned (reconnect).
KeepsRetrying == []<>(connected \/ abandoned)
=============================================================================
