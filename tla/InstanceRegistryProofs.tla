----------------------- MODULE InstanceRegistryProofs -----------------------
(***************************************************************************)
(* Proofs about InstanceRegistry: its fields keep their types, nameMap and *)
(* nameReverse are inverse to each other, only the owner of an id leaves   *)
(* the store, a required entry is launched at most restartLimit + 1 times, *)
(* and an instance alone under its id keeps its name while it lives, for   *)
(* any starts, names, entries and faults; and no required entry is         *)
(* forgotten, where only the host starts instances and no message is       *)
(* handled after its instance terminated.                                  *)
(***************************************************************************)
EXTENDS InstanceRegistry, TLAPS

NameMaps == [map : [Names -> Ids \cup {None}], reverse : [Ids -> Names \cup {None}]]
Inverse(ns) == \A n \in Names, i \in Ids : ns.map[n] = i <=> ns.reverse[i] = n

-----------------------------------------------------------------------------
(* What the store does to names.                                           *)

\* clearNameForInstance() keeps the maps inverse, and leaves the id no name.
LEMMA ClearNameKeeps ==
    ASSUME NEW ns \in NameMaps, Inverse(ns), NEW i \in Ids
    PROVE  /\ ClearName(ns, i) \in NameMaps /\ Inverse(ClearName(ns, i))
           /\ ClearName(ns, i).reverse[i] = None
           /\ \A n \in Names : ns.map[n] \in {None, i} => ClearName(ns, i).map[n] = None
BY NoneAssumption DEF ClearName, NameMaps, Inverse

\* unregisterName() keeps the maps inverse.
LEMMA UnregisterNameKeeps ==
    ASSUME NEW ns \in NameMaps, Inverse(ns), NEW i \in Ids, NEW n \in Names \cup {None}
    PROVE  UnregisterName(ns, n, i) \in NameMaps /\ Inverse(UnregisterName(ns, n, i))
BY NoneAssumption DEF UnregisterName, NameMaps, Inverse

\* reserveName() keeps the maps inverse: it clears the first name of the id.
LEMMA ReserveNameKeeps ==
    ASSUME NEW ns \in NameMaps, Inverse(ns), NEW i \in Ids, NEW n \in Names
    PROVE  ReserveName(ns, n, i) \in NameMaps /\ Inverse(ReserveName(ns, n, i))
<1>1. CASE ~CanReserveName(ns, n, i)
  BY <1>1 DEF ReserveName
<1>2. CASE CanReserveName(ns, n, i)
  <2> DEFINE kept == IF ns.reverse[i] \in {None, n} THEN ns ELSE ClearName(ns, i)
  <2>1. kept \in NameMaps /\ Inverse(kept)
    BY ClearNameKeeps
  <2>2. kept.reverse[i] \in {None, n} /\ kept.map[n] \in {None, i}
    BY ClearNameKeeps, <1>2 DEF CanReserveName
  <2>3. ReserveName(ns, n, i) = [map |-> [kept.map EXCEPT ![n] = i],
                                 reverse |-> [kept.reverse EXCEPT ![i] = n]]
    BY <1>2 DEF ReserveName
  <2> HIDE DEF kept
  <2> QED
    BY <2>1, <2>2, <2>3, NoneAssumption DEF NameMaps, Inverse
<1> QED
  BY <1>1, <1>2

\* set() maps a name that is mapped already.
LEMMA RestoreNameKeeps ==
    ASSUME NEW ns \in NameMaps, Inverse(ns), NEW i \in Ids
    PROVE  RestoreName(ns, i) \in NameMaps /\ Inverse(RestoreName(ns, i))
BY NoneAssumption DEF RestoreName, NameMaps, Inverse

-----------------------------------------------------------------------------
(* The inductive invariant: types, inverse name maps, ids that are known as *)
(* soon as a start has left "idle", and a budget of launches.               *)

InventoryInv ==
    /\ store \in [Ids -> Runs \cup {None}] /\ reserved \subseteq Ids
    /\ names \in NameMaps /\ Inverse(names)
StartInv ==
    /\ pc \in [Runs -> States]
    /\ id \in [Runs -> Ids \cup {None}] /\ name \in [Runs -> Names \cup {None}]
    /\ by \in [Runs -> Entries \cup {None}] /\ awaits \in [Runs -> Runs \cup {None}]
    /\ \A r \in Runs : pc[r] # "idle" => id[r] \in Ids
ControllerInv ==
    /\ ctl \in [Runs -> {"none", "live", "terminated", "ended"}]
    /\ pinged \subseteq Runs /\ ready \subseteq pinged
    /\ \A r \in Runs : ctl[r] # "none" => pc[r] # "idle"
StartupInv ==
    /\ tracked \subseteq Entries /\ launching \subseteq Entries
    /\ queue \in [Entries -> Nat] /\ attempts \in [Entries -> 0 .. RestartLimit]
    /\ notices \subseteq Ids /\ stopping \in BOOLEAN
    /\ launches \in [Entries -> Nat]
    /\ \A e \in Entries : launches[e] + queue[e] + attempts[e] <= RestartLimit + 1
IInv == InventoryInv /\ StartInv /\ ControllerInv /\ StartupInv

\* delete() keeps the inventory well-formed.
LEMMA DeleteKeeps ==
    ASSUME InventoryInv, NEW i \in Ids, Delete(i)
    PROVE  InventoryInv'
BY ClearNameKeeps DEF InventoryInv, Delete, Inverse

\* So do the reservations of a start, granted or refused,
LEMMA ReserveKeeps ==
    ASSUME InventoryInv, NEW i \in Ids, NEW n \in Names \cup {None}, Reserve(i, n)
    PROVE  InventoryInv'
BY ReserveNameKeeps DEF InventoryInv, Reserve, Inverse

\* and the clean-up of a required instance.
LEMMA CleanUpKeeps ==
    ASSUME InventoryInv, NEW r \in Runs, id[r] \in Ids, name[r] \in Names \cup {None}, CleanUp(r)
    PROVE  InventoryInv'
<1> DEFINE ns == UnregisterName(names, name[r], id[r])
<1>1. ns \in NameMaps /\ Inverse(ns)
  BY UnregisterNameKeeps DEF InventoryInv
<1>2. ClearName(ns, id[r]) \in NameMaps /\ Inverse(ClearName(ns, id[r]))
  BY <1>1, ClearNameKeeps
<1> HIDE DEF ns
<1>3. store' = [store EXCEPT ![id[r]] = None] /\ reserved' = reserved \ {id[r]}
      /\ names' = ClearName(ns, id[r])
  BY DEF CleanUp, ns
<1> QED
  BY <1>2, <1>3 DEF InventoryInv, Inverse

\* A failure spends one attempt on one queued launch, or stops the hub.
LEMMA FailureKeeps ==
    ASSUME StartupInv, NEW e \in Entries, Failure(e), UNCHANGED launches,
           tracked' \subseteq Entries, launching' \subseteq Entries, notices' \subseteq Ids
    PROVE  StartupInv'
<1>1. /\ queue' \in [Entries -> Nat] /\ attempts' \in [Entries -> 0 .. RestartLimit]
      /\ \A f \in Entries : queue'[f] + attempts'[f] = queue[f] + attempts[f]
  <2>1. CASE attempts[e] > 0
    <3>1. attempts' = [attempts EXCEPT ![e] = @ - 1] /\ queue' = [queue EXCEPT ![e] = @ + 1]
      BY <2>1 DEF Failure
    <3> QED
      BY <2>1, <3>1, EntryAssumption DEF StartupInv
  <2>2. CASE ~(attempts[e] > 0)
    BY <2>2 DEF Failure, StartupInv
  <2> QED
    BY <2>1, <2>2
<1>2. stopping' \in BOOLEAN
  BY DEF Failure, StartupInv
<1>3. \A f \in Entries : launches'[f] + queue'[f] + attempts'[f] <= RestartLimit + 1
  BY <1>1, EntryAssumption DEF StartupInv
<1> QED
  BY <1>1, <1>2, <1>3 DEF StartupInv

\* An exit is counted once, if it is counted.
LEMMA InstanceExitKeeps ==
    ASSUME StartupInv, NEW i \in Ids, InstanceExit(i), UNCHANGED <<launches, launching>>,
           notices' \subseteq Ids
    PROVE  StartupInv'
<1>1. CASE i \in tracked
  BY <1>1, FailureKeeps DEF InstanceExit, StartupInv
<1>2. CASE i \notin tracked
  BY <1>2 DEF InstanceExit, StartupInv
<1> QED
  BY <1>1, <1>2

\* The end of a launch keeps the host's entries well-formed.
LEMMA LaunchFailsKeeps ==
    ASSUME StartupInv, NEW e \in Entries \cup {None}, LaunchFails(e)
    PROVE  StartupInv'
<1>1. CASE e = None
  BY <1>1 DEF LaunchFails, StartupInv
<1>2. CASE e # None
  BY <1>2, FailureKeeps DEF LaunchFails, StartupInv
<1> QED
  BY <1>1, <1>2

\* Launches that succeed are tracked and no longer under way.
LEMMA LaunchesSucceedKeeps ==
    ASSUME StartupInv, StartInv, NEW qs \in SUBSET Runs, LaunchesSucceed(qs)
    PROVE  StartupInv'
<1>1. tracked' \subseteq Entries /\ launching' \subseteq Entries
  BY DEF LaunchesSucceed, StartupInv, StartInv
<1> QED
  BY <1>1 DEF LaunchesSucceed, StartupInv

\* The invariant holds of a hub that starts up.
LEMMA InitIInv == Init => IInv
<1> SUFFICES ASSUME Init PROVE IInv
  OBVIOUS
<1>1. InventoryInv
  BY NoneAssumption DEF Init, InventoryInv, NameMaps, Inverse
<1>2. StartInv /\ ControllerInv
  BY DEF Init, StartInv, ControllerInv, States
<1>3. StartupInv
  <2>1. stopping \in BOOLEAN
    BY DEF Init
  <2>2. /\ queue \in [Entries -> Nat] /\ attempts \in [Entries -> 0 .. RestartLimit]
        /\ launches \in [Entries -> Nat]
        /\ \A e \in Entries : launches[e] + queue[e] + attempts[e] <= RestartLimit + 1
    BY EntryAssumption DEF Init
  <2> QED
    BY <2>1, <2>2 DEF Init, StartupInv
<1> QED
  BY <1>1, <1>2, <1>3 DEF IInv

\* The starts of one run keep the invariant, from the caller's request to the
\* await of adapter.init().
LEMMA StartStepKeeps ==
    ASSUME IInv, NEW r \in Runs, ApiStart(r) \/ StartRunner(r) PROVE IInv'
<1>1. CASE ApiStart(r)
  <2>1. StartInv'
    BY <1>1 DEF ApiStart, IInv, StartInv, States
  <2>2. ControllerInv'
    BY <1>1 DEF ApiStart, IInv, ControllerInv, StartInv, controllers
  <2>3. InventoryInv' /\ StartupInv'
    BY <1>1 DEF ApiStart, IInv, InventoryInv, StartupInv, inventory, startup, NameMaps, Inverse
  <2> QED
    BY <2>1, <2>2, <2>3 DEF IInv
<1>2. CASE StartRunner(r)
  <2>0. id[r] \in Ids /\ name[r] \in Names \cup {None}
    BY <1>2 DEF StartRunner, IInv, StartInv
  <2>1. InventoryInv'
    <3>1. CASE IdRefused(id[r])
      BY <1>2, <3>1 DEF StartRunner, IInv, InventoryInv, inventory, NameMaps, Inverse
    <3>2. CASE ~IdRefused(id[r])
      BY <1>2, <3>2, <2>0, ReserveKeeps DEF StartRunner, IInv
    <3> QED
      BY <3>1, <3>2
  <2>2. \E next \in States \ {"idle"} : pc' = [pc EXCEPT ![r] = next]
    BY <1>2 DEF StartRunner, States
  <2>3. UNCHANGED <<id, name, by, awaits, controllers, startup>>
    BY <1>2 DEF StartRunner
  <2>4. StartInv' /\ ControllerInv'
    BY <1>2, <2>0, <2>2, <2>3 DEF StartRunner, IInv, StartInv, ControllerInv, controllers
  <2>5. StartupInv'
    BY <2>3 DEF IInv, StartupInv, startup
  <2> QED
    BY <2>1, <2>4, <2>5 DEF IInv
<1> QED
  BY <1>1, <1>2

\* Every launch of a required entry keeps it, dropped, refused or made.
LEMMA LaunchKeeps ==
    ASSUME IInv, NEW e \in Entries, Launch(e) PROVE IInv'
<1> DEFINE n == EntryName[e]
           refused == n # None /\ (HasName(n) \/ (n \in Ids /\ store[n] # None))
<1>0. e \in Ids /\ n \in Names \cup {None}
  BY EntryAssumption
<1>1. UNCHANGED <<controllers, notices>> /\ queue[e] > 0
  BY DEF Launch
<1> HIDE DEF n
<1>2. CASE e \in launching
  <2>1. queue' = [queue EXCEPT ![e] = @ - 1]
        /\ UNCHANGED <<inventory, starts, tracked, launching, attempts, stopping, launches>>
    BY <1>2 DEF Launch
  <2>2. InventoryInv' /\ StartInv' /\ ControllerInv'
    BY <1>1, <2>1 DEF IInv, InventoryInv, StartInv, ControllerInv, inventory, starts, controllers, NameMaps, Inverse
  <2>3. StartupInv'
    BY <1>1, <2>1, EntryAssumption DEF IInv, StartupInv
  <2> QED
    BY <2>2, <2>3 DEF IInv
<1>3. CASE e \notin launching /\ (refused \/ IdRefused(e) \/ NameRefused(e, n))
  <2>1. /\ IF refused \/ IdRefused(e) THEN UNCHANGED inventory ELSE Reserve(e, n)
        /\ tracked' = tracked \ {e}
        /\ IF attempts[e] > 0
           THEN attempts' = [attempts EXCEPT ![e] = @ - 1] /\ UNCHANGED <<queue, stopping>>
           ELSE stopping' = TRUE /\ UNCHANGED <<attempts, queue>>
        /\ UNCHANGED <<starts, launching, launches>>
    BY <1>3 DEF Launch, n
  <2>2. InventoryInv'
    <3>1. CASE refused \/ IdRefused(e)
      BY <2>1, <3>1 DEF IInv, InventoryInv, inventory, NameMaps, Inverse
    <3>2. CASE ~(refused \/ IdRefused(e))
      BY <1>0, <2>1, <3>2, ReserveKeeps DEF IInv
    <3> QED
      BY <3>1, <3>2
  <2>3. StartInv' /\ ControllerInv'
    BY <1>1, <2>1 DEF IInv, StartInv, ControllerInv, starts, controllers
  <2>4. StartupInv'
    <3>1. CASE attempts[e] > 0
      BY <1>1, <2>1, <3>1, EntryAssumption DEF IInv, StartupInv
    <3>2. CASE ~(attempts[e] > 0)
      BY <1>1, <2>1, <3>2, EntryAssumption DEF IInv, StartupInv
    <3> QED
      BY <3>1, <3>2
  <2> QED
    BY <2>2, <2>3, <2>4 DEF IInv
<1>4. CASE e \notin launching /\ ~(refused \/ IdRefused(e) \/ NameRefused(e, n))
  <2>1. PICK r \in Runs :
          /\ pc[r] = "idle"
          /\ Reserve(e, n)
          /\ pc' = [pc EXCEPT ![r] = "init"]
          /\ id' = [id EXCEPT ![r] = e] /\ name' = [name EXCEPT ![r] = n]
          /\ by' = [by EXCEPT ![r] = e]
          /\ tracked' = tracked \cup {e} /\ launching' = launching \cup {e}
          /\ queue' = [queue EXCEPT ![e] = @ - 1]
          /\ launches' = [launches EXCEPT ![e] = @ + 1]
          /\ UNCHANGED <<awaits, attempts, stopping>>
    BY <1>4 DEF Launch, n
  <2>2. InventoryInv'
    BY <1>0, <2>1, ReserveKeeps DEF IInv
  <2>3. StartInv'
    BY <1>0, <2>1 DEF IInv, StartInv, States
  <2>4. ControllerInv'
    BY <1>1, <2>1 DEF IInv, StartInv, ControllerInv, controllers
  <2>5. StartupInv'
    BY <1>1, <2>1, EntryAssumption DEF IInv, StartupInv
  <2> QED
    BY <2>2, <2>3, <2>4, <2>5 DEF IInv
<1> QED
  BY <1>2, <1>3, <1>4

\* So does what a start does after its reservations.
LEMMA RunStepKeeps ==
    ASSUME IInv, NEW r \in Runs,
           Initialized(r) \/ Dispatched(r) \/ DispatchFails(r) \/ ExitsEarly(r) \/ ReadinessFails(r)
    PROVE  IInv'
<1>0. name[r] \in Names \cup {None} /\ by[r] \in Entries \cup {None}
  BY DEF IInv, StartInv
<1>1. CASE Initialized(r)
  <2>1. id[r] \in Ids
    BY <1>1 DEF Initialized, IInv, StartInv
  <2>2. /\ \E next \in {"dispatching", "failed"} : pc' = [pc EXCEPT ![r] = next]
        /\ UNCHANGED <<inventory, id, name, by, awaits, controllers>>
    BY <1>1 DEF Initialized
  <2>3. InventoryInv' /\ StartInv' /\ ControllerInv'
    BY <2>1, <2>2 DEF IInv, InventoryInv, StartInv, ControllerInv, inventory, controllers, NameMaps, Inverse, States
  <2>4. StartupInv'
    <3>1. CASE UNCHANGED startup
      BY <3>1 DEF IInv, StartupInv, startup
    <3>2. CASE LaunchFails(by[r])
      BY <1>0, <3>2, LaunchFailsKeeps DEF IInv
    <3> QED
      BY <1>1, <3>1, <3>2 DEF Initialized
  <2> QED
    BY <2>3, <2>4 DEF IInv
<1>2. CASE Dispatched(r)
  <2>1. id[r] \in Ids
    BY <1>2 DEF Dispatched, IInv, StartInv
  <2>2. InventoryInv'
    BY <1>2, <2>1, RestoreNameKeeps DEF Dispatched, IInv, InventoryInv, Inverse
  <2>3. StartInv' /\ ControllerInv'
    BY <1>2, <2>1 DEF Dispatched, IInv, StartInv, ControllerInv, States
  <2>4. StartupInv'
    BY <1>2 DEF Dispatched, IInv, StartupInv, startup
  <2> QED
    BY <2>2, <2>3, <2>4 DEF IInv
<1>3. CASE pc[r] # "idle" /\ StartFails(r)
  <2>1. id[r] \in Ids
    BY <1>3 DEF IInv, StartInv
  <2>2. InventoryInv'
    BY <1>0, <1>3, <2>1, UnregisterNameKeeps DEF StartFails, IInv, InventoryInv, Inverse
  <2>3. StartInv' /\ ControllerInv'
    BY <1>3, <2>1 DEF StartFails, IInv, StartInv, ControllerInv, controllers, States
  <2>4. StartupInv'
    BY <1>0, <1>3, LaunchFailsKeeps DEF StartFails, IInv
  <2> QED
    BY <2>2, <2>3, <2>4 DEF IInv
<1> QED
  BY <1>1, <1>2, <1>3 DEF DispatchFails, ExitsEarly, ReadinessFails

\* And every message, termination and end of a controller.
LEMMA ControllerStepKeeps ==
    ASSUME IInv, NEW r \in Runs, Ping(r) \/ Ready(r) \/ Terminated(r) \/ Ended(r)
    PROVE  IInv'
<1>0. ctl[r] # "none" => id[r] \in Ids
  BY DEF IInv, StartInv, ControllerInv
<1>1. CASE Ping(r)
  <2> DEFINE owner == store[id[r]]
             connecting == {q \in Runs : pc[q] = "connecting" /\ id[q] = id[r]}
             settled == owner = None \/ owner \in ready
  <2>1. id[r] \in Ids /\ owner \in Runs \cup {None}
    BY <1>0, <1>1 DEF Ping, Reports, IInv, InventoryInv
  <2>2. /\ pinged' = pinged \cup {r}
        /\ names' = IF owner # None /\ name[owner] # None
                    THEN ReserveName(names, name[owner], id[r]) ELSE names
        /\ pc' = [q \in Runs |-> IF q \notin connecting THEN pc[q]
                                 ELSE IF settled THEN "started" ELSE "readying"]
        /\ awaits' = [q \in Runs |-> IF q \in connecting THEN owner ELSE awaits[q]]
        /\ LaunchesSucceed(IF settled THEN connecting ELSE {})
        /\ UNCHANGED <<store, reserved, id, name, by, ctl, ready>>
    BY <1>1 DEF Ping
  <2>3. InventoryInv'
    <3>1. CASE owner # None /\ name[owner] # None
      <4>1. name[owner] \in Names
        BY <2>1, <3>1 DEF IInv, StartInv
      <4>2. names' = ReserveName(names, name[owner], id[r])
        BY <2>2, <3>1
      <4>3. names' \in NameMaps /\ Inverse(names')
        BY <2>1, <4>1, <4>2, ReserveNameKeeps DEF IInv, InventoryInv
      <4> QED
        BY <2>2, <4>3 DEF IInv, InventoryInv, Inverse
    <3>2. CASE ~(owner # None /\ name[owner] # None)
      BY <2>2, <3>2 DEF IInv, InventoryInv, NameMaps, Inverse
    <3> QED
      BY <3>1, <3>2
  <2>4. StartInv'
    BY <2>1, <2>2 DEF IInv, StartInv, States
  <2>5. ControllerInv'
    BY <2>2 DEF IInv, ControllerInv
  <2>6. StartupInv'
    <3>1. (IF settled THEN connecting ELSE {}) \in SUBSET Runs
      OBVIOUS
    <3> HIDE DEF settled, connecting
    <3> QED
      BY <2>2, <3>1, LaunchesSucceedKeeps DEF IInv
  <2> QED
    BY <2>3, <2>4, <2>5, <2>6 DEF IInv
<1>2. CASE Ready(r)
  <2> DEFINE waiting == {q \in Runs : awaits[q] = r}
  <2>1. /\ r \in pinged /\ ready' = ready \cup {r}
        /\ \A q \in waiting : pc[q] = "readying"
        /\ pc' = [q \in Runs |-> IF q \in waiting THEN "started" ELSE pc[q]]
        /\ LaunchesSucceed(waiting)
        /\ UNCHANGED <<inventory, id, name, by, awaits, ctl, pinged>>
    BY <1>2 DEF Ready
  <2>2. InventoryInv' /\ StartInv' /\ ControllerInv'
    BY <2>1 DEF IInv, InventoryInv, StartInv, ControllerInv, inventory, States, NameMaps, Inverse
  <2>3. StartupInv'
    <3>1. waiting \in SUBSET Runs
      OBVIOUS
    <3> HIDE DEF waiting
    <3> QED
      BY <2>1, <3>1, LaunchesSucceedKeeps DEF IInv
  <2> QED
    BY <2>2, <2>3 DEF IInv
<1>3. CASE Terminated(r)
  <2>1. id[r] \in Ids /\ name[r] \in Names \cup {None}
    BY <1>0, <1>3 DEF Terminated, IInv, StartInv
  <2>2. StartInv' /\ ControllerInv'
    BY <1>3 DEF Terminated, IInv, StartInv, ControllerInv, starts
  <2>3. InventoryInv' /\ StartupInv'
    <3>1. CASE store[id[r]] = r /\ id[r] \in tracked
      <4>1. CleanUp(r) /\ InstanceExit(id[r]) /\ UNCHANGED <<launching, notices, launches>>
        BY <1>3, <3>1 DEF Terminated
      <4> QED
        BY <2>1, <4>1, CleanUpKeeps, InstanceExitKeeps DEF IInv, StartupInv
    <3>2. CASE ~(store[id[r]] = r /\ id[r] \in tracked)
      <4>1. UNCHANGED <<inventory, startup>>
        BY <1>3, <3>2 DEF Terminated, startup
      <4> QED
        BY <4>1 DEF IInv, InventoryInv, StartupInv, inventory, startup, NameMaps, Inverse
    <3> QED
      BY <3>1, <3>2
  <2> QED
    BY <2>2, <2>3 DEF IInv
<1>4. CASE Ended(r)
  <2>1. id[r] \in Ids /\ name[r] \in Names \cup {None}
    BY <1>0, <1>4 DEF Ended, IInv, StartInv
  <2>2. StartInv' /\ ControllerInv'
    BY <1>4 DEF Ended, IInv, StartInv, ControllerInv, starts
  <2>3. CASE store[id[r]] # r
    <3>1. UNCHANGED <<inventory, startup>>
      BY <1>4, <2>3 DEF Ended, startup
    <3>2. InventoryInv' /\ StartupInv'
      BY <3>1 DEF IInv, InventoryInv, StartupInv, inventory, startup, NameMaps, Inverse
    <3> QED
      BY <2>2, <3>2 DEF IInv
  <2>4. CASE store[id[r]] = r
    <3>1. CleanUp(r) \/ Delete(id[r])
      BY <1>4, <2>4 DEF Ended
    <3>2. InventoryInv'
      BY <2>1, <3>1, CleanUpKeeps, DeleteKeeps DEF IInv
    <3>3. UNCHANGED <<launching, launches>> /\ notices' \subseteq Ids
      BY <1>4, <2>1, <2>4 DEF Ended, IInv, StartupInv
    <3>4. CASE InstanceExit(id[r])
      BY <2>1, <2>2, <3>2, <3>3, <3>4, InstanceExitKeeps DEF IInv
    <3>5. CASE UNCHANGED <<tracked, attempts, queue, stopping>>
      BY <2>2, <3>2, <3>3, <3>5 DEF IInv, StartupInv
    <3> QED
      BY <1>4, <2>4, <3>4, <3>5 DEF Ended
  <2> QED
    BY <2>3, <2>4
<1> QED
  BY <1>1, <1>2, <1>3, <1>4

\* And the end the host hears of late.
LEMMA NoticeKeeps ==
    ASSUME IInv, NEW i \in Ids, HandleEndNotice(i) PROVE IInv'
<1>1. InventoryInv' /\ StartInv' /\ ControllerInv'
  BY DEF HandleEndNotice, IInv, InventoryInv, StartInv, ControllerInv, inventory, starts, controllers, NameMaps, Inverse
<1>2. InstanceExit(i) /\ UNCHANGED <<launching, launches>> /\ notices' \subseteq Ids
  BY DEF HandleEndNotice, IInv, StartupInv
<1> QED
  BY <1>1, <1>2, InstanceExitKeeps DEF IInv

\* And a step that changes nothing.
LEMMA StutterKeeps == IInv /\ UNCHANGED vars => IInv'
<1> SUFFICES ASSUME IInv, UNCHANGED vars PROVE IInv'
  OBVIOUS
<1>1. InventoryInv' /\ StartInv' /\ ControllerInv'
  BY DEF IInv, InventoryInv, StartInv, ControllerInv, vars, inventory, starts, controllers, NameMaps, Inverse
<1>2. StartupInv'
  BY DEF IInv, StartupInv, vars, startup
<1> QED
  BY <1>1, <1>2 DEF IInv

\* The invariant holds for any callers, entries and faults.
LEMMA Inductive == Spec => []IInv
<1>1. IInv /\ [Next]_vars => IInv'
  BY StartStepKeeps, LaunchKeeps, RunStepKeeps, ControllerStepKeeps, NoticeKeeps, StutterKeeps DEF Next
<1> QED
  BY <1>1, InitIInv, PTL DEF Spec

-----------------------------------------------------------------------------
(* Theorems.                                                               *)

\* Type correctness of the store, the starts, the controllers and the host's
\* required entries.
THEOREM TypeCorrect == Spec => []TypeOK
<1>1. IInv => TypeOK
  BY DEF IInv, InventoryInv, StartInv, ControllerInv, StartupInv, NameMaps, TypeOK
<1> QED
  BY <1>1, Inductive, PTL

\* No name resolves to an instance that would not give it up, and no instance
\* has two (reserveName, registerName, unregisterName, set, delete).
THEOREM NamesStayInverse == Spec => []NamesConsistent
<1>1. IInv => NamesConsistent
  BY DEF IInv, InventoryInv, Inverse, NamesConsistent
<1> QED
  BY <1>1, Inductive, PTL

\* A required entry is launched at most restartLimit + 1 times
\* (handleRequiredStartupFailure).
THEOREM LaunchesBounded == Spec => []RestartsBounded
<1>1. IInv => RestartsBounded
  BY EntryAssumption DEF IInv, StartupInv, RestartsBounded
<1> QED
  BY <1>1, Inductive, PTL

\* No step but the termination or the end of its own controller takes an id out
\* of the store (the "terminated" and "end" handlers).
LEMMA OwnerLeaves ==
    ASSUME IInv, Next, NEW i \in Ids, store[i] # None, store'[i] = None
    PROVE  ctl'[store[i]] # "live"
<1> DEFINE owner == store[i]
<1>0. owner \in Runs
  BY DEF IInv, InventoryInv
<1>1. ASSUME UNCHANGED store PROVE FALSE
  BY <1>1
<1>2. ASSUME NEW r \in Runs, Dispatched(r) PROVE FALSE
  <2>1. store' = [store EXCEPT ![id[r]] = r]
    BY <1>2 DEF Dispatched
  <2> QED
    BY <2>1, NoneAssumption DEF IInv, InventoryInv
<1>3. ASSUME NEW r \in Runs, Terminated(r) \/ Ended(r), store' # store
      PROVE  ctl'[owner] # "live"
  <2>1. store[id[r]] = r /\ store' = [store EXCEPT ![id[r]] = None]
    BY <1>3 DEF Terminated, Ended, CleanUp, Delete, inventory
  <2>2. ctl' = [ctl EXCEPT ![r] = "terminated"] \/ ctl' = [ctl EXCEPT ![r] = "ended"]
    BY <1>3 DEF Terminated, Ended
  <2>3. owner = r
    BY <2>1 DEF IInv, InventoryInv
  <2> QED
    BY <1>0, <2>2, <2>3 DEF IInv, ControllerInv
<1>4. ASSUME NEW r \in Runs,
             \/ ApiStart(r) \/ StartRunner(r) \/ Initialized(r) \/ DispatchFails(r)
             \/ ExitsEarly(r) \/ ReadinessFails(r) \/ Ping(r) \/ Ready(r)
      PROVE  UNCHANGED store
  BY <1>4 DEF ApiStart, StartRunner, Reserve, Initialized, DispatchFails, ExitsEarly,
              ReadinessFails, StartFails, Ping, Ready, inventory
<1>5. ASSUME NEW e \in Entries, Launch(e) PROVE UNCHANGED store
  BY <1>5 DEF Launch, Reserve, inventory
<1>6. ASSUME NEW j \in Ids, HandleEndNotice(j) PROVE UNCHANGED store
  BY <1>6 DEF HandleEndNotice, inventory
<1> QED
  BY <1>1, <1>2, <1>3, <1>4, <1>5, <1>6 DEF Next

\* An id leaves the store only when the controller it belongs to has terminated.
THEOREM OwnersLeave == Spec => OnlyOwnerLeaves
<1>1. IInv /\ [Next]_vars
        => [\A i \in Ids : store[i] # None /\ store'[i] = None => ctl'[store[i]] # "live"]_vars
  BY OwnerLeaves
<1> QED
  BY <1>1, Inductive, PTL DEF Spec, OnlyOwnerLeaves

-----------------------------------------------------------------------------
(* Supervision, where no caller starts instances and no message is handled *)
(* after its instance terminated: an entry has one start at a time, and an *)
(* id one owner.                                                           *)

Active(r) == pc[r] \in {"init", "dispatching", "connecting", "readying"}
OneLaunch ==
    /\ \A r \in Runs : pc[r] # "idle" => by[r] = id[r] /\ by[r] \in Entries /\ pc[r] # "resolving"
    /\ \A r \in Runs : Active(r) => id[r] \in launching
    /\ \A q, r \in Runs : Active(q) /\ Active(r) /\ id[q] = id[r] => q = r
OneOwner ==
    /\ \A r \in Runs : ctl[r] = "live" => store[id[r]] = r
    /\ \A i \in Ids : store[i] # None => id[store[i]] = i /\ pc[store[i]] # "idle"
    /\ \A r \in Runs : pc[r] \in {"init", "dispatching"} => id[r] \in reserved /\ store[id[r]] = None
    /\ \A q \in Runs : awaits[q] # None =>
          pc[q] # "idle" /\ pc[awaits[q]] # "idle" /\ id[awaits[q]] = id[q]
SInv == IInv /\ OneLaunch /\ OneOwner /\ SupervisionNeverLapses

\* What a launch does to the starts and the store, made, refused or dropped.
LEMMA LaunchFrame ==
    ASSUME IInv, NEW e \in Entries, Launch(e)
    PROVE  /\ UNCHANGED <<store, awaits, controllers>>
           /\ \/ UNCHANGED <<pc, id, by, launching>> /\ reserved \subseteq reserved'
              \/ /\ e \notin launching /\ store[e] = None
                 /\ launching' = launching \cup {e} /\ reserved' = reserved \cup {e}
                 /\ \E r \in Runs : /\ pc[r] = "idle" /\ pc' = [pc EXCEPT ![r] = "init"]
                                    /\ id' = [id EXCEPT ![r] = e] /\ by' = [by EXCEPT ![r] = e]
<1> e \in Ids
  BY EntryAssumption
<1> QED
  BY DEF Launch, Reserve, inventory, starts, controllers, IdRefused, HasId

\* A failed launch is no longer under way.
LEMMA LaunchFailsFrame ==
    ASSUME StartupInv, NEW e \in Entries, LaunchFails(e)
    PROVE  launching' = launching \ {e} /\ tracked' = tracked \ {e} /\ Failure(e)
BY NoneAssumption, EntryAssumption DEF LaunchFails

\* A start fails from one of its last three phases.
LEMMA FailedStart ==
    ASSUME NEW r \in Runs, DispatchFails(r) \/ ExitsEarly(r) \/ ReadinessFails(r)
    PROVE  Active(r) /\ StartFails(r)
BY DEF DispatchFails, ExitsEarly, ReadinessFails, Active

\* An entry has one start at a time: launchingRequiredStartupEntries keeps a
\* second out until the first has started or failed.
LEMMA OneLaunchKeeps ==
    ASSUME SInv, Callers = {}, "late" \notin Faults, Next PROVE OneLaunch'
<1>0. IInv /\ StartInv /\ StartupInv /\ ControllerInv /\ OneLaunch /\ OneOwner
  BY DEF SInv, IInv
<1>1. ASSUME UNCHANGED <<pc, id, by, launching>> PROVE OneLaunch'
  BY <1>0, <1>1 DEF OneLaunch, Active
<1>2. ASSUME NEW e \in Entries, Launch(e) PROVE OneLaunch'
  <2>1. CASE UNCHANGED <<pc, id, by, launching>>
    BY <1>1, <2>1
  <2>2. CASE ~UNCHANGED <<pc, id, by, launching>>
    <3>1. e \notin launching /\ launching' = launching \cup {e}
      BY <1>0, <1>2, <2>2, LaunchFrame
    <3>2. PICK r \in Runs : /\ pc[r] = "idle" /\ pc' = [pc EXCEPT ![r] = "init"]
                            /\ id' = [id EXCEPT ![r] = e] /\ by' = [by EXCEPT ![r] = e]
      BY <1>0, <1>2, <2>2, LaunchFrame
    <3> QED
      BY <1>0, <3>1, <3>2 DEF OneLaunch, Active, StartInv
  <2> QED
    BY <2>1, <2>2
<1>3. ASSUME NEW r \in Runs, Active(r), pc' = [pc EXCEPT ![r] = "failed"], LaunchFails(by[r]),
             UNCHANGED <<id, by>>
      PROVE  OneLaunch'
  <2>1. by[r] = id[r] /\ by[r] \in Entries
    BY <1>0, <1>3 DEF OneLaunch, Active
  <2>2. launching' = launching \ {id[r]}
    BY <1>0, <1>3, <2>1, LaunchFailsFrame
  <2> QED
    BY <1>0, <1>3, <2>2 DEF OneLaunch, Active, StartInv
<1>4. ASSUME NEW r \in Runs, Initialized(r) PROVE OneLaunch'
  <2>1. CASE pc' = [pc EXCEPT ![r] = "dispatching"] /\ UNCHANGED startup
    BY <1>0, <1>4, <2>1 DEF Initialized, startup, OneLaunch, Active, StartInv
  <2>2. CASE pc' = [pc EXCEPT ![r] = "failed"] /\ LaunchFails(by[r])
    BY <1>3, <1>4, <2>2 DEF Initialized, Active
  <2> QED
    BY <1>4, <2>1, <2>2 DEF Initialized
<1>5. ASSUME NEW r \in Runs, Dispatched(r) PROVE OneLaunch'
  BY <1>0, <1>5 DEF Dispatched, startup, OneLaunch, Active, StartInv
<1>6. ASSUME NEW r \in Runs, DispatchFails(r) \/ ExitsEarly(r) \/ ReadinessFails(r)
      PROVE  OneLaunch'
  BY <1>3, <1>6, FailedStart DEF StartFails
<1>7. ASSUME NEW qs \in SUBSET Runs, LaunchesSucceed(qs), UNCHANGED <<id, by>>,
             NEW i, \A q \in qs : Active(q) /\ id[q] = i,
             \A q \in Runs : pc'[q] \in {pc[q], "readying", "started"},
             \A q \in qs : pc'[q] = "started",
             \A q \in Runs : pc'[q] # pc[q] => Active(q)
      PROVE  OneLaunch'
  <2>1. launching' = launching \ {id[q] : q \in qs}
    BY <1>0, <1>7, NoneAssumption, EntryAssumption DEF LaunchesSucceed, OneLaunch, Active
  <2> QED
    BY <1>0, <1>7, <2>1 DEF OneLaunch, Active
<1>8. ASSUME NEW r \in Runs, Ping(r) PROVE OneLaunch'
  <2> DEFINE owner == store[id[r]]
             connecting == {q \in Runs : pc[q] = "connecting" /\ id[q] = id[r]}
             settled == owner = None \/ owner \in ready
             done == IF settled THEN connecting ELSE {}
  <2>1. /\ LaunchesSucceed(done) /\ UNCHANGED <<id, by>>
        /\ pc' = [q \in Runs |-> IF q \notin connecting THEN pc[q]
                                 ELSE IF settled THEN "started" ELSE "readying"]
    BY <1>8 DEF Ping
  <2>2. done \in SUBSET Runs /\ \A q \in done : Active(q) /\ id[q] = id[r]
    BY DEF Active
  <2>3. /\ \A q \in Runs : pc'[q] \in {pc[q], "readying", "started"}
        /\ \A q \in done : pc'[q] = "started"
        /\ \A q \in Runs : pc'[q] # pc[q] => Active(q)
    BY <2>1 DEF Active
  <2> HIDE DEF done
  <2> QED
    BY <1>7, <2>1, <2>2, <2>3
<1>9. ASSUME NEW r \in Runs, Ready(r) PROVE OneLaunch'
  <2> DEFINE waiting == {q \in Runs : awaits[q] = r}
  <2>1. /\ LaunchesSucceed(waiting) /\ UNCHANGED <<id, by>>
        /\ \A q \in waiting : pc[q] = "readying"
        /\ pc' = [q \in Runs |-> IF q \in waiting THEN "started" ELSE pc[q]]
    BY <1>9 DEF Ready
  <2>2. waiting \in SUBSET Runs /\ \A q \in waiting : Active(q) /\ id[q] = id[r]
    BY <1>0, <2>1, NoneAssumption DEF OneOwner, Active
  <2>3. /\ \A q \in Runs : pc'[q] \in {pc[q], "readying", "started"}
        /\ \A q \in waiting : pc'[q] = "started"
        /\ \A q \in Runs : pc'[q] # pc[q] => Active(q)
    BY <2>1, <2>2
  <2> HIDE DEF waiting
  <2> QED
    BY <1>7, <2>1, <2>2, <2>3
<1>10. ASSUME NEW r \in Runs, ApiStart(r) \/ StartRunner(r) PROVE FALSE
  BY <1>0, <1>10 DEF ApiStart, StartRunner, OneLaunch
<1>11. ASSUME NEW r \in Runs, Terminated(r) \/ Ended(r) PROVE OneLaunch'
  BY <1>1, <1>11 DEF Terminated, Ended, starts
<1>12. ASSUME NEW i \in Ids, HandleEndNotice(i) PROVE OneLaunch'
  BY <1>1, <1>12 DEF HandleEndNotice, starts
<1> QED
  BY <1>2, <1>4, <1>5, <1>6, <1>8, <1>9, <1>10, <1>11, <1>12 DEF Next

\* An id has one owner: a live controller is the one in the store, and no start
\* reaches dispatch() with an id that another start or controller holds.
LEMMA OneOwnerKeeps ==
    ASSUME SInv, Callers = {}, "late" \notin Faults, Next PROVE OneOwner'
<1>0. IInv /\ InventoryInv /\ StartInv /\ ControllerInv /\ OneLaunch /\ OneOwner
  BY DEF SInv, IInv
<1>a. \A r \in Runs : pc[r] # "idle" => id[r] \in Ids
  BY <1>0 DEF StartInv
<1>1. ASSUME NEW e \in Entries, Launch(e) PROVE OneOwner'
  <2>1. UNCHANGED <<store, awaits, ctl>>
    BY <1>0, <1>1, LaunchFrame DEF controllers
  <2>2. CASE UNCHANGED <<pc, id>> /\ reserved \subseteq reserved'
    BY <1>0, <2>1, <2>2 DEF OneOwner
  <2>3. CASE ~(UNCHANGED <<pc, id>> /\ reserved \subseteq reserved')
    <3>1. store[e] = None /\ reserved' = reserved \cup {e}
      BY <1>0, <1>1, <2>3, LaunchFrame
    <3>2. PICK r \in Runs : /\ pc[r] = "idle" /\ pc' = [pc EXCEPT ![r] = "init"]
                            /\ id' = [id EXCEPT ![r] = e]
      BY <1>0, <1>1, <2>3, LaunchFrame
    <3>3. ctl[r] = "none"
      BY <1>0, <3>2 DEF ControllerInv
    <3> QED
      BY <1>0, <2>1, <3>1, <3>2, <3>3 DEF OneOwner, StartInv, InventoryInv
  <2> QED
    BY <2>2, <2>3
<1>2. ASSUME NEW r \in Runs, Initialized(r) PROVE OneOwner'
  BY <1>0, <1>2 DEF Initialized, inventory, controllers, OneOwner, StartInv, InventoryInv
<1>3. ASSUME NEW r \in Runs, Dispatched(r) PROVE OneOwner'
  <2>1. /\ pc[r] = "dispatching" /\ pc' = [pc EXCEPT ![r] = "connecting"]
        /\ ctl' = [ctl EXCEPT ![r] = "live"] /\ store' = [store EXCEPT ![id[r]] = r]
        /\ reserved' = reserved \ {id[r]} /\ UNCHANGED <<id, awaits>>
    BY <1>3 DEF Dispatched
  <2>2. id[r] \in Ids /\ store[id[r]] = None
    BY <1>0, <1>a, <2>1 DEF OneOwner
  <2>3. \A q \in Runs : ctl'[q] = "live" => store'[id'[q]] = q
    BY <1>0, <1>a, <2>1, <2>2, NoneAssumption DEF OneOwner, ControllerInv, InventoryInv
  <2>4. \A i \in Ids : store'[i] # None => id'[store'[i]] = i /\ pc'[store'[i]] # "idle"
    BY <1>0, <2>1, <2>2 DEF OneOwner, StartInv, InventoryInv
  <2>5. \A q \in Runs : pc'[q] \in {"init", "dispatching"}
                           => id'[q] \in reserved' /\ store'[id'[q]] = None
    BY <1>0, <1>a, <2>1, <2>2 DEF OneOwner, OneLaunch, Active, StartInv, InventoryInv
  <2>6. \A q \in Runs : awaits'[q] # None =>
           pc'[q] # "idle" /\ pc'[awaits'[q]] # "idle" /\ id'[awaits'[q]] = id'[q]
    BY <1>0, <2>1 DEF OneOwner, StartInv
  <2> QED
    BY <2>3, <2>4, <2>5, <2>6 DEF OneOwner
<1>4. ASSUME NEW r \in Runs, DispatchFails(r) \/ ExitsEarly(r) \/ ReadinessFails(r)
      PROVE  OneOwner'
  <2>1. Active(r) /\ pc' = [pc EXCEPT ![r] = "failed"] /\ reserved' = reserved \ {id[r]}
        /\ UNCHANGED <<store, ctl, id, awaits>>
    BY <1>4, FailedStart DEF StartFails, controllers
  <2> QED
    BY <1>0, <2>1 DEF OneOwner, OneLaunch, Active, StartInv, InventoryInv
<1>5. ASSUME NEW r \in Runs, Ping(r) PROVE OneOwner'
  <2> DEFINE connecting == {q \in Runs : pc[q] = "connecting" /\ id[q] = id[r]}
  <2>1. ctl[r] = "live" /\ store[id[r]] = r /\ pc[r] # "idle"
    BY <1>0, <1>5 DEF Ping, Reports, OneOwner, ControllerInv
  <2>2. /\ \A q \in Runs : pc'[q] = pc[q] \/ (pc[q] = "connecting" /\ pc'[q] \in {"started", "readying"})
        /\ awaits' = [q \in Runs |-> IF q \in connecting THEN r ELSE awaits[q]]
        /\ UNCHANGED <<store, reserved, id, ctl>>
    BY <1>5, <2>1 DEF Ping
  <2> QED
    BY <1>0, <2>1, <2>2 DEF OneOwner, StartInv, InventoryInv
<1>6. ASSUME NEW r \in Runs, Ready(r) PROVE OneOwner'
  <2>1. /\ \A q \in Runs : pc'[q] = pc[q] \/ (pc[q] # "idle" /\ pc'[q] = "started")
        /\ UNCHANGED <<store, reserved, id, ctl, awaits>>
    BY <1>6 DEF Ready, inventory
  <2> QED
    BY <1>0, <2>1 DEF OneOwner, StartInv, InventoryInv
<1>7. ASSUME NEW r \in Runs, Terminated(r) \/ Ended(r) PROVE OneOwner'
  <2>1. /\ UNCHANGED <<pc, id, awaits>> /\ ctl'[r] # "live"
        /\ \A q \in Runs : q # r => ctl'[q] = ctl[q]
    BY <1>0, <1>7 DEF Terminated, Ended, starts, ControllerInv
  <2>2. \/ UNCHANGED <<store, reserved>>
        \/ /\ store[id[r]] = r /\ store' = [store EXCEPT ![id[r]] = None]
           /\ reserved' = reserved \ {id[r]}
    BY <1>7 DEF Terminated, Ended, CleanUp, Delete, inventory
  <2>3. r # None /\ store \in [Ids -> Runs \cup {None}]
    BY <1>0, NoneAssumption DEF InventoryInv
  <2>4. \A q \in Runs : ctl'[q] = "live" => store'[id'[q]] = q
    <3>1. SUFFICES ASSUME NEW q \in Runs, ctl'[q] = "live" PROVE store'[id'[q]] = q
      OBVIOUS
    <3>2. q # r /\ store[id[q]] = q /\ id[q] \in Ids
      BY <1>0, <1>a, <2>1, <3>1 DEF OneOwner, ControllerInv
    <3> QED
      BY <2>1, <2>2, <2>3, <3>2
  <2>5. \A i \in Ids : store'[i] # None => id'[store'[i]] = i /\ pc'[store'[i]] # "idle"
    BY <1>0, <2>1, <2>2, <2>3 DEF OneOwner
  <2>6. \A q \in Runs : pc'[q] \in {"init", "dispatching"}
                           => id'[q] \in reserved' /\ store'[id'[q]] = None
    BY <1>0, <1>a, <2>1, <2>2, <2>3 DEF OneOwner
  <2>7. \A q \in Runs : awaits'[q] # None =>
           pc'[q] # "idle" /\ pc'[awaits'[q]] # "idle" /\ id'[awaits'[q]] = id'[q]
    BY <1>0, <2>1 DEF OneOwner
  <2> QED
    BY <2>4, <2>5, <2>6, <2>7 DEF OneOwner
<1>8. ASSUME NEW r \in Runs, ApiStart(r) \/ StartRunner(r) PROVE FALSE
  BY <1>0, <1>8 DEF ApiStart, StartRunner, OneLaunch
<1>9. ASSUME NEW i \in Ids, HandleEndNotice(i) PROVE OneOwner'
  BY <1>0, <1>9 DEF HandleEndNotice, inventory, starts, controllers, OneOwner
<1> QED
  BY <1>1, <1>2, <1>3, <1>4, <1>5, <1>6, <1>7, <1>8, <1>9 DEF Next

\* A failure queues a launch or stops the hub, and takes no launch off the queue.
LEMMA FailureSupervises ==
    ASSUME StartupInv, NEW e \in Entries, Failure(e)
    PROVE  /\ queue'[e] > 0 \/ stopping' = TRUE
           /\ \A f \in Entries : queue[f] > 0 => queue'[f] > 0
<1>1. CASE attempts[e] > 0
  <2>1. queue' = [queue EXCEPT ![e] = @ + 1]
    BY <1>1 DEF Failure
  <2> QED
    BY <2>1 DEF StartupInv
<1>2. CASE ~(attempts[e] > 0)
  <2>1. stopping' = TRUE
    BY <1>2 DEF Failure
  <2>2. queue' = queue
    BY <1>2 DEF Failure
  <2> QED
    BY <2>1, <2>2
<1> QED
  BY <1>1, <1>2

\* No step ends the supervision of a required entry.
LEMMA SupervisionKeeps ==
    ASSUME SInv, Callers = {}, "late" \notin Faults, Next PROVE SupervisionNeverLapses'
<1>0. /\ IInv /\ InventoryInv /\ StartInv /\ ControllerInv /\ StartupInv
      /\ OneLaunch /\ OneOwner
  BY DEF SInv, IInv
<1>a. Entries \subseteq Ids
  BY EntryAssumption
<1>b. stopping = FALSE /\ \A f \in Entries : Supervised(f)
  <2>1. ~stopping
    BY DEF Next
  <2>2. stopping \in BOOLEAN
    BY <1>0 DEF StartupInv
  <2> QED
    BY <2>1, <2>2 DEF SInv, SupervisionNeverLapses
<1> SUFFICES ASSUME NEW f \in Entries, stopping' # TRUE PROVE Supervised(f)'
  BY DEF SupervisionNeverLapses
<1>1. Supervised(f)
  BY <1>b
\* What a failure of e leaves to the others.
<1>2. ASSUME NEW e \in Entries, Failure(e), f = e \/ (f \in launching => f \in launching'),
             f # e /\ f \in tracked => f \in tracked',
             f # e /\ f \in tracked /\ store[f] # None /\ ctl[store[f]] = "live"
                => store'[f] = store[f] /\ ctl'[store[f]] = "live"
      PROVE  Supervised(f)'
  <2>1. /\ queue'[e] > 0 \/ stopping' = TRUE
        /\ queue[f] > 0 => queue'[f] > 0
    BY <1>0, <1>2, FailureSupervises
  <2>2. CASE f = e
    BY <2>1, <2>2 DEF Supervised
  <2>3. CASE f # e
    BY <1>1, <1>2, <2>1, <2>3 DEF Supervised
  <2> QED
    BY <2>2, <2>3
<1>3. ASSUME UNCHANGED <<launching, queue>>, f \in tracked => f \in tracked',
             f \in tracked /\ store[f] # None /\ ctl[store[f]] = "live"
                => store'[f] = store[f] /\ ctl'[store[f]] = "live"
      PROVE  Supervised(f)'
  BY <1>1, <1>3 DEF Supervised
<1>4. ASSUME NEW e \in Entries, Launch(e) PROVE Supervised(f)'
  <2>1. UNCHANGED <<store, ctl>>
    BY <1>0, <1>4, LaunchFrame DEF controllers
  <2>2. \/ e \in launching' /\ launching \subseteq launching' /\ tracked \subseteq tracked'
        \/ queue' = queue /\ launching' = launching /\ tracked' = tracked \ {e}
    BY <1>4 DEF Launch
  <2>3. queue[e] > 0 /\ \A g \in Entries : g # e => queue'[g] = queue[g]
    BY <1>0, <1>4 DEF Launch, StartupInv
  <2> QED
    BY <1>1, <2>1, <2>2, <2>3 DEF Supervised
<1>5. ASSUME NEW r \in Runs, Active(r), LaunchFails(by[r]), UNCHANGED <<store, ctl>>
      PROVE  Supervised(f)'
  <2>1. by[r] \in Entries
    BY <1>0, <1>5 DEF OneLaunch, Active
  <2>2. /\ launching' = launching \ {by[r]} /\ tracked' = tracked \ {by[r]}
        /\ Failure(by[r])
    BY <1>0, <1>5, <2>1, LaunchFailsFrame
  <2> QED
    BY <1>2, <1>5, <2>1, <2>2
<1>6. ASSUME NEW r \in Runs, Initialized(r) PROVE Supervised(f)'
  <2>1. CASE UNCHANGED startup
    BY <1>3, <1>6, <2>1 DEF Initialized, startup, inventory, controllers
  <2>2. CASE LaunchFails(by[r])
    BY <1>5, <1>6, <2>2 DEF Initialized, inventory, controllers, Active
  <2> QED
    BY <1>6, <2>1, <2>2 DEF Initialized
<1>7. ASSUME NEW r \in Runs, Dispatched(r) PROVE Supervised(f)'
  <2>1. id[r] \in launching /\ store[id[r]] = None
    BY <1>0, <1>7 DEF Dispatched, OneLaunch, OneOwner, Active
  <2>2. /\ UNCHANGED <<launching, queue, tracked>>
        /\ ctl' = [ctl EXCEPT ![r] = "live"] /\ store' = [store EXCEPT ![id[r]] = r]
    BY <1>7 DEF Dispatched, startup
  <2>3. \A q \in Runs : ctl[q] = "live" => ctl'[q] = "live"
    BY <1>0, <2>2 DEF ControllerInv
  <2>4. f # id[r] => store'[f] = store[f]
    BY <1>0, <1>a, <2>2 DEF InventoryInv
  <2> QED
    BY <1>0, <1>a, <1>3, <2>1, <2>2, <2>3, <2>4 DEF InventoryInv
<1>8. ASSUME NEW r \in Runs, DispatchFails(r) \/ ExitsEarly(r) \/ ReadinessFails(r)
      PROVE  Supervised(f)'
  BY <1>5, <1>8, FailedStart DEF StartFails, controllers
\* Launches succeed for the id of a live controller.
<1>9. ASSUME NEW qs \in SUBSET Runs, LaunchesSucceed(qs), UNCHANGED <<store, ctl>>,
             NEW r \in Runs, pc[r] # "idle", ctl[r] = "live",
             \A q \in qs : pc[q] # "idle" /\ id[q] = id[r]
      PROVE  Supervised(f)'
  <2>1. \A q \in qs : by[q] = id[r] /\ by[q] \in Entries
    BY <1>0, <1>9 DEF OneLaunch
  <2>2. /\ tracked' = tracked \cup {by[q] : q \in qs}
        /\ launching' = launching \ {by[q] : q \in qs} /\ queue' = queue
    BY <1>9, <2>1, NoneAssumption, EntryAssumption DEF LaunchesSucceed
  <2>3. store[id[r]] = r
    BY <1>0, <1>9 DEF OneOwner
  <2>4. CASE f \in {by[q] : q \in qs}
    BY <1>9, <2>1, <2>2, <2>3, <2>4, NoneAssumption DEF Supervised
  <2>5. CASE f \notin {by[q] : q \in qs}
    BY <1>1, <1>9, <2>2, <2>5 DEF Supervised
  <2> QED
    BY <2>4, <2>5
<1>10. ASSUME NEW r \in Runs, Ping(r) PROVE Supervised(f)'
  <2> DEFINE done == IF store[id[r]] = None \/ store[id[r]] \in ready
                     THEN {q \in Runs : pc[q] = "connecting" /\ id[q] = id[r]} ELSE {}
  <2>1. LaunchesSucceed(done) /\ UNCHANGED <<store, ctl>>
    BY <1>10 DEF Ping
  <2>2. done \in SUBSET Runs /\ \A q \in done : pc[q] # "idle" /\ id[q] = id[r]
    OBVIOUS
  <2>3. ctl[r] = "live" /\ pc[r] # "idle"
    BY <1>0, <1>10 DEF Ping, Reports, ControllerInv
  <2> HIDE DEF done
  <2> QED
    BY <1>9, <2>1, <2>2, <2>3
<1>11. ASSUME NEW r \in Runs, Ready(r) PROVE Supervised(f)'
  <2> DEFINE waiting == {q \in Runs : awaits[q] = r}
  <2>1. LaunchesSucceed(waiting) /\ UNCHANGED <<store, ctl>>
    BY <1>11 DEF Ready, inventory
  <2>2. waiting \in SUBSET Runs /\ \A q \in waiting : pc[q] # "idle" /\ id[q] = id[r]
    BY <1>0, NoneAssumption DEF OneOwner
  <2>3. ctl[r] = "live" /\ pc[r] # "idle"
    BY <1>0, <1>11 DEF Ready, Reports, ControllerInv
  <2> HIDE DEF waiting
  <2> QED
    BY <1>9, <2>1, <2>2, <2>3
<1>12. ASSUME NEW r \in Runs, Terminated(r) PROVE Supervised(f)'
  <2>1. ctl[r] = "live" /\ ctl' = [ctl EXCEPT ![r] = "terminated"] /\ launching' = launching
    BY <1>12 DEF Terminated
  <2>2. store[id[r]] = r /\ id[r] \in Ids
    BY <1>0, <2>1 DEF OneOwner, ControllerInv, StartInv
  <2>3. f # id[r] /\ store[f] # None => store[f] # r
    BY <1>0, <1>a DEF OneOwner
  <2>4. CASE id[r] \in tracked
    <3>1. CleanUp(r) /\ InstanceExit(id[r])
      BY <1>12, <2>2, <2>4 DEF Terminated
    <3>2. id[r] \in Entries /\ tracked' = tracked \ {id[r]} /\ Failure(id[r])
      BY <1>0, <2>4, <3>1 DEF InstanceExit, StartupInv
    <3>3. f # id[r] => store'[f] = store[f]
      BY <1>0, <1>a, <3>1 DEF CleanUp, InventoryInv
    <3> QED
      BY <1>0, <1>a, <1>2, <2>1, <2>3, <3>2, <3>3 DEF InventoryInv, ControllerInv
  <2>5. CASE id[r] \notin tracked
    <3>1. UNCHANGED <<store, tracked, queue>>
      BY <1>12, <2>5 DEF Terminated, inventory
    <3> QED
      BY <1>0, <1>a, <1>3, <2>1, <2>3, <2>5, <3>1 DEF InventoryInv, ControllerInv
  <2> QED
    BY <2>4, <2>5
<1>13. ASSUME NEW i \in Ids, InstanceExit(i), launching' = launching,
              f \in tracked /\ store[f] # None /\ ctl[store[f]] = "live"
                => store'[f] = store[f] /\ ctl'[store[f]] = "live"
       PROVE  Supervised(f)'
  <2>1. CASE i \in tracked
    <3>1. i \in Entries /\ tracked' = tracked \ {i} /\ Failure(i)
      BY <1>0, <1>13, <2>1 DEF InstanceExit, StartupInv
    <3> QED
      BY <1>2, <1>13, <3>1
  <2>2. CASE i \notin tracked
    BY <1>3, <1>13, <2>2 DEF InstanceExit
  <2> QED
    BY <2>1, <2>2
<1>14. ASSUME NEW r \in Runs, Ended(r) PROVE Supervised(f)'
  <2>1. ctl[r] = "terminated" /\ ctl' = [ctl EXCEPT ![r] = "ended"] /\ launching' = launching
    BY <1>14 DEF Ended
  <2>2. \/ UNCHANGED store
        \/ store[id[r]] = r /\ store' = [store EXCEPT ![id[r]] = None]
    BY <1>14 DEF Ended, CleanUp, Delete, inventory
  <2>3. store[f] # None /\ ctl[store[f]] = "live"
           => store'[f] = store[f] /\ ctl'[store[f]] = "live"
    BY <1>0, <1>a, <2>1, <2>2 DEF InventoryInv, ControllerInv
  <2>4. id[r] \in Ids
    BY <1>0, <2>1 DEF ControllerInv, StartInv
  <2>5. CASE InstanceExit(id[r])
    BY <1>13, <2>1, <2>3, <2>4, <2>5
  <2>6. CASE UNCHANGED <<tracked, queue>>
    BY <1>3, <2>1, <2>3, <2>6
  <2> QED
    BY <1>14, <2>5, <2>6 DEF Ended
<1>15. ASSUME NEW i \in Ids, HandleEndNotice(i) PROVE Supervised(f)'
  BY <1>13, <1>15 DEF HandleEndNotice, inventory, controllers
<1>16. ASSUME NEW r \in Runs, ApiStart(r) \/ StartRunner(r) PROVE FALSE
  BY <1>0, <1>16 DEF ApiStart, StartRunner, OneLaunch
<1> QED
  BY <1>4, <1>6, <1>7, <1>8, <1>10, <1>11, <1>12, <1>14, <1>15, <1>16 DEF Next

\* A hub that starts up has a launch of every required entry queued.
LEMMA InitSInv == Init => SInv
<1> SUFFICES ASSUME Init PROVE SInv
  OBVIOUS
<1>1. IInv
  BY InitIInv
<1>2. OneLaunch /\ OneOwner
  BY DEF Init, OneLaunch, OneOwner, Active
<1>3. \A e \in Entries : queue[e] > 0
  BY DEF Init
<1>4. SupervisionNeverLapses
  BY <1>3 DEF SupervisionNeverLapses, Supervised
<1> QED
  BY <1>1, <1>2, <1>4 DEF SInv

\* A step that changes nothing keeps the supervision.
LEMMA StutterKeepsSupervision == SInv /\ UNCHANGED vars => SInv'
<1> SUFFICES ASSUME SInv, UNCHANGED vars PROVE SInv'
  OBVIOUS
<1>1. IInv'
  BY StutterKeeps DEF SInv
<1>2. OneLaunch' /\ OneOwner'
  BY DEF SInv, OneLaunch, OneOwner, Active, vars, inventory, starts, controllers, startup
<1>3. SupervisionNeverLapses'
  BY DEF SInv, SupervisionNeverLapses, Supervised, vars, inventory, controllers, startup
<1> QED
  BY <1>1, <1>2, <1>3 DEF SInv

\* Whatever fails, exits and ends in whatever order, a required startup entry is
\* never forgotten: it is being launched, its launch is queued, or the host tracks
\* it and its controller is there to terminate (handleRequiredStartupFailure).
THEOREM SupervisionKept ==
    ASSUME Callers = {}, "late" \notin Faults
    PROVE  Spec => []SupervisionNeverLapses
<1>1. ASSUME SInv, Next PROVE SInv'
  <2>1. IInv'
    <3>1. IInv
      BY <1>1 DEF SInv
    <3> QED
      BY <1>1, <3>1, StartStepKeeps, LaunchKeeps, RunStepKeeps, ControllerStepKeeps, NoticeKeeps
         DEF Next
  <2> QED
    BY <1>1, <2>1, OneLaunchKeeps, OneOwnerKeeps, SupervisionKeeps DEF SInv
<1>2. SInv /\ [Next]_vars => SInv'
  BY <1>1, StutterKeepsSupervision
<1>3. SInv => SupervisionNeverLapses
  BY DEF SInv
<1> QED
  BY <1>2, <1>3, InitSInv, PTL DEF Spec

-----------------------------------------------------------------------------
(* Names.  A step that reserves, restores or gives up names does so for one *)
(* id, and leaves the names of the other ids alone.                         *)

\* What the functions of the store make of the names, called for an id.
Touches(i) ==
    \/ names' = names \/ names' = ClearName(names, i) \/ names' = RestoreName(names, i)
    \/ \E n \in Names \cup {None} :
          names' = UnregisterName(names, n, i) \/ names' = ClearName(UnregisterName(names, n, i), i)
    \/ \E n \in Names : names' = ReserveName(names, n, i)

LEMMA OthersNames ==
    ASSUME InventoryInv, NEW i \in Ids, Touches(i), NEW n \in Names, NEW j \in Ids, j # i, names.map[n] = j
    PROVE  names'.map[n] = j
<1>1. names \in NameMaps /\ Inverse(names)
  BY DEF InventoryInv
<1>2. ClearName(names, i).map[n] = j /\ RestoreName(names, i).map[n] = j
  BY <1>1, NoneAssumption DEF ClearName, RestoreName, NameMaps, Inverse
<1>3. ASSUME NEW m \in Names \cup {None}
      PROVE  /\ UnregisterName(names, m, i).map[n] = j
             /\ ClearName(UnregisterName(names, m, i), i).map[n] = j
  <2>1. UnregisterName(names, m, i) \in NameMaps /\ Inverse(UnregisterName(names, m, i))
    BY <1>1, UnregisterNameKeeps
  <2>2. UnregisterName(names, m, i).map[n] = j
    BY <1>1, NoneAssumption DEF UnregisterName, NameMaps, Inverse
  <2> QED
    BY <2>1, <2>2, NoneAssumption DEF ClearName, NameMaps, Inverse
<1>4. ASSUME NEW m \in Names PROVE ReserveName(names, m, i).map[n] = j
  <2>1. CASE ~CanReserveName(names, m, i)
    BY <2>1 DEF ReserveName
  <2>2. CASE CanReserveName(names, m, i)
    <3>1. m # n
      BY <2>2, NoneAssumption DEF CanReserveName
    <3> QED
      BY <1>1, <1>2, <2>2, <3>1 DEF ReserveName, NameMaps, ClearName
  <2> QED
    BY <2>1, <2>2
<1> QED
  BY <1>2, <1>3, <1>4, Zenon DEF Touches

\* A name that may be reserved is the id's afterwards.
LEMMA ReservedName ==
    ASSUME NEW ns \in NameMaps, Inverse(ns), NEW i \in Ids, NEW n \in Names, CanReserveName(ns, n, i)
    PROVE  ReserveName(ns, n, i).map[n] = i
BY NoneAssumption DEF ReserveName, ClearName, NameMaps, Inverse

\* A start that has reserved its id and name, with an id no other start uses.
Holding == {"init", "dispatching", "connecting", "readying", "started"}
Alone(r) == \A q \in Runs : q # r /\ pc[q] # "idle" => id[q] # id[r]
Holds(r) == pc[r] \in Holding /\ ctl[r] \in {"none", "live"} /\ name[r] # None /\ Alone(r)

\* It has its name, the store has controllers under their own ids, and a start
\* makes its controller when it has dispatched.
NameHeld ==
    /\ \A r \in Runs : Holds(r) => names.map[name[r]] = id[r]
    /\ \A i \in Ids : store[i] # None => id[store[i]] = i /\ pc[store[i]] # "idle"
    /\ \A r \in Runs : pc[r] \in {"resolving", "init", "dispatching"} => ctl[r] = "none"

\* A step of another id does not take the name away.
LEMMA HeldByOther ==
    ASSUME IInv, NameHeld, NEW i \in Ids, Touches(i), NEW r \in Runs, Holds(r), id[r] # i,
           id'[r] = id[r], name'[r] = name[r]
    PROVE  names'.map[name'[r]] = id'[r]
<1>1. name[r] \in Names /\ id[r] \in Ids
  BY DEF Holds, Holding, IInv, StartInv
<1>2. InventoryInv /\ names.map[name[r]] = id[r]
  BY DEF IInv, NameHeld
<1> QED
  BY <1>1, <1>2, OthersNames

\* A start that holds its name after a step held it before, unless it has just reserved it.
LEMMA HeldBefore ==
    ASSUME NEW r \in Runs, Holds(r)', pc[r] \in Holding, ctl[r] \in {"none", "live"}, name'[r] = name[r],
           \A q \in Runs : pc[q] # "idle" => pc'[q] # "idle" /\ id'[q] = id[q]
    PROVE  Holds(r) /\ id'[r] = id[r]
<1>1. id'[r] = id[r]
  BY DEF Holding
<1> QED
  BY <1>1 DEF Holds, Alone

\* The controllers stay under their own ids.
LEMMA OwnIdKeeps ==
    ASSUME IInv, NameHeld, Next, NEW i \in Ids, store'[i] # None
    PROVE  id'[store'[i]] = i /\ pc'[store'[i]] # "idle"
<1>0. /\ store \in [Ids -> Runs \cup {None}] /\ pc \in [Runs -> States] /\ id \in [Runs -> Ids \cup {None}]
      /\ store[i] # None => store[i] \in Runs /\ id[store[i]] = i /\ pc[store[i]] # "idle"
      /\ \A r \in Runs : pc[r] # "idle" => id[r] \in Ids
      /\ \A r \in Runs : ctl[r] # "none" => pc[r] # "idle"
  BY DEF IInv, InventoryInv, StartInv, ControllerInv, NameHeld
<1>1. ASSUME UNCHANGED store, \A q \in Runs : pc[q] # "idle" => pc'[q] # "idle" /\ id'[q] = id[q]
      PROVE  id'[store'[i]] = i /\ pc'[store'[i]] # "idle"
  BY <1>0, <1>1
<1>2. ASSUME NEW r \in Runs,
             \/ ApiStart(r) \/ StartRunner(r) \/ Initialized(r) \/ DispatchFails(r)
             \/ ExitsEarly(r) \/ ReadinessFails(r) \/ Ping(r) \/ Ready(r)
      PROVE  UNCHANGED store /\ \A q \in Runs : pc[q] # "idle" => pc'[q] # "idle" /\ id'[q] = id[q]
  BY <1>0, <1>2 DEF ApiStart, StartRunner, Reserve, Initialized, DispatchFails, ExitsEarly,
                    ReadinessFails, StartFails, Ping, Ready, inventory
<1>3. ASSUME NEW e \in Entries, Launch(e)
      PROVE  UNCHANGED store /\ \A q \in Runs : pc[q] # "idle" => pc'[q] # "idle" /\ id'[q] = id[q]
  BY <1>0, <1>3 DEF Launch, Reserve, inventory, starts
<1>4. ASSUME NEW r \in Runs, Dispatched(r) PROVE id'[store'[i]] = i /\ pc'[store'[i]] # "idle"
  <2>1. /\ store' = [store EXCEPT ![id[r]] = r] /\ pc' = [pc EXCEPT ![r] = "connecting"] /\ id' = id
        /\ pc[r] # "idle"
    BY <1>4 DEF Dispatched
  <2> QED
    BY <1>0, <2>1
<1>5. ASSUME NEW r \in Runs, Terminated(r) \/ Ended(r) PROVE id'[store'[i]] = i /\ pc'[store'[i]] # "idle"
  <2>1. (UNCHANGED store \/ store' = [store EXCEPT ![id[r]] = None]) /\ UNCHANGED <<pc, id>>
    BY <1>5 DEF Terminated, Ended, CleanUp, Delete, inventory, starts
  <2> QED
    BY <1>0, <2>1
<1>6. ASSUME NEW j \in Ids, HandleEndNotice(j) PROVE UNCHANGED <<store, pc, id>>
  BY <1>6 DEF HandleEndNotice, inventory, starts
<1> QED
  BY <1>1, <1>2, <1>3, <1>4, <1>5, <1>6 DEF Next

\* The name is reserved with the id, and no step of another id takes it away.
LEMMA NameHeldKeeps ==
    ASSUME IInv, NameHeld, Next, NEW r \in Runs, Holds(r)'
    PROVE  names'.map[name'[r]] = id'[r]
<1>0. /\ store \in [Ids -> Runs \cup {None}] /\ pc \in [Runs -> States] /\ id \in [Runs -> Ids \cup {None}]
      /\ name \in [Runs -> Names \cup {None}] /\ names \in NameMaps /\ Inverse(names)
      /\ ctl \in [Runs -> {"none", "live", "terminated", "ended"}]
      /\ \A q \in Runs : pc[q] # "idle" => id[q] \in Ids
      /\ \A q \in Runs : ctl[q] # "none" => pc[q] # "idle"
  BY DEF IInv, InventoryInv, StartInv, ControllerInv
<1>1. pc'[r] \in Holding /\ ctl'[r] \in {"none", "live"} /\ name'[r] # None
      /\ \A q \in Runs : q # r /\ pc'[q] # "idle" => id'[q] # id'[r]
  BY DEF Holds, Alone
\* A start that held its name before, and a step for another id.
<1>2. ASSUME NEW i \in Ids, Touches(i), id[r] # i, pc[r] \in Holding, ctl[r] \in {"none", "live"}, name'[r] = name[r],
             \A q \in Runs : pc[q] # "idle" => pc'[q] # "idle" /\ id'[q] = id[q]
      PROVE  names'.map[name'[r]] = id'[r]
  BY <1>2, HeldBefore, HeldByOther
<1>3. ASSUME names' = names, pc[r] \in Holding, ctl[r] \in {"none", "live"}, name'[r] = name[r],
             \A q \in Runs : pc[q] # "idle" => pc'[q] # "idle" /\ id'[q] = id[q]
      PROVE  names'.map[name'[r]] = id'[r]
  BY <1>3, HeldBefore DEF NameHeld
<1>4. ASSUME NEW q \in Runs, ApiStart(q) PROVE names'.map[name'[r]] = id'[r]
  <2>1. /\ pc[q] = "idle" /\ pc' = [pc EXCEPT ![q] = "resolving"] /\ names' = names /\ ctl' = ctl
        /\ \A s \in Runs : s # q => id'[s] = id[s] /\ name'[s] = name[s]
    BY <1>0, <1>4 DEF ApiStart, inventory, controllers
  <2>2. r # q
    BY <1>0, <1>1, <2>1 DEF Holding
  <2> QED
    BY <1>0, <1>1, <1>3, <2>1, <2>2
<1>5. ASSUME NEW q \in Runs, StartRunner(q) PROVE names'.map[name'[r]] = id'[r]
  <2>1. /\ pc[q] = "resolving" /\ id' = id /\ name' = name /\ ctl' = ctl
        /\ pc' = [pc EXCEPT ![q] = pc'[q]] /\ pc'[q] \in {"failed", "init"}
        /\ pc'[q] = "init" => Reserve(id[q], name[q]) /\ ~NameRefused(id[q], name[q])
        /\ names' = names \/ Reserve(id[q], name[q])
    BY <1>0, <1>5 DEF StartRunner, controllers, inventory
  <2>2. Touches(id[q])
    BY <1>0, <2>1 DEF Reserve, Touches
  <2>3. CASE r = q
    <3>1. /\ name[q] # None /\ name[q] \in Names /\ ~NameRefused(id[q], name[q])
          /\ names' = ReserveName(names, name[q], id[q])
      BY <1>0, <1>1, <2>1, <2>3 DEF Reserve, Holding
    <3>2. CanReserveName(names, name[q], id[q])
      BY <3>1 DEF NameRefused
    <3> QED
      BY <1>0, <2>1, <2>3, <3>1, <3>2, ReservedName
  <2>4. CASE r # q
    BY <1>0, <1>1, <1>2, <2>1, <2>2, <2>4
  <2> QED
    BY <2>3, <2>4
<1>6. ASSUME NEW e \in Entries, Launch(e) PROVE names'.map[name'[r]] = id'[r]
  <2>0. e \in Ids /\ EntryName[e] \in Names \cup {None} /\ ctl' = ctl
    BY <1>6, EntryAssumption DEF Launch, controllers
  <2>1. CASE UNCHANGED starts /\ names' = names
    BY <1>0, <1>1, <1>3, <2>0, <2>1 DEF starts
  <2>2. CASE ~(UNCHANGED starts /\ names' = names)
    <3>1. PICK q \in Runs :
             /\ pc[q] = "idle" /\ Reserve(e, EntryName[e]) /\ ~NameRefused(e, EntryName[e])
             /\ pc' = [pc EXCEPT ![q] = "init"]
             /\ id' = [id EXCEPT ![q] = e] /\ name' = [name EXCEPT ![q] = EntryName[e]]
      <4>1. CASE e \in launching
        BY <1>6, <2>2, <4>1 DEF Launch, inventory
      <4>2. CASE e \notin launching
        BY <1>6, <2>2, <4>2 DEF Launch, inventory, Reserve
      <4> QED
        BY <4>1, <4>2
    <3>2. Touches(e)
      BY <2>0, <3>1 DEF Reserve, Touches
    <3>3. CASE r = q
      <4>1. EntryName[e] \in Names /\ name'[r] = EntryName[e] /\ id'[r] = e
            /\ names' = ReserveName(names, EntryName[e], e)
        BY <1>0, <1>1, <2>0, <3>1, <3>3 DEF Reserve
      <4>2. CanReserveName(names, EntryName[e], e)
        BY <3>1, <4>1, NoneAssumption DEF NameRefused
      <4> QED
        BY <1>0, <2>0, <4>1, <4>2, ReservedName
    <3>4. CASE r # q
      BY <1>0, <1>1, <1>2, <2>0, <3>1, <3>2, <3>4
    <3> QED
      BY <3>3, <3>4
  <2> QED
    BY <2>1, <2>2
<1>7. ASSUME NEW q \in Runs, Initialized(q) PROVE names'.map[name'[r]] = id'[r]
  <2>1. /\ pc[q] = "init" /\ id' = id /\ name' = name /\ ctl' = ctl /\ names' = names
        /\ pc' = [pc EXCEPT ![q] = "dispatching"] \/ pc' = [pc EXCEPT ![q] = "failed"]
    BY <1>7 DEF Initialized, inventory, controllers
  <2> QED
    BY <1>0, <1>1, <1>3, <2>1 DEF Holding
<1>8. ASSUME NEW q \in Runs, Dispatched(q) PROVE names'.map[name'[r]] = id'[r]
  <2>1. /\ pc[q] = "dispatching" /\ id' = id /\ name' = name /\ ctl' = [ctl EXCEPT ![q] = "live"]
        /\ names' = RestoreName(names, id[q]) /\ pc' = [pc EXCEPT ![q] = "connecting"]
    BY <1>8 DEF Dispatched
  <2>2. Touches(id[q]) /\ id[q] \in Ids
    BY <1>0, <2>1 DEF Touches
  <2>3. CASE r = q
    <3>1. pc[r] \in Holding /\ ctl[r] \in {"none", "live"}
      BY <2>1, <2>3 DEF NameHeld, Holding
    <3>2. \A s \in Runs : pc[s] # "idle" => pc'[s] # "idle" /\ id'[s] = id[s]
      BY <1>0, <2>1
    <3>3. Holds(r) /\ name'[r] = name[r]
      BY <2>1, <3>1, <3>2, HeldBefore
    <3>4. names.map[name[r]] = id[r] /\ name[r] \in Names
      BY <1>0, <3>3 DEF NameHeld, Holds
    <3> QED
      BY <1>0, <2>1, <2>2, <2>3, <3>4 DEF RestoreName, Inverse, NameMaps
  <2>4. CASE r # q
    <3>1. pc'[q] # "idle" /\ pc[r] \in Holding /\ ctl[r] \in {"none", "live"} /\ id[r] # id[q]
      BY <1>0, <1>1, <2>1, <2>4
    <3>2. \A s \in Runs : pc[s] # "idle" => pc'[s] # "idle" /\ id'[s] = id[s]
      BY <1>0, <2>1
    <3> QED
      BY <1>2, <2>1, <2>2, <3>1, <3>2
  <2> QED
    BY <2>3, <2>4
<1>9. ASSUME NEW q \in Runs, DispatchFails(q) \/ ExitsEarly(q) \/ ReadinessFails(q)
      PROVE  names'.map[name'[r]] = id'[r]
  <2>1. /\ pc[q] # "idle" /\ pc' = [pc EXCEPT ![q] = "failed"] /\ id' = id /\ name' = name /\ ctl' = ctl
        /\ names' = UnregisterName(names, name[q], id[q])
    BY <1>9, FailedStart DEF StartFails, Active, controllers
  <2>2. Touches(id[q]) /\ id[q] \in Ids
    BY <1>0, <2>1 DEF Touches
  <2>3. r # q
    BY <1>0, <1>1, <2>1 DEF Holding
  <2>4. pc[r] \in Holding /\ ctl[r] \in {"none", "live"} /\ id[r] # id[q]
    BY <1>0, <1>1, <2>1, <2>3
  <2>5. \A s \in Runs : pc[s] # "idle" => pc'[s] # "idle" /\ id'[s] = id[s]
    BY <1>0, <2>1
  <2> QED
    BY <1>2, <2>1, <2>2, <2>4, <2>5
<1>10. ASSUME NEW q \in Runs, Ping(q) PROVE names'.map[name'[r]] = id'[r]
  <2> DEFINE owner == store[id[q]]
  <2>1. /\ id' = id /\ name' = name /\ ctl' = ctl /\ ctl[q] # "none"
        /\ names' = IF owner # None /\ name[owner] # None THEN ReserveName(names, name[owner], id[q]) ELSE names
        /\ \A s \in Runs : pc'[s] = pc[s] \/ (pc[s] = "connecting" /\ pc'[s] \in {"started", "readying"})
    BY <1>10 DEF Ping, Reports
  <2>2. id[q] \in Ids /\ pc[q] # "idle" /\ owner \in Runs \cup {None}
    BY <1>0, <2>1
  <2>3. pc[r] \in Holding /\ ctl[r] \in {"none", "live"}
    BY <1>1, <2>1 DEF Holding
  <2>4. \A s \in Runs : pc[s] # "idle" => pc'[s] # "idle" /\ id'[s] = id[s]
    BY <2>1
  <2>5. Touches(id[q])
    BY <1>0, <2>1, <2>2 DEF Touches
  <2>6. CASE r = q
    <3>1. Holds(r)
      BY <2>1, <2>3, <2>4, HeldBefore
    <3>2. names.map[name[r]] = id[r] /\ name[r] \in Names
      BY <1>0, <3>1 DEF NameHeld, Holds
    <3>3. CASE owner # None /\ name[owner] # None
      <4>1. owner = r
        BY <2>2, <2>6, <3>1, <3>3 DEF NameHeld, Holds, Alone
      <4>2. names' = ReserveName(names, name[r], id[r])
        BY <2>1, <2>6, <3>3, <4>1
      <4>3. CanReserveName(names, name[r], id[r])
        BY <3>2 DEF CanReserveName
      <4> QED
        BY <1>0, <2>1, <2>2, <2>6, <3>2, <4>2, <4>3, ReservedName
    <3>4. CASE ~(owner # None /\ name[owner] # None)
      BY <2>1, <3>2, <3>4
    <3> QED
      BY <3>3, <3>4
  <2>7. CASE r # q
    <3>1. id[r] # id[q]
      BY <1>1, <2>1, <2>2, <2>4, <2>7
    <3> HIDE DEF owner
    <3> QED
      BY <1>2, <2>1, <2>2, <2>3, <2>4, <2>5, <3>1
  <2> QED
    BY <2>6, <2>7
<1>11. ASSUME NEW q \in Runs, Ready(q) PROVE names'.map[name'[r]] = id'[r]
  <2>1. /\ names' = names /\ id' = id /\ name' = name /\ ctl' = ctl
        /\ \A s \in Runs : pc'[s] = pc[s] \/ (pc[s] = "readying" /\ pc'[s] = "started")
    BY <1>11 DEF Ready, inventory
  <2>2. pc[r] \in Holding /\ ctl[r] \in {"none", "live"}
    BY <1>1, <2>1 DEF Holding
  <2>3. \A s \in Runs : pc[s] # "idle" => pc'[s] # "idle" /\ id'[s] = id[s]
    BY <2>1
  <2> QED
    BY <1>3, <2>1, <2>2, <2>3
<1>12. ASSUME NEW q \in Runs, Terminated(q) \/ Ended(q) PROVE names'.map[name'[r]] = id'[r]
  <2>1. /\ ctl[q] # "none" /\ pc' = pc /\ id' = id /\ name' = name
        /\ ctl' = [ctl EXCEPT ![q] = "terminated"] \/ ctl' = [ctl EXCEPT ![q] = "ended"]
        /\ \/ names' = names \/ names' = ClearName(names, id[q])
           \/ names' = ClearName(UnregisterName(names, name[q], id[q]), id[q])
    BY <1>12 DEF Terminated, Ended, CleanUp, Delete, inventory, starts
  <2>2. id[q] \in Ids /\ pc[q] # "idle" /\ name[q] \in Names \cup {None}
    BY <1>0, <2>1
  <2>3. Touches(id[q])
    BY <2>1, <2>2 DEF Touches
  <2>4. r # q
    BY <1>0, <1>1, <2>1
  <2>5. pc[r] \in Holding /\ ctl[r] \in {"none", "live"} /\ id[r] # id[q]
    BY <1>0, <1>1, <2>1, <2>2, <2>4
  <2> QED
    BY <1>2, <2>1, <2>2, <2>3, <2>5
<1>13. ASSUME NEW i \in Ids, HandleEndNotice(i) PROVE names'.map[name'[r]] = id'[r]
  <2>1. names' = names /\ pc' = pc /\ id' = id /\ name' = name /\ ctl' = ctl
    BY <1>13 DEF HandleEndNotice, inventory, starts, controllers
  <2> QED
    BY <1>1, <1>3, <2>1
<1> QED
  BY <1>4, <1>5, <1>6, <1>7, <1>8, <1>9, <1>10, <1>11, <1>12, <1>13 DEF Next

\* A start makes its controller when it has dispatched.
LEMMA EarlyKeeps ==
    ASSUME IInv, NameHeld, Next, NEW r \in Runs, pc'[r] \in {"resolving", "init", "dispatching"}
    PROVE  ctl'[r] = "none"
<1>0. /\ pc \in [Runs -> States] /\ ctl \in [Runs -> {"none", "live", "terminated", "ended"}]
      /\ pc[r] \in {"idle", "resolving", "init", "dispatching"} => ctl[r] = "none"
      /\ \A q \in Runs : ctl[q] # "none" => pc[q] \notin {"idle", "resolving", "init", "dispatching"}
  BY DEF IInv, StartInv, ControllerInv, NameHeld
<1>1. ASSUME ctl' = ctl, pc[r] \in {"idle", "resolving", "init", "dispatching"} PROVE ctl'[r] = "none"
  BY <1>0, <1>1
<1>2. ASSUME NEW q \in Runs,
             \/ ApiStart(q) \/ StartRunner(q) \/ Initialized(q) \/ DispatchFails(q)
             \/ ExitsEarly(q) \/ ReadinessFails(q) \/ Ping(q) \/ Ready(q)
      PROVE  ctl' = ctl /\ pc[r] \in {"idle", "resolving", "init", "dispatching"}
  BY <1>0, <1>2 DEF ApiStart, StartRunner, Initialized, DispatchFails, ExitsEarly,
                    ReadinessFails, StartFails, Ping, Ready, controllers
<1>3. ASSUME NEW e \in Entries, Launch(e)
      PROVE  ctl' = ctl /\ pc[r] \in {"idle", "resolving", "init", "dispatching"}
  BY <1>0, <1>3 DEF Launch, controllers, starts
<1>4. ASSUME NEW q \in Runs, Dispatched(q) PROVE ctl'[r] = "none"
  BY <1>0, <1>4 DEF Dispatched
<1>5. ASSUME NEW q \in Runs, Terminated(q) \/ Ended(q) PROVE ctl'[r] = "none"
  <2>1. /\ ctl[q] # "none" /\ pc' = pc
        /\ ctl' = [ctl EXCEPT ![q] = "terminated"] \/ ctl' = [ctl EXCEPT ![q] = "ended"]
    BY <1>5 DEF Terminated, Ended, starts
  <2> QED
    BY <1>0, <2>1
<1>6. ASSUME NEW i \in Ids, HandleEndNotice(i)
      PROVE  ctl' = ctl /\ pc[r] \in {"idle", "resolving", "init", "dispatching"}
  BY <1>6 DEF HandleEndNotice, controllers, starts
<1> QED
  BY <1>1, <1>2, <1>3, <1>4, <1>5, <1>6 DEF Next

LEMMA NameHeldInductive == Spec => [](IInv /\ NameHeld)
<1>1. Init => NameHeld
  BY DEF Init, NameHeld, Holds, Holding
<1>2. IInv /\ NameHeld /\ Next => NameHeld'
  <2> SUFFICES ASSUME IInv, NameHeld, Next PROVE NameHeld'
    OBVIOUS
  <2>1. \A r \in Runs : Holds(r)' => names'.map[name'[r]] = id'[r]
    BY NameHeldKeeps
  <2>2. \A i \in Ids : store'[i] # None => id'[store'[i]] = i /\ pc'[store'[i]] # "idle"
    BY OwnIdKeeps
  <2>3. \A r \in Runs : pc'[r] \in {"resolving", "init", "dispatching"} => ctl'[r] = "none"
    BY EarlyKeeps
  <2> QED
    BY <2>1, <2>2, <2>3 DEF NameHeld
<1>3. NameHeld /\ UNCHANGED vars => NameHeld'
  BY DEF NameHeld, Holds, Alone, vars, inventory, starts, controllers
<1> QED
  BY <1>1, <1>2, <1>3, Inductive, PTL DEF Spec

\* A started instance whose id no other start uses keeps its name while its controller
\* lives, whatever the starts, failures and ends of other ids make of the names
\* (unregisterName(), clearNameForInstance(), reserveName()).
THEOREM NamesKept == Spec => []NameKeptUnderOwnId
<1>1. NameHeld => NameKeptUnderOwnId
  BY DEF NameHeld, NameKeptUnderOwnId, Holds, Holding, Alone
<1> QED
  BY <1>1, NameHeldInductive, PTL

=============================================================================
