------------------------- MODULE ControlPlaneProofs -------------------------
(***************************************************************************)
(* Theorems of ControlPlane, for any bounds and faults: a hub reports a    *)
(* connection only with a stream, an abandoned hub stays down, and between *)
(* registrations one controller is in charge.                              *)
(***************************************************************************)
EXTENDS ControlPlane, TLAPS

\* The two parts of TypeOK.
FlagsOK ==
    /\ connected \in BOOLEAN /\ abandoned \in BOOLEAN /\ valid \in BOOLEAN
    /\ route \in BOOLEAN /\ removed \in BOOLEAN /\ cut \in BOOLEAN
DataOK ==
    /\ link \in 0..MaxRegistrations /\ generation \in 0..MaxRegistrations
    /\ posted \in 0..MaxRegistrations
    /\ attempt \in {"none", "connecting", "posting"}
    /\ loop \in {"none", "backoff", "attempt"}
    /\ stream \in [Registrations -> {"none", "sent", "refused", "failed",
                                    "open", "broken", "closed"}]
    /\ answer \in {"none", "ok", "error"}
    /\ step \in [Registrations -> {"none", "route", "init", "update", "done", "failed"}]
    /\ previous \in [Registrations -> 0..MaxRegistrations]
    /\ snapshot \in [Registrations -> 0..MaxRegistrations]
    /\ store \in 0..MaxRegistrations /\ inventory \in 0..MaxRegistrations
    /\ disposed \subseteq Registrations /\ told \subseteq Registrations
    /\ faults \in 0..MaxFaults

\* A registration that has not been posted has left no trace.
Fresh == \A r \in Registrations : r > posted => stream[r] = "none" /\ step[r] = "none"

\* A registration that is past its init had its stream accepted.
Accepted == {"open", "broken", "closed"}
PastInit == \A r \in Registrations : step[r] = "update" => stream[r] \in Accepted

\* While the attempt in flight is valid, the stream it was given is still there.
InFlight == attempt = "posting" /\ valid /\ answer # "error"
StreamKept == InFlight /\ stream[posted] \in Accepted => link # 0
OkKept == InFlight /\ answer = "ok" => link # 0

\* An attempt that posts has posted.
Posting == attempt = "posting" => posted \in Registrations

\* The inductive invariant.
Control == Fresh /\ PastInit /\ Posting /\ StreamKept /\ OkKept
IInv == TypeOK /\ Control /\ ConnectedHasStream

LEMMA TypeParts == TypeOK <=> FlagsOK /\ DataOK
  BY Zenon DEF TypeOK, FlagsOK, DataOK

LEMMA FlagsInit == Init => FlagsOK
  BY Zenon DEF Init, FlagsOK

LEMMA DataInit == Init => DataOK
  BY BoundsAssumption, SMT DEF Init, DataOK, Registrations

LEMMA FlagsNext == FlagsOK /\ [Next]_vars => FlagsOK'
<1> SUFFICES ASSUME FlagsOK, [Next]_vars PROVE FlagsOK'
  OBVIOUS
<1> USE DEF FlagsOK, hubVars, wireVars, managerVars
<1>1. CASE AttemptConnects
  BY <1>1, Zenon DEF AttemptConnects
<1>2. CASE AttemptAbandoned
  BY <1>2, Zenon DEF AttemptAbandoned
<1>3. CASE AttemptAnswered
  BY <1>3, Zenon DEF AttemptAnswered
<1>4. CASE BackoffEnds
  BY <1>4, Zenon DEF BackoffEnds
<1>5. ASSUME NEW r \in Registrations, PlatformRequested(r) PROVE FlagsOK'
  BY <1>5, Zenon DEF PlatformRequested
<1>6. ASSUME NEW r \in Registrations, StreamCloses(r) PROVE FlagsOK'
  BY <1>6, Zenon DEF StreamCloses
<1>7. CASE RouteRemoved
  BY <1>7, Zenon DEF RouteRemoved
<1>8. ASSUME NEW r \in Registrations, RouteReady(r) PROVE FlagsOK'
  BY <1>8, Zenon DEF RouteReady
<1>9. ASSUME NEW r \in Registrations, RouteTimesOut(r) PROVE FlagsOK'
  BY <1>9, Zenon DEF RouteTimesOut, Answer
<1>10. ASSUME NEW r \in Registrations, InitSucceeds(r) PROVE FlagsOK'
  BY <1>10, Zenon DEF InitSucceeds, Broken
<1>11. ASSUME NEW r \in Registrations, InitFails(r) PROVE FlagsOK'
  BY <1>11, Zenon DEF InitFails, Rollback, Answer
<1>12. ASSUME NEW r \in Registrations, Registered(r) PROVE FlagsOK'
  BY <1>12, Zenon DEF Registered, Answer
<1>13. ASSUME NEW r \in Registrations, InventoryArrives(r) PROVE FlagsOK'
  BY <1>13, Zenon DEF InventoryArrives
<1>14. CASE DropReceived
  BY <1>14, Zenon DEF DropReceived
<1>15. CASE Disconnect
  BY <1>15, Zenon DEF Disconnect
<1>16. CASE GuestLost
  BY <1>16, Zenon DEF GuestLost, Fault, Broken
<1>17. CASE ManagerRestarts
  BY <1>17, Zenon DEF ManagerRestarts, Fault, Broken
<1>18. CASE PostLost
  BY <1>18, Zenon DEF PostLost, Fault
<1>19. ASSUME NEW r \in Registrations, LeaseTimesOut(r) PROVE FlagsOK'
  BY <1>19, Zenon DEF LeaseTimesOut, Fault, Rollback, Answer
<1>20. CASE UNCHANGED vars
  BY <1>20, Zenon DEF vars
<1>21. CASE AttemptFails
  BY <1>21, Zenon DEF AttemptFails, Fault
<1> QED
  BY <1>1, <1>2, <1>3, <1>4, <1>5, <1>6, <1>7, <1>8, <1>9, <1>10, <1>11,
     <1>12, <1>13, <1>14, <1>15, <1>16, <1>17, <1>18, <1>19, <1>20, <1>21 DEF Next,
     Hub, Manager

LEMMA BrokenTyped ==
  ASSUME DataOK, NEW rs
  PROVE  Broken(rs) \in [Registrations -> {"none", "sent", "refused", "failed",
                                          "open", "broken", "closed"}]
  BY DEF DataOK, Broken

LEMMA DataNext == DataOK /\ [Next]_vars => DataOK'
<1> SUFFICES ASSUME DataOK, [Next]_vars PROVE DataOK'
  OBVIOUS
<1> USE BoundsAssumption DEF DataOK, Registrations, hubVars, wireVars, managerVars
<1>1. CASE AttemptConnects
  BY <1>1 DEF AttemptConnects
<1>2. CASE AttemptAbandoned
  BY <1>2 DEF AttemptAbandoned
<1>3. CASE AttemptAnswered
  BY <1>3 DEF AttemptAnswered
<1>4. CASE BackoffEnds
  BY <1>4 DEF BackoffEnds
<1>5. ASSUME NEW r \in Registrations, PlatformRequested(r) PROVE DataOK'
  <2>1. stream' \in [Registrations -> {"none", "sent", "refused", "failed",
                                      "open", "broken", "closed"}]
    BY <1>5 DEF PlatformRequested
  <2>2. link' \in 0..MaxRegistrations /\ generation' \in 0..MaxRegistrations
    BY <1>5 DEF PlatformRequested
  <2>3. UNCHANGED <<posted, attempt, loop, answer, managerVars, faults>>
    BY <1>5 DEF PlatformRequested
  <2> QED
    BY <2>1, <2>2, <2>3
<1>6. ASSUME NEW r \in Registrations, StreamCloses(r) PROVE DataOK'
  BY <1>6 DEF StreamCloses
<1>7. CASE RouteRemoved
  BY <1>7 DEF RouteRemoved
<1>8. ASSUME NEW r \in Registrations, RouteReady(r) PROVE DataOK'
  BY <1>8 DEF RouteReady
<1>9. ASSUME NEW r \in Registrations, RouteTimesOut(r) PROVE DataOK'
  BY <1>9 DEF RouteTimesOut, Answer
<1>10. ASSUME NEW r \in Registrations, InitSucceeds(r) PROVE DataOK'
  <2>1. stream' \in [Registrations -> {"none", "sent", "refused", "failed",
                                      "open", "broken", "closed"}]
    BY <1>10, BrokenTyped DEF InitSucceeds
  <2>2. disposed' \subseteq Registrations
    <3>1. {previous[r]} \ {0} \subseteq Registrations
      OBVIOUS
    <3>2. disposed' = disposed \cup ({previous[r]} \ {0})
      BY <1>10 DEF InitSucceeds
    <3> QED
      BY <3>1, <3>2
  <2>3. step' \in [Registrations -> {"none", "route", "init", "update", "done", "failed"}]
    BY <1>10 DEF InitSucceeds
  <2>4. UNCHANGED <<link, generation, posted, attempt, loop, answer, previous, snapshot,
                    store, inventory, told, faults>>
    BY <1>10 DEF InitSucceeds
  <2> QED
    BY <2>1, <2>2, <2>3, <2>4
<1>11. ASSUME NEW r \in Registrations, InitFails(r) PROVE DataOK'
  BY <1>11 DEF InitFails, Rollback, Answer
<1>12. ASSUME NEW r \in Registrations, Registered(r) PROVE DataOK'
  BY <1>12 DEF Registered, Answer
<1>13. ASSUME NEW r \in Registrations, InventoryArrives(r) PROVE DataOK'
  BY <1>13 DEF InventoryArrives
<1>14. CASE DropReceived
  BY <1>14 DEF DropReceived
<1>15. CASE Disconnect
  BY <1>15 DEF Disconnect
<1>16. CASE GuestLost
  <2>1. stream' \in [Registrations -> {"none", "sent", "refused", "failed",
                                      "open", "broken", "closed"}]
    BY <1>16, BrokenTyped DEF GuestLost
  <2>2. faults < MaxFaults /\ faults' = faults + 1
    BY <1>16 DEF GuestLost, Fault
  <2> QED
    BY <1>16, <2>1, <2>2 DEF GuestLost
<1>17. CASE ManagerRestarts
  <2>1. stream' \in [Registrations -> {"none", "sent", "refused", "failed",
                                      "open", "broken", "closed"}]
    BY <1>17, BrokenTyped DEF ManagerRestarts
  <2>2. step' \in [Registrations -> {"none", "route", "init", "update", "done", "failed"}]
    BY <1>17 DEF ManagerRestarts
  <2>3. /\ store' = 0 /\ inventory' = 0 /\ disposed' \subseteq Registrations
        /\ answer' \in {"none", "ok", "error"} /\ faults' \in 0..MaxFaults
    BY <1>17 DEF ManagerRestarts, Fault
  <2>4. UNCHANGED <<link, generation, posted, attempt, loop, previous, snapshot, told>>
    BY <1>17 DEF ManagerRestarts
  <2> QED
    BY <2>1, <2>2, <2>3, <2>4
<1>18. CASE PostLost
  BY <1>18 DEF PostLost, Fault
<1>19. ASSUME NEW r \in Registrations, LeaseTimesOut(r) PROVE DataOK'
  BY <1>19 DEF LeaseTimesOut, Fault, Rollback, Answer
<1>20. CASE UNCHANGED vars
  BY <1>20 DEF vars
<1>21. CASE AttemptFails
  BY <1>21 DEF AttemptFails, Fault
<1> QED
  BY <1>1, <1>2, <1>3, <1>4, <1>5, <1>6, <1>7, <1>8, <1>9, <1>10, <1>11,
     <1>12, <1>13, <1>14, <1>15, <1>16, <1>17, <1>18, <1>19, <1>20, <1>21 DEF Next,
     Hub, Manager

LEMMA ControlInit == Init => Control
  BY BoundsAssumption DEF Init, Control, Fresh, PastInit, Posting, StreamKept, OkKept,
     InFlight, Registrations

LEMMA FreshNext == DataOK /\ Fresh /\ [Next]_vars => Fresh'
<1> SUFFICES ASSUME DataOK, Fresh, [Next]_vars PROVE Fresh'
  OBVIOUS
<1> USE BoundsAssumption DEF DataOK, Fresh, Registrations, hubVars, wireVars, managerVars
<1>1. CASE AttemptConnects
  BY <1>1 DEF AttemptConnects
<1>2. CASE AttemptAbandoned
  BY <1>2 DEF AttemptAbandoned
<1>3. CASE AttemptAnswered
  BY <1>3 DEF AttemptAnswered
<1>4. CASE BackoffEnds
  BY <1>4 DEF BackoffEnds
<1>5. ASSUME NEW r \in Registrations, PlatformRequested(r) PROVE Fresh'
  BY <1>5 DEF PlatformRequested
<1>6. ASSUME NEW r \in Registrations, StreamCloses(r) PROVE Fresh'
  BY <1>6 DEF StreamCloses
<1>7. CASE RouteRemoved
  BY <1>7 DEF RouteRemoved
<1>8. ASSUME NEW r \in Registrations, RouteReady(r) PROVE Fresh'
  BY <1>8 DEF RouteReady
<1>9. ASSUME NEW r \in Registrations, RouteTimesOut(r) PROVE Fresh'
  BY <1>9 DEF RouteTimesOut, Answer
<1>10. ASSUME NEW r \in Registrations, InitSucceeds(r) PROVE Fresh'
  BY <1>10 DEF InitSucceeds, Broken
<1>11. ASSUME NEW r \in Registrations, InitFails(r) PROVE Fresh'
  BY <1>11 DEF InitFails, Rollback, Answer
<1>12. ASSUME NEW r \in Registrations, Registered(r) PROVE Fresh'
  BY <1>12 DEF Registered, Answer
<1>13. ASSUME NEW r \in Registrations, InventoryArrives(r) PROVE Fresh'
  BY <1>13 DEF InventoryArrives
<1>14. CASE DropReceived
  BY <1>14 DEF DropReceived
<1>15. CASE Disconnect
  BY <1>15 DEF Disconnect
<1>16. CASE GuestLost
  BY <1>16 DEF GuestLost, Fault, Broken
<1>17. CASE ManagerRestarts
  BY <1>17 DEF ManagerRestarts, Fault, Broken
<1>18. CASE PostLost
  BY <1>18 DEF PostLost, Fault
<1>19. ASSUME NEW r \in Registrations, LeaseTimesOut(r) PROVE Fresh'
  BY <1>19 DEF LeaseTimesOut, Fault, Rollback, Answer
<1>20. CASE UNCHANGED vars
  BY <1>20 DEF vars
<1>21. CASE AttemptFails
  BY <1>21 DEF AttemptFails, Fault
<1> QED
  BY <1>1, <1>2, <1>3, <1>4, <1>5, <1>6, <1>7, <1>8, <1>9, <1>10, <1>11,
     <1>12, <1>13, <1>14, <1>15, <1>16, <1>17, <1>18, <1>19, <1>20, <1>21 DEF Next,
     Hub, Manager

LEMMA PastInitNext == DataOK /\ PastInit /\ Fresh /\ [Next]_vars => PastInit'
<1> SUFFICES ASSUME DataOK, PastInit, Fresh, [Next]_vars PROVE PastInit'
  OBVIOUS
<1> USE BoundsAssumption DEF DataOK, PastInit, Fresh, Accepted, Registrations, hubVars, wireVars,
      managerVars
<1>1. CASE AttemptConnects
  BY <1>1 DEF AttemptConnects
<1>2. CASE AttemptAbandoned
  BY <1>2 DEF AttemptAbandoned
<1>3. CASE AttemptAnswered
  BY <1>3 DEF AttemptAnswered
<1>4. CASE BackoffEnds
  BY <1>4 DEF BackoffEnds
<1>5. ASSUME NEW r \in Registrations, PlatformRequested(r) PROVE PastInit'
  BY <1>5 DEF PlatformRequested
<1>6. ASSUME NEW r \in Registrations, StreamCloses(r) PROVE PastInit'
  BY <1>6 DEF StreamCloses
<1>7. CASE RouteRemoved
  BY <1>7 DEF RouteRemoved
<1>8. ASSUME NEW r \in Registrations, RouteReady(r) PROVE PastInit'
  BY <1>8 DEF RouteReady
<1>9. ASSUME NEW r \in Registrations, RouteTimesOut(r) PROVE PastInit'
  BY <1>9 DEF RouteTimesOut, Answer
<1>10. ASSUME NEW r \in Registrations, InitSucceeds(r) PROVE PastInit'
  BY <1>10 DEF InitSucceeds, Broken
<1>11. ASSUME NEW r \in Registrations, InitFails(r) PROVE PastInit'
  BY <1>11 DEF InitFails, Rollback, Answer
<1>12. ASSUME NEW r \in Registrations, Registered(r) PROVE PastInit'
  BY <1>12 DEF Registered, Answer
<1>13. ASSUME NEW r \in Registrations, InventoryArrives(r) PROVE PastInit'
  BY <1>13 DEF InventoryArrives
<1>14. CASE DropReceived
  BY <1>14 DEF DropReceived
<1>15. CASE Disconnect
  BY <1>15 DEF Disconnect
<1>16. CASE GuestLost
  BY <1>16 DEF GuestLost, Fault, Broken
<1>17. CASE ManagerRestarts
  BY <1>17 DEF ManagerRestarts, Fault, Broken
<1>18. CASE PostLost
  BY <1>18 DEF PostLost, Fault
<1>19. ASSUME NEW r \in Registrations, LeaseTimesOut(r) PROVE PastInit'
  BY <1>19 DEF LeaseTimesOut, Fault, Rollback, Answer
<1>20. CASE UNCHANGED vars
  BY <1>20 DEF vars
<1>21. CASE AttemptFails
  BY <1>21 DEF AttemptFails, Fault
<1> QED
  BY <1>1, <1>2, <1>3, <1>4, <1>5, <1>6, <1>7, <1>8, <1>9, <1>10, <1>11,
     <1>12, <1>13, <1>14, <1>15, <1>16, <1>17, <1>18, <1>19, <1>20, <1>21 DEF Next,
     Hub, Manager

LEMMA PostingNext == DataOK /\ Posting /\ [Next]_vars => Posting'
<1> SUFFICES ASSUME DataOK, Posting, [Next]_vars PROVE Posting'
  OBVIOUS
<1> USE BoundsAssumption DEF DataOK, Posting, Registrations, hubVars, wireVars, managerVars
<1>1. CASE AttemptConnects
  BY <1>1 DEF AttemptConnects
<1>2. CASE AttemptAbandoned
  BY <1>2 DEF AttemptAbandoned
<1>3. CASE AttemptAnswered
  BY <1>3 DEF AttemptAnswered
<1>4. CASE BackoffEnds
  BY <1>4 DEF BackoffEnds
<1>5. ASSUME NEW r \in Registrations, PlatformRequested(r) PROVE Posting'
  BY <1>5 DEF PlatformRequested
<1>6. ASSUME NEW r \in Registrations, StreamCloses(r) PROVE Posting'
  BY <1>6 DEF StreamCloses
<1>7. CASE RouteRemoved
  BY <1>7 DEF RouteRemoved
<1>8. ASSUME NEW r \in Registrations, RouteReady(r) PROVE Posting'
  BY <1>8 DEF RouteReady
<1>9. ASSUME NEW r \in Registrations, RouteTimesOut(r) PROVE Posting'
  BY <1>9 DEF RouteTimesOut, Answer
<1>10. ASSUME NEW r \in Registrations, InitSucceeds(r) PROVE Posting'
  BY <1>10 DEF InitSucceeds, Broken
<1>11. ASSUME NEW r \in Registrations, InitFails(r) PROVE Posting'
  BY <1>11 DEF InitFails, Rollback, Answer
<1>12. ASSUME NEW r \in Registrations, Registered(r) PROVE Posting'
  BY <1>12 DEF Registered, Answer
<1>13. ASSUME NEW r \in Registrations, InventoryArrives(r) PROVE Posting'
  BY <1>13 DEF InventoryArrives
<1>14. CASE DropReceived
  BY <1>14 DEF DropReceived
<1>15. CASE Disconnect
  BY <1>15 DEF Disconnect
<1>16. CASE GuestLost
  BY <1>16 DEF GuestLost, Fault, Broken
<1>17. CASE ManagerRestarts
  BY <1>17 DEF ManagerRestarts, Fault, Broken
<1>18. CASE PostLost
  BY <1>18 DEF PostLost, Fault
<1>19. ASSUME NEW r \in Registrations, LeaseTimesOut(r) PROVE Posting'
  BY <1>19 DEF LeaseTimesOut, Fault, Rollback, Answer
<1>20. CASE UNCHANGED vars
  BY <1>20 DEF vars
<1>21. CASE AttemptFails
  BY <1>21 DEF AttemptFails, Fault
<1> QED
  BY <1>1, <1>2, <1>3, <1>4, <1>5, <1>6, <1>7, <1>8, <1>9, <1>10, <1>11,
     <1>12, <1>13, <1>14, <1>15, <1>16, <1>17, <1>18, <1>19, <1>20, <1>21 DEF Next,
     Hub, Manager

\* StreamKept and OkKept are kept together: a registration that is answered was
\* accepted before.
LEMMA KeptNext == FlagsOK /\ DataOK /\ Control /\ [Next]_vars => StreamKept' /\ OkKept'
<1> SUFFICES ASSUME FlagsOK, DataOK, Control, [Next]_vars PROVE StreamKept' /\ OkKept'
  OBVIOUS
<1> USE BoundsAssumption DEF FlagsOK, DataOK, Control, Fresh, PastInit, Posting, StreamKept, OkKept,
      InFlight, Accepted, Registrations, hubVars, wireVars, managerVars
<1>1. CASE AttemptConnects
  BY <1>1 DEF AttemptConnects
<1>2. CASE AttemptAbandoned
  BY <1>2 DEF AttemptAbandoned
<1>3. CASE AttemptAnswered
  BY <1>3 DEF AttemptAnswered
<1>4. CASE BackoffEnds
  BY <1>4 DEF BackoffEnds
<1>5. ASSUME NEW r \in Registrations, PlatformRequested(r) PROVE StreamKept' /\ OkKept'
  BY <1>5 DEF PlatformRequested
<1>6. ASSUME NEW r \in Registrations, StreamCloses(r) PROVE StreamKept' /\ OkKept'
  BY <1>6 DEF StreamCloses
<1>7. CASE RouteRemoved
  BY <1>7 DEF RouteRemoved
<1>8. ASSUME NEW r \in Registrations, RouteReady(r) PROVE StreamKept' /\ OkKept'
  BY <1>8 DEF RouteReady
<1>9. ASSUME NEW r \in Registrations, RouteTimesOut(r) PROVE StreamKept' /\ OkKept'
  BY <1>9 DEF RouteTimesOut, Answer
<1>10. ASSUME NEW r \in Registrations, InitSucceeds(r) PROVE StreamKept' /\ OkKept'
  BY <1>10 DEF InitSucceeds, Broken
<1>11. ASSUME NEW r \in Registrations, InitFails(r) PROVE StreamKept' /\ OkKept'
  BY <1>11 DEF InitFails, Rollback, Answer
<1>12. ASSUME NEW r \in Registrations, Registered(r) PROVE StreamKept' /\ OkKept'
  BY <1>12 DEF Registered, Answer
<1>13. ASSUME NEW r \in Registrations, InventoryArrives(r) PROVE StreamKept' /\ OkKept'
  BY <1>13 DEF InventoryArrives
<1>14. CASE DropReceived
  BY <1>14 DEF DropReceived
<1>15. CASE Disconnect
  BY <1>15 DEF Disconnect
<1>16. CASE GuestLost
  BY <1>16 DEF GuestLost, Fault, Broken
<1>17. CASE ManagerRestarts
  BY <1>17 DEF ManagerRestarts, Fault, Broken
<1>18. CASE PostLost
  BY <1>18 DEF PostLost, Fault
<1>19. ASSUME NEW r \in Registrations, LeaseTimesOut(r) PROVE StreamKept' /\ OkKept'
  BY <1>19 DEF LeaseTimesOut, Fault, Rollback, Answer
<1>20. CASE UNCHANGED vars
  BY <1>20 DEF vars
<1>21. CASE AttemptFails
  BY <1>21 DEF AttemptFails, Fault
<1> QED
  BY <1>1, <1>2, <1>3, <1>4, <1>5, <1>6, <1>7, <1>8, <1>9, <1>10, <1>11,
     <1>12, <1>13, <1>14, <1>15, <1>16, <1>17, <1>18, <1>19, <1>20, <1>21 DEF Next,
     Hub, Manager

LEMMA ConnectedNext ==
  FlagsOK /\ DataOK /\ OkKept /\ ConnectedHasStream /\ [Next]_vars => ConnectedHasStream'
<1> SUFFICES ASSUME FlagsOK, DataOK, OkKept, ConnectedHasStream, [Next]_vars
             PROVE  ConnectedHasStream'
  OBVIOUS
<1> USE BoundsAssumption DEF FlagsOK, DataOK, OkKept, InFlight, ConnectedHasStream, Registrations,
      hubVars, wireVars, managerVars
<1>1. CASE AttemptConnects
  BY <1>1 DEF AttemptConnects
<1>2. CASE AttemptAbandoned
  BY <1>2 DEF AttemptAbandoned
<1>3. CASE AttemptAnswered
  BY <1>3 DEF AttemptAnswered
<1>4. CASE BackoffEnds
  BY <1>4 DEF BackoffEnds
<1>5. ASSUME NEW r \in Registrations, PlatformRequested(r) PROVE ConnectedHasStream'
  BY <1>5 DEF PlatformRequested
<1>6. ASSUME NEW r \in Registrations, StreamCloses(r) PROVE ConnectedHasStream'
  BY <1>6 DEF StreamCloses
<1>7. CASE RouteRemoved
  BY <1>7 DEF RouteRemoved
<1>8. ASSUME NEW r \in Registrations, RouteReady(r) PROVE ConnectedHasStream'
  BY <1>8 DEF RouteReady
<1>9. ASSUME NEW r \in Registrations, RouteTimesOut(r) PROVE ConnectedHasStream'
  BY <1>9 DEF RouteTimesOut, Answer
<1>10. ASSUME NEW r \in Registrations, InitSucceeds(r) PROVE ConnectedHasStream'
  BY <1>10 DEF InitSucceeds, Broken
<1>11. ASSUME NEW r \in Registrations, InitFails(r) PROVE ConnectedHasStream'
  BY <1>11 DEF InitFails, Rollback, Answer
<1>12. ASSUME NEW r \in Registrations, Registered(r) PROVE ConnectedHasStream'
  BY <1>12 DEF Registered, Answer
<1>13. ASSUME NEW r \in Registrations, InventoryArrives(r) PROVE ConnectedHasStream'
  BY <1>13 DEF InventoryArrives
<1>14. CASE DropReceived
  BY <1>14 DEF DropReceived
<1>15. CASE Disconnect
  BY <1>15 DEF Disconnect
<1>16. CASE GuestLost
  BY <1>16 DEF GuestLost, Fault, Broken
<1>17. CASE ManagerRestarts
  BY <1>17 DEF ManagerRestarts, Fault, Broken
<1>18. CASE PostLost
  BY <1>18 DEF PostLost, Fault
<1>19. ASSUME NEW r \in Registrations, LeaseTimesOut(r) PROVE ConnectedHasStream'
  BY <1>19 DEF LeaseTimesOut, Fault, Rollback, Answer
<1>20. CASE UNCHANGED vars
  BY <1>20 DEF vars
<1>21. CASE AttemptFails
  BY <1>21 DEF AttemptFails, Fault
<1> QED
  BY <1>1, <1>2, <1>3, <1>4, <1>5, <1>6, <1>7, <1>8, <1>9, <1>10, <1>11,
     <1>12, <1>13, <1>14, <1>15, <1>16, <1>17, <1>18, <1>19, <1>20, <1>21 DEF Next,
     Hub, Manager

LEMMA Inductive == Spec => []IInv
<1>1. Init => IInv
  <2>1. Init => ConnectedHasStream
    BY Zenon DEF Init, ConnectedHasStream
  <2> QED
    BY <2>1, TypeParts, FlagsInit, DataInit, ControlInit, Zenon DEF IInv
<1>2. IInv /\ [Next]_vars => IInv'
  <2> SUFFICES ASSUME IInv, [Next]_vars PROVE IInv'
    OBVIOUS
  <2>1. FlagsOK /\ DataOK
    BY TypeParts, Zenon DEF IInv
  <2>2. FlagsOK' /\ DataOK'
    BY <2>1, FlagsNext, DataNext, Zenon
  <2>3. TypeOK'
    BY <2>2, Zenon DEF TypeOK, FlagsOK, DataOK
  <2>4. Control'
    BY <2>1, FreshNext, PastInitNext, PostingNext, KeptNext, Zenon DEF IInv, Control
  <2>5. ConnectedHasStream'
    BY <2>1, ConnectedNext, Zenon DEF IInv, Control
  <2> QED
    BY <2>3, <2>4, <2>5, Zenon DEF IInv
<1> QED
  BY <1>1, <1>2, PTL DEF Spec

\* Every variable of the hub, the wire and the manager keeps to its values.
THEOREM TypeCorrect == Spec => []TypeOK
  BY Inductive, PTL DEF IInv

\* Whatever streams close while a registration is in flight, the hub reports a
\* connection only while it has a communication stream (connectOnce).
THEOREM ConnectionHasStream == Spec => []ConnectedHasStream
  BY Inductive, PTL DEF IInv

\* An abandoned hub never becomes connected again, whatever attempt was in flight
\* (connectOnce).
THEOREM AbandonedForGood == Spec => AbandonedStaysDown
<1>1. [Next]_vars => [abandoned /\ ~connected => ~connected']_vars
  <2> SUFFICES ASSUME Next, abandoned, ~connected PROVE ~connected'
    BY Zenon
  <2> USE DEF hubVars, wireVars, managerVars
  <2>1. CASE AttemptConnects
    BY <2>1, Zenon DEF AttemptConnects
  <2>2. CASE AttemptAbandoned
    BY <2>2, Zenon DEF AttemptAbandoned
  <2>3. CASE AttemptAnswered
    BY <2>3, Zenon DEF AttemptAnswered
  <2>4. CASE BackoffEnds
    BY <2>4, Zenon DEF BackoffEnds
  <2>5. ASSUME NEW r \in Registrations, PlatformRequested(r) PROVE ~connected'
    BY <2>5, Zenon DEF PlatformRequested
  <2>6. ASSUME NEW r \in Registrations, StreamCloses(r) PROVE ~connected'
    BY <2>6, Zenon DEF StreamCloses
  <2>7. CASE RouteRemoved
    BY <2>7, Zenon DEF RouteRemoved
  <2>8. ASSUME NEW r \in Registrations, RouteReady(r) PROVE ~connected'
    BY <2>8, Zenon DEF RouteReady
  <2>9. ASSUME NEW r \in Registrations, RouteTimesOut(r) PROVE ~connected'
    BY <2>9, Zenon DEF RouteTimesOut, Answer
  <2>10. ASSUME NEW r \in Registrations, InitSucceeds(r) PROVE ~connected'
    BY <2>10, Zenon DEF InitSucceeds, Broken
  <2>11. ASSUME NEW r \in Registrations, InitFails(r) PROVE ~connected'
    BY <2>11, Zenon DEF InitFails, Rollback, Answer
  <2>12. ASSUME NEW r \in Registrations, Registered(r) PROVE ~connected'
    BY <2>12, Zenon DEF Registered, Answer
  <2>13. ASSUME NEW r \in Registrations, InventoryArrives(r) PROVE ~connected'
    BY <2>13, Zenon DEF InventoryArrives
  <2>14. CASE DropReceived
    BY <2>14, Zenon DEF DropReceived
  <2>15. CASE Disconnect
    BY <2>15, Zenon DEF Disconnect
  <2>16. CASE GuestLost
    BY <2>16, Zenon DEF GuestLost, Fault, Broken
  <2>17. CASE ManagerRestarts
    BY <2>17, Zenon DEF ManagerRestarts, Fault, Broken
  <2>18. CASE PostLost
    BY <2>18, Zenon DEF PostLost, Fault
  <2>19. ASSUME NEW r \in Registrations, LeaseTimesOut(r) PROVE ~connected'
    BY <2>19, Zenon DEF LeaseTimesOut, Fault, Rollback, Answer
  <2>20. CASE AttemptFails
    BY <2>20, Zenon DEF AttemptFails, Fault
  <2> QED
    BY <2>1, <2>2, <2>3, <2>4, <2>5, <2>6, <2>7, <2>8, <2>9, <2>10, <2>11,
       <2>12, <2>13, <2>14, <2>15, <2>16, <2>17, <2>18, <2>19, <2>20 DEF Next,
       Hub, Manager
<1> QED
  BY <1>1, PTL DEF Spec, AbandonedStaysDown

-----------------------------------------------------------------------------
(* One controller.  The hub takes one stream at a time, so a registration   *)
(* that takes the place of another is accepted only after the stream of the *)
(* other is gone; and without a lost POST the hub waits for one             *)
(* registration before it posts the next.                                   *)

\* What holds between the hub's one stream, the wire and the registrations.
OneStream ==
    /\ \A r \in Registrations :
          /\ stream[r] = "open" => link = r
          /\ stream[r] \in {"sent", "refused"} => step[r] = "init"
          /\ stream[r] \in {"sent", "refused", "open"} => route
          /\ step[r] \in {"update", "done"} => stream[r] \in Accepted
          /\ stream[r] # "none" => step[r] \notin {"none", "route"}
          /\ step[r] = "init" => stream[r] # "none"
    /\ link # 0 => link = generation /\ stream[link] \in {"open", "broken"}

\* The registration in progress is the one that the hub posted last and waits
\* for, unless the hub has stopped.
InTurn ==
    \A r \in Registrations :
        step[r] \in {"route", "init", "update"} =>
            r = posted /\ (abandoned \/ (attempt = "posting" /\ answer = "none"))

\* The controller that waits behind the one that asks for its stream.
Behind(r) == store # 0 /\ step[store] = "init" /\ r = previous[store]

\* The store holds the newest controller; the one behind it is established, and
\* may be put back with the inventory that was put aside.
Replaced ==
    /\ store # 0 => step[store] \in {"init", "update", "done"}
    /\ \A r \in Registrations : step[r] \in {"init", "update"} => store = r
    /\ store # 0 /\ step[store] = "init" =>
          /\ previous[store] # 0 => step[previous[store]] = "done"
          /\ snapshot[store] \in {0, previous[store]}
          /\ previous[store] # 0 /\ stream[store] \in Accepted => stream[previous[store]] # "open"

\* Every controller is disposed, but for the one in the store and the one behind.
Disposed ==
    \A r \in Registrations :
        /\ step[r] \in {"none", "route"} => r \notin disposed
        /\ stream[r] # "none" => (r \in disposed <=> r # store /\ ~Behind(r))

\* Only these two are open, and have the inventory.  The one behind does not give
\* its inventory once the newest has its stream.
InCharge ==
    /\ \A r \in Registrations : stream[r] = "open" => r = store \/ Behind(r)
    /\ inventory # 0 =>
          \/ inventory = store /\ step[store] \in {"update", "done"}
          \/ /\ Behind(inventory)
             /\ stream[store] = "failed" \/ (stream[store] \in {"sent", "refused"} /\ stream[inventory] = "open")

Sole == ~cut => InTurn /\ Replaced /\ Disposed /\ InCharge

\* The hub accepts one stream at a time (handleCommunicationRequest).
LEMMA OneStreamNext == DataOK /\ Fresh /\ PastInit /\ Posting /\ OneStream /\ [Next]_vars => OneStream'
<1> SUFFICES ASSUME DataOK, Fresh, PastInit, Posting, OneStream, [Next]_vars PROVE OneStream'
  OBVIOUS
<1> USE BoundsAssumption DEF DataOK, Fresh, PastInit, Posting, OneStream, Accepted, Registrations, hubVars, wireVars,
      managerVars
<1>1. CASE AttemptConnects
  BY <1>1 DEF AttemptConnects
<1>2. CASE AttemptAbandoned
  BY <1>2 DEF AttemptAbandoned
<1>3. CASE AttemptAnswered
  BY <1>3 DEF AttemptAnswered
<1>4. CASE BackoffEnds
  BY <1>4 DEF BackoffEnds
<1>5. ASSUME NEW r \in Registrations, PlatformRequested(r) PROVE OneStream'
  <2>1. stream[r] = "sent" /\ step[r] = "init" /\ route /\ UNCHANGED <<step, route>>
    BY <1>5 DEF PlatformRequested
  <2>2. CASE link # 0
    <3>1. stream' = [stream EXCEPT ![r] = "refused"] /\ UNCHANGED <<link, generation>>
      BY <1>5, <2>2 DEF PlatformRequested
    <3>2. link # r
      BY <2>1, <2>2
    <3> QED
      BY <2>1, <3>1, <3>2
  <2>3. CASE link = 0
    <3>1. stream' = [stream EXCEPT ![r] = "open"] /\ link' = r /\ generation' = r
      BY <1>5, <2>3 DEF PlatformRequested
    <3>2. \A q \in Registrations : stream[q] # "open"
      BY <2>3
    <3> QED
      BY <2>1, <3>1, <3>2
  <2> QED
    BY <2>2, <2>3
<1>6. ASSUME NEW r \in Registrations, StreamCloses(r) PROVE OneStream'
  BY <1>6 DEF StreamCloses
<1>7. CASE RouteRemoved
  BY <1>7 DEF RouteRemoved
<1>8. ASSUME NEW r \in Registrations, RouteReady(r) PROVE OneStream'
  BY <1>8 DEF RouteReady
<1>9. ASSUME NEW r \in Registrations, RouteTimesOut(r) PROVE OneStream'
  BY <1>9 DEF RouteTimesOut, Answer
<1>10. ASSUME NEW r \in Registrations, InitSucceeds(r) PROVE OneStream'
  BY <1>10 DEF InitSucceeds, Broken
<1>11. ASSUME NEW r \in Registrations, InitFails(r) PROVE OneStream'
  BY <1>11 DEF InitFails, Rollback, Answer
<1>12. ASSUME NEW r \in Registrations, Registered(r) PROVE OneStream'
  BY <1>12 DEF Registered, Answer
<1>13. ASSUME NEW r \in Registrations, InventoryArrives(r) PROVE OneStream'
  BY <1>13 DEF InventoryArrives
<1>14. CASE DropReceived
  BY <1>14 DEF DropReceived
<1>15. CASE Disconnect
  BY <1>15 DEF Disconnect
<1>16. CASE GuestLost
  BY <1>16 DEF GuestLost, Fault, Broken
<1>17. CASE ManagerRestarts
  BY <1>17 DEF ManagerRestarts, Fault, Broken
<1>18. CASE PostLost
  BY <1>18 DEF PostLost, Fault
<1>19. ASSUME NEW r \in Registrations, LeaseTimesOut(r) PROVE OneStream'
  BY <1>19 DEF LeaseTimesOut, Fault, Rollback, Answer
<1>20. CASE UNCHANGED vars
  BY <1>20 DEF vars
<1>21. CASE AttemptFails
  BY <1>21 DEF AttemptFails, Fault
<1> QED
  BY <1>1, <1>2, <1>3, <1>4, <1>5, <1>6, <1>7, <1>8, <1>9, <1>10, <1>11,
     <1>12, <1>13, <1>14, <1>15, <1>16, <1>17, <1>18, <1>19, <1>20, <1>21 DEF Next,
     Hub, Manager

\* The hub posts the next registration when the last one is answered (connectOnce).
LEMMA InTurnNext ==
  ASSUME DataOK, Fresh, Posting, InTurn, [Next]_vars, ~cut'
  PROVE  InTurn'
<1> USE BoundsAssumption DEF DataOK, Fresh, Posting, InTurn, Registrations, hubVars, wireVars, managerVars
<1>1. CASE AttemptConnects
  BY <1>1 DEF AttemptConnects
<1>2. CASE AttemptAbandoned
  BY <1>2 DEF AttemptAbandoned
<1>3. CASE AttemptAnswered
  BY <1>3 DEF AttemptAnswered
<1>4. CASE BackoffEnds
  BY <1>4 DEF BackoffEnds
<1>5. ASSUME NEW r \in Registrations, PlatformRequested(r) PROVE InTurn'
  BY <1>5 DEF PlatformRequested
<1>6. ASSUME NEW r \in Registrations, StreamCloses(r) PROVE InTurn'
  BY <1>6 DEF StreamCloses
<1>7. CASE RouteRemoved
  BY <1>7 DEF RouteRemoved
<1>8. ASSUME NEW r \in Registrations, RouteReady(r) PROVE InTurn'
  BY <1>8 DEF RouteReady
<1>9. ASSUME NEW r \in Registrations, RouteTimesOut(r) PROVE InTurn'
  BY <1>9 DEF RouteTimesOut, Answer
<1>10. ASSUME NEW r \in Registrations, InitSucceeds(r) PROVE InTurn'
  BY <1>10 DEF InitSucceeds, Broken
<1>11. ASSUME NEW r \in Registrations, InitFails(r) PROVE InTurn'
  BY <1>11 DEF InitFails, Rollback, Answer
<1>12. ASSUME NEW r \in Registrations, Registered(r) PROVE InTurn'
  BY <1>12 DEF Registered, Answer
<1>13. ASSUME NEW r \in Registrations, InventoryArrives(r) PROVE InTurn'
  BY <1>13 DEF InventoryArrives
<1>14. CASE DropReceived
  BY <1>14 DEF DropReceived
<1>15. CASE Disconnect
  BY <1>15 DEF Disconnect
<1>16. CASE GuestLost
  BY <1>16 DEF GuestLost, Fault, Broken
<1>17. CASE ManagerRestarts
  BY <1>17 DEF ManagerRestarts, Fault, Broken
<1>18. ~PostLost
  BY Zenon DEF PostLost
<1>19. ASSUME NEW r \in Registrations, LeaseTimesOut(r) PROVE InTurn'
  BY <1>19 DEF LeaseTimesOut, Fault, Rollback, Answer
<1>20. CASE UNCHANGED vars
  BY <1>20 DEF vars
<1>21. CASE AttemptFails
  BY <1>21 DEF AttemptFails, Fault
<1> QED
  BY <1>1, <1>2, <1>3, <1>4, <1>5, <1>6, <1>7, <1>8, <1>9, <1>10, <1>11,
     <1>12, <1>13, <1>14, <1>15, <1>16, <1>17, <1>18, <1>19, <1>20, <1>21 DEF Next,
     Hub, Manager

\* A controller replaces one that is established, and puts it back if it fails.
LEMMA ReplacedNext ==
  ASSUME DataOK, Fresh, OneStream, InTurn, Replaced, InCharge, [Next]_vars
  PROVE  Replaced'
<1> USE BoundsAssumption DEF DataOK, Fresh, OneStream, InTurn, Replaced, InCharge, Behind,
            Accepted, Registrations, hubVars, wireVars, managerVars
<1>1. CASE AttemptConnects
  BY <1>1 DEF AttemptConnects
<1>2. CASE AttemptAbandoned
  BY <1>2 DEF AttemptAbandoned
<1>3. CASE AttemptAnswered
  BY <1>3 DEF AttemptAnswered
<1>4. CASE BackoffEnds
  BY <1>4 DEF BackoffEnds
<1>5. ASSUME NEW r \in Registrations, PlatformRequested(r) PROVE Replaced'
  BY <1>5 DEF PlatformRequested
<1>6. ASSUME NEW r \in Registrations, StreamCloses(r) PROVE Replaced'
  BY <1>6 DEF StreamCloses
<1>7. CASE RouteRemoved
  BY <1>7 DEF RouteRemoved
<1>8. ASSUME NEW r \in Registrations, RouteReady(r) PROVE Replaced'
  BY <1>8 DEF RouteReady
<1>9. ASSUME NEW r \in Registrations, RouteTimesOut(r) PROVE Replaced'
  BY <1>9 DEF RouteTimesOut, Answer
<1>10. ASSUME NEW r \in Registrations, InitSucceeds(r) PROVE Replaced'
  BY <1>10 DEF InitSucceeds, Broken
<1>11. ASSUME NEW r \in Registrations, InitFails(r) PROVE Replaced'
  BY <1>11 DEF InitFails, Rollback, Answer
<1>12. ASSUME NEW r \in Registrations, Registered(r) PROVE Replaced'
  BY <1>12 DEF Registered, Answer
<1>13. ASSUME NEW r \in Registrations, InventoryArrives(r) PROVE Replaced'
  BY <1>13 DEF InventoryArrives
<1>14. CASE DropReceived
  BY <1>14 DEF DropReceived
<1>15. CASE Disconnect
  BY <1>15 DEF Disconnect
<1>16. CASE GuestLost
  BY <1>16 DEF GuestLost, Fault, Broken
<1>17. CASE ManagerRestarts
  BY <1>17 DEF ManagerRestarts, Fault, Broken
<1>18. CASE PostLost
  BY <1>18 DEF PostLost, Fault
<1>19. ASSUME NEW r \in Registrations, LeaseTimesOut(r) PROVE Replaced'
  BY <1>19 DEF LeaseTimesOut, Fault, Rollback, Answer
<1>20. CASE UNCHANGED vars
  BY <1>20 DEF vars
<1>21. CASE AttemptFails
  BY <1>21 DEF AttemptFails, Fault
<1> QED
  BY <1>1, <1>2, <1>3, <1>4, <1>5, <1>6, <1>7, <1>8, <1>9, <1>10, <1>11,
     <1>12, <1>13, <1>14, <1>15, <1>16, <1>17, <1>18, <1>19, <1>20, <1>21 DEF Next,
     Hub, Manager

\* The replaced controller is disposed when its successor has a stream, the failed
\* one in the rollback.
LEMMA DisposedNext ==
  ASSUME DataOK, Fresh, OneStream, InTurn, Replaced, Disposed, [Next]_vars
  PROVE  Disposed'
<1> USE BoundsAssumption DEF DataOK, Fresh, OneStream, InTurn, Replaced, Disposed, Behind,
            Accepted, Registrations, hubVars, wireVars, managerVars
<1>1. CASE AttemptConnects
  BY <1>1 DEF AttemptConnects
<1>2. CASE AttemptAbandoned
  BY <1>2 DEF AttemptAbandoned
<1>3. CASE AttemptAnswered
  BY <1>3 DEF AttemptAnswered
<1>4. CASE BackoffEnds
  BY <1>4 DEF BackoffEnds
<1>5. ASSUME NEW r \in Registrations, PlatformRequested(r) PROVE Disposed'
  BY <1>5 DEF PlatformRequested
<1>6. ASSUME NEW r \in Registrations, StreamCloses(r) PROVE Disposed'
  BY <1>6 DEF StreamCloses
<1>7. CASE RouteRemoved
  BY <1>7 DEF RouteRemoved
<1>8. ASSUME NEW r \in Registrations, RouteReady(r) PROVE Disposed'
  BY <1>8 DEF RouteReady
<1>9. ASSUME NEW r \in Registrations, RouteTimesOut(r) PROVE Disposed'
  BY <1>9 DEF RouteTimesOut, Answer
<1>10. ASSUME NEW r \in Registrations, InitSucceeds(r) PROVE Disposed'
  BY <1>10 DEF InitSucceeds, Broken
<1>11. ASSUME NEW r \in Registrations, InitFails(r) PROVE Disposed'
  BY <1>11 DEF InitFails, Rollback, Answer
<1>12. ASSUME NEW r \in Registrations, Registered(r) PROVE Disposed'
  BY <1>12 DEF Registered, Answer
<1>13. ASSUME NEW r \in Registrations, InventoryArrives(r) PROVE Disposed'
  BY <1>13 DEF InventoryArrives
<1>14. CASE DropReceived
  BY <1>14 DEF DropReceived
<1>15. CASE Disconnect
  BY <1>15 DEF Disconnect
<1>16. CASE GuestLost
  BY <1>16 DEF GuestLost, Fault, Broken
<1>17. CASE ManagerRestarts
  BY <1>17 DEF ManagerRestarts, Fault, Broken
<1>18. CASE PostLost
  BY <1>18 DEF PostLost, Fault
<1>19. ASSUME NEW r \in Registrations, LeaseTimesOut(r) PROVE Disposed'
  BY <1>19 DEF LeaseTimesOut, Fault, Rollback, Answer
<1>20. CASE UNCHANGED vars
  BY <1>20 DEF vars
<1>21. CASE AttemptFails
  BY <1>21 DEF AttemptFails, Fault
<1> QED
  BY <1>1, <1>2, <1>3, <1>4, <1>5, <1>6, <1>7, <1>8, <1>9, <1>10, <1>11,
     <1>12, <1>13, <1>14, <1>15, <1>16, <1>17, <1>18, <1>19, <1>20, <1>21 DEF Next,
     Hub, Manager

\* An inventory comes over the stream of the controller in charge.
LEMMA InChargeNext ==
  ASSUME DataOK, Fresh, OneStream, InTurn, Replaced, InCharge, [Next]_vars
  PROVE  InCharge'
<1> USE BoundsAssumption DEF DataOK, Fresh, OneStream, InTurn, Replaced, InCharge, Behind,
            Accepted, Registrations, hubVars, wireVars, managerVars
<1>1. CASE AttemptConnects
  BY <1>1 DEF AttemptConnects
<1>2. CASE AttemptAbandoned
  BY <1>2 DEF AttemptAbandoned
<1>3. CASE AttemptAnswered
  BY <1>3 DEF AttemptAnswered
<1>4. CASE BackoffEnds
  BY <1>4 DEF BackoffEnds
<1>5. ASSUME NEW r \in Registrations, PlatformRequested(r) PROVE InCharge'
  BY <1>5 DEF PlatformRequested
<1>6. ASSUME NEW r \in Registrations, StreamCloses(r) PROVE InCharge'
  BY <1>6 DEF StreamCloses
<1>7. CASE RouteRemoved
  BY <1>7 DEF RouteRemoved
<1>8. ASSUME NEW r \in Registrations, RouteReady(r) PROVE InCharge'
  BY <1>8 DEF RouteReady
<1>9. ASSUME NEW r \in Registrations, RouteTimesOut(r) PROVE InCharge'
  BY <1>9 DEF RouteTimesOut, Answer
<1>10. ASSUME NEW r \in Registrations, InitSucceeds(r) PROVE InCharge'
  BY <1>10 DEF InitSucceeds, Broken
<1>11. ASSUME NEW r \in Registrations, InitFails(r) PROVE InCharge'
  BY <1>11 DEF InitFails, Rollback, Answer
<1>12. ASSUME NEW r \in Registrations, Registered(r) PROVE InCharge'
  BY <1>12 DEF Registered, Answer
<1>13. ASSUME NEW r \in Registrations, InventoryArrives(r) PROVE InCharge'
  BY <1>13 DEF InventoryArrives
<1>14. CASE DropReceived
  BY <1>14 DEF DropReceived
<1>15. CASE Disconnect
  BY <1>15 DEF Disconnect
<1>16. CASE GuestLost
  BY <1>16 DEF GuestLost, Fault, Broken
<1>17. CASE ManagerRestarts
  BY <1>17 DEF ManagerRestarts, Fault, Broken
<1>18. CASE PostLost
  BY <1>18 DEF PostLost, Fault
<1>19. ASSUME NEW r \in Registrations, LeaseTimesOut(r) PROVE InCharge'
  BY <1>19 DEF LeaseTimesOut, Fault, Rollback, Answer
<1>20. CASE UNCHANGED vars
  BY <1>20 DEF vars
<1>21. CASE AttemptFails
  BY <1>21 DEF AttemptFails, Fault
<1> QED
  BY <1>1, <1>2, <1>3, <1>4, <1>5, <1>6, <1>7, <1>8, <1>9, <1>10, <1>11,
     <1>12, <1>13, <1>14, <1>15, <1>16, <1>17, <1>18, <1>19, <1>20, <1>21 DEF Next,
     Hub, Manager

\* A POST that was lost stays lost.
LEMMA CutStays == [Next]_vars /\ ~cut' => ~cut
<1> SUFFICES ASSUME [Next]_vars, ~cut' PROVE ~cut
  OBVIOUS
<1>1. cut' = cut \/ PostLost
  BY DEF Next, Hub, Manager, AttemptConnects, AttemptAbandoned, AttemptAnswered, AttemptFails, BackoffEnds,
     PlatformRequested, StreamCloses, RouteRemoved, RouteReady, RouteTimesOut, InitSucceeds, InitFails,
     Registered, InventoryArrives, DropReceived, Disconnect, GuestLost, ManagerRestarts, LeaseTimesOut, vars
<1>2. ~PostLost
  BY Zenon DEF PostLost
<1> QED
  BY <1>1, <1>2, Zenon

LEMMA SoleInit == Init => OneStream /\ Sole
<1> SUFFICES ASSUME Init PROVE OneStream /\ Sole
  OBVIOUS
<1> QED
  BY BoundsAssumption DEF Init, OneStream, Sole, InTurn, Replaced, Disposed, InCharge, Behind, Accepted,
     Registrations

LEMMA SoleInductive == Spec => [](OneStream /\ Sole)
<1>1. IInv /\ OneStream /\ Sole /\ [Next]_vars => OneStream' /\ Sole'
  <2> SUFFICES ASSUME IInv, OneStream, Sole, [Next]_vars PROVE OneStream' /\ Sole'
    OBVIOUS
  <2>1. DataOK /\ Fresh /\ PastInit /\ Posting
    BY TypeParts, Zenon DEF IInv, Control
  <2>2. OneStream'
    BY <2>1, OneStreamNext, Zenon
  <2>3. ASSUME ~cut' PROVE InTurn' /\ Replaced' /\ Disposed' /\ InCharge'
    <3>1. InTurn /\ Replaced /\ Disposed /\ InCharge
      BY <2>3, CutStays, Zenon DEF Sole
    <3> QED
      BY <2>1, <2>3, <3>1, InTurnNext, ReplacedNext, DisposedNext, InChargeNext, Zenon
  <2> QED
    BY <2>2, <2>3, Zenon DEF Sole
<1> QED
  BY <1>1, SoleInit, Inductive, PTL DEF Spec

\* Between registrations exactly one controller is in charge, and it is the one
\* that the hub talks to, whatever failed, was rolled back or restarted before
\* (handleSthRegistration, rollbackFailedSthRegistration).
THEOREM InChargeAlone == Spec => []OneController
<1>1. IInv /\ OneStream /\ Sole => OneController
  <2> SUFFICES ASSUME IInv, OneStream, Sole, ~Registering, ~cut
               PROVE  /\ connected /\ stream[link] = "open" => store = link
                      /\ inventory \in {0, store}
                      /\ \A r \in Registrations : stream[r] # "none" => (r \in disposed) = (r # store)
    BY Zenon DEF OneController
  <2>1. DataOK /\ ConnectedHasStream
    BY TypeParts, Zenon DEF IInv
  <2>2. Disposed /\ InCharge
    BY Zenon DEF Sole
  <2>3. \A r \in Registrations : ~Behind(r)
    BY <2>1, BoundsAssumption DEF Registering, Behind, DataOK, Registrations
  <2>4. connected => link \in Registrations
    BY <2>1, BoundsAssumption DEF DataOK, ConnectedHasStream, Registrations
  <2>5. connected /\ stream[link] = "open" => store = link
    BY <2>2, <2>3, <2>4, Zenon DEF InCharge
  <2>6. inventory \in {0, store}
    BY <2>1, <2>2, <2>3, BoundsAssumption DEF InCharge, DataOK, Registrations
  <2>7. \A r \in Registrations : stream[r] # "none" => (r \in disposed) = (r # store)
    BY <2>2, <2>3 DEF Disposed
  <2> QED
    BY <2>5, <2>6, <2>7
<1> QED
  BY <1>1, Inductive, SoleInductive, PTL
=============================================================================
