------------------------ MODULE CsrEnrollmentProofs ------------------------
(* Theorems of CsrEnrollment, for any grants, requests and faults.         *)
EXTENDS CsrEnrollment, TLAPS

\* A redemption in progress has a grant that was approved, and nothing in hand
\* before it has signed.
Under ==
    /\ step # "idle" => grant \in granted
    /\ step \notin {"recording", "cleaning", "consuming", "unlocking"} => made = 0
    /\ step \in {"recording", "consuming"} => made # 0
\* Only a grant that is not consumed is worked on; a consumed one answers.
Unconsumed ==
    /\ step \notin {"idle", "reading", "unlocking"} => response[grant] = 0
    /\ step = "unlocking" /\ made # 0 => made = response[grant]
\* What is about to go on record is new, and then it is on record.
Fresh == step = "recording" => made \notin withdrawn /\ \A c \in Csrs : issued[c] # made
InHand == step \in {"cleaning", "consuming"} /\ made # 0 => issued[Csr] = made
\* No certificate is on record twice, and it is withdrawn iff its record says so.
Distinct == \A c, d \in Csrs : c # d /\ issued[c] # 0 => issued[c] # issued[d]
Marked == \A c \in Csrs : issued[c] # 0 => (c \in revoked <=> issued[c] \in withdrawn)
\* The response of a grant is on record, unless its request was granted twice.
OnRecord ==
    \A g \in granted : response[g] # 0 /\ OnlyGrant(g) => issued[CsrOf[g]] = response[g]
Approved == \A g \in Grants : response[g] # 0 => g \in granted

Worked == TypeOK /\ Under /\ Unconsumed
IInv ==
    /\ Worked /\ OneAnswer
    /\ Fresh /\ InHand /\ Distinct /\ Marked /\ OnRecord /\ Approved

LEMMA CsrTyped == TypeOK => Csr \in Csrs
  BY CsrAssumption DEF TypeOK, Csr

LEMMA InitHolds == Init => IInv
<1> SUFFICES ASSUME Init PROVE IInv
  OBVIOUS
<1>1. TypeOK
  BY FaultsAssumption DEF Init, TypeOK, Steps
<1>2. Under /\ Unconsumed /\ Fresh /\ InHand
  BY DEF Init, Under, Unconsumed, Fresh, InHand
<1>3. OneAnswer /\ Distinct /\ Marked /\ OnRecord /\ Approved
  BY DEF Init, OneAnswer, Distinct, Marked, OnRecord, Approved
<1> QED
  BY <1>1, <1>2, <1>3 DEF IInv, Worked

-----------------------------------------------------------------------------
LEMMA TypeStep == TypeOK /\ [Next]_vars => TypeOK'
<1> SUFFICES ASSUME TypeOK, [Next]_vars PROVE TypeOK'
  OBVIOUS
<1> USE CsrTyped, FaultsAssumption DEF TypeOK, Steps, Scratch
<1>1. CASE Read
  BY <1>1 DEF Read, LookedUp, files
<1>2. CASE Write
  BY <1>2 DEF Write, After
<1>3. CASE Sign
  BY <1>3 DEF Sign, files
<1>4. CASE Record
  BY <1>4 DEF Record
<1>5. CASE Clean
  BY <1>5 DEF Clean
<1>6. CASE Consume
  BY <1>6 DEF Consume
<1>7. CASE Unlock
  BY <1>7 DEF Unlock, Fault
<1>8. CASE Fail \/ Crash
  <2>1. faults' \in 0 .. MaxFaults /\ made' = 0 /\ step' \in Steps
    BY <1>8 DEF Fail, Failing, AfterFailure, Crash, Fault
  <2>2. UNCHANGED <<files, grant, signed, answers, withdrawn>>
    BY <1>8, Zenon DEF Fail, Failing, AfterFailure, Crash
  <2> QED
    BY <2>1, <2>2 DEF files
<1>9. CASE \E g \in Grants : Approve(g)
  BY <1>9 DEF Approve
<1>10. CASE \E g \in Grants : TakeLock(g)
  BY <1>10 DEF TakeLock
<1>11. CASE \E g \in Grants : Age(g)
  BY <1>11 DEF Age
<1>12. CASE \E g \in Grants : Expire(g)
  BY <1>12 DEF Expire
<1>13. CASE \E c \in Csrs : Revoke(c)
  <2>1. PICK c \in Csrs : Revoke(c)
    BY <1>13, Zenon
  <2>2. issued[c] \in 1 .. signed
    BY <2>1 DEF Revoke
  <2> QED
    BY <2>1, <2>2 DEF Revoke
<1>14. CASE UNCHANGED vars
  BY <1>14 DEF vars, files
<1> QED
  BY <1>1, <1>2, <1>3, <1>4, <1>5, <1>6, <1>7, <1>8, <1>9, <1>10, <1>11, <1>12, <1>13, <1>14, Zenon
     DEF Next, Work

\* Which redemption is in progress, and what it has in hand.
LEMMA WorkStep == Worked /\ Approved /\ [Next]_vars => Under' /\ Unconsumed' /\ Approved'
<1> SUFFICES ASSUME Worked, Approved, [Next]_vars PROVE Under' /\ Unconsumed' /\ Approved'
  OBVIOUS
<1>0. TypeOK /\ Under /\ Unconsumed /\ grant \in Grants /\ made \in 0 .. signed /\ signed \in Nat
  BY DEF Worked, TypeOK
<1> USE <1>0 DEF Under, Unconsumed, Approved
<1>1. CASE Read
  BY <1>1 DEF Read, LookedUp, files
<1>2. CASE Write
  BY <1>2 DEF Write, After, Scratch
<1>3. CASE Sign
  BY <1>3 DEF Sign, files
<1>4. CASE Record
  BY <1>4 DEF Record
<1>5. CASE Clean
  BY <1>5 DEF Clean
<1>6. CASE Consume
  BY <1>6 DEF Consume, TypeOK
<1>7. CASE Unlock
  BY <1>7 DEF Unlock
<1>8. CASE Fail
  BY <1>8 DEF Fail, Failing, AfterFailure, Scratch, files
<1>9. CASE Crash
  BY <1>9 DEF Crash, files
<1>10. CASE \E g \in Grants : Approve(g)
  BY <1>10 DEF Approve
<1>11. CASE \E g \in Grants : TakeLock(g)
  BY <1>11 DEF TakeLock
<1>12. CASE \E g \in Grants : Age(g) \/ Expire(g)
  BY <1>12 DEF Age, Expire
<1>13. CASE \E c \in Csrs : Revoke(c)
  BY <1>13 DEF Revoke
<1>14. CASE UNCHANGED vars
  BY <1>14 DEF vars, files
<1> QED
  BY <1>1, <1>2, <1>3, <1>4, <1>5, <1>6, <1>7, <1>8, <1>9, <1>10, <1>11, <1>12, <1>13, <1>14, Zenon
     DEF Next, Work

\* A response is given once, by Consume, to a grant that has answered nothing.
LEMMA AnswerStep == Worked /\ OneAnswer /\ [Next]_vars => OneAnswer'
<1> SUFFICES ASSUME Worked, OneAnswer, [Next]_vars, NEW g \in Grants
             PROVE  answers'[g] \subseteq {response'[g]}
  BY Zenon DEF OneAnswer
<1>1. /\ TypeOK /\ Under /\ Unconsumed /\ answers[g] \subseteq {response[g]}
      /\ answers[g] \subseteq 1 .. signed
  BY DEF Worked, OneAnswer, TypeOK
<1>2. CASE Consume
  <2>1. answers' = answers /\ response' = [response EXCEPT ![grant] = made]
    BY <1>2 DEF Consume
  <2>2. CASE g = grant
    <3>1. response[g] = 0
      BY <1>1, <1>2, <2>2 DEF Consume, Unconsumed
    <3>2. answers[g] = {}
      BY <1>1, <3>1
    <3> QED
      BY <2>1, <3>2
  <2>3. CASE g # grant
    BY <1>1, <2>1, <2>3 DEF TypeOK
  <2> QED
    BY <2>2, <2>3
<1>3. CASE Unlock
  <2>1. response' = response /\ step = "unlocking"
    BY <1>3 DEF Unlock
  <2>2. answers'[g] \subseteq answers[g] \cup (IF g = grant THEN {made} \ {0} ELSE {})
    BY <1>1, <1>3 DEF Unlock, TypeOK
  <2>3. g = grant /\ made # 0 => made = response[g]
    BY <1>1, <2>1 DEF Unconsumed
  <2> QED
    BY <1>1, <2>1, <2>2, <2>3
<1>4. CASE UNCHANGED <<answers, response>>
  BY <1>1, <1>4
<1>5. Consume \/ Unlock \/ UNCHANGED <<answers, response>>
  BY DEF Next, Work, Read, Write, Sign, Record, Clean, Fail, Failing, AfterFailure, Crash,
         Approve, TakeLock, Age, Expire,
         Revoke, vars, files
<1> QED
  BY <1>2, <1>3, <1>4, <1>5

-----------------------------------------------------------------------------
(* The records.  Two steps change them, Record and Revoke.                 *)

OnFile == Fresh /\ InHand /\ Distinct /\ Marked

\* The steps that leave the records alone.
LEMMA QuietStep ==
  ASSUME Worked, OnFile, [Next]_vars, UNCHANGED <<issued, revoked, withdrawn>>
  PROVE  OnFile'
<1>1. TypeOK /\ Under /\ Unconsumed /\ Csr \in Csrs
  BY CsrTyped DEF Worked
<1>2. Distinct' /\ Marked'
  BY Zenon DEF OnFile, Distinct, Marked
<1>3. Fresh'
  <2>1. CASE Sign
    <3>1. made' = signed + 1 /\ signed \in Nat
      BY <1>1, <2>1 DEF Sign, TypeOK
    <3>2. made' \notin withdrawn /\ \A c \in Csrs : issued[c] # made'
      BY <1>1, <3>1 DEF TypeOK
    <3> QED
      BY <3>2 DEF Fresh
  <2>2. CASE ~Sign
    <3>1. step' = "recording" => step = "recording" /\ made' = made
      BY <1>1, <2>2 DEF Under, Next, Work, Read, LookedUp, Write, After, Scratch, Record,
                        Clean, Consume,
             Unlock, Fail, Failing, AfterFailure, Crash, Approve, TakeLock, Age, Expire, Revoke, vars
    <3> QED
      BY <3>1 DEF OnFile, Fresh
  <2> QED
    BY <2>1, <2>2
<1>4. InHand'
  <2>1. step' \in {"cleaning", "consuming"} /\ made' # 0 =>
            (step \in {"cleaning", "consuming"} \/ Record) /\ made' = made /\ grant' = grant
    BY <1>1 DEF Under, Next, Work, Read, LookedUp, Write, After, Scratch, Sign, Clean, Consume,
           Unlock, Fail, Failing, AfterFailure, Crash, Approve, TakeLock, Age, Expire, Revoke, Record, vars
  <2>2. CASE Record
    <3>1. issued'[Csr] = made /\ grant' = grant /\ made' = made
      BY <1>1, <2>2 DEF Record, TypeOK
    <3> QED
      BY <3>1 DEF InHand, Csr
  <2>3. CASE ~Record
    BY <2>1, <2>3 DEF OnFile, InHand, Csr
  <2> QED
    BY <2>2, <2>3
<1> QED
  BY <1>2, <1>3, <1>4 DEF OnFile

LEMMA RecordStep ==
  ASSUME Worked, OnFile, Record
  PROVE  OnFile'
<1>1. /\ TypeOK /\ Csr \in Csrs /\ issued' = [issued EXCEPT ![Csr] = made]
      /\ revoked' = revoked \ {Csr} /\ UNCHANGED <<made, withdrawn, grant>> /\ step' = "cleaning"
      /\ \A c \in Csrs : issued[c] # made
      /\ made \notin withdrawn
  BY CsrTyped DEF Worked, Record, OnFile, Fresh
<1>2. \A c \in Csrs : issued'[c] = IF c = Csr THEN made ELSE issued[c]
  BY <1>1 DEF TypeOK
<1>3. Fresh'
  BY <1>1 DEF Fresh
<1>4. InHand'
  BY <1>1, <1>2 DEF InHand, Csr
<1>5. Distinct'
  BY <1>1, <1>2 DEF OnFile, Distinct
<1>6. Marked'
  BY <1>1, <1>2 DEF OnFile, Marked
<1> QED
  BY <1>3, <1>4, <1>5, <1>6 DEF OnFile

LEMMA RevokeStep ==
  ASSUME Worked, OnFile, NEW c \in Csrs, Revoke(c)
  PROVE  OnFile'
<1>1. /\ step' = "idle" /\ issued' = issued /\ issued[c] # 0
      /\ revoked' = revoked \cup {c} /\ withdrawn' = withdrawn \cup {issued[c]}
  BY DEF Revoke
<1>2. Fresh' /\ InHand'
  BY <1>1 DEF Fresh, InHand
<1>3. Distinct'
  BY <1>1 DEF OnFile, Distinct
<1>4. Marked'
  <2> SUFFICES ASSUME NEW d \in Csrs, issued[d] # 0
               PROVE  d \in revoked' <=> issued[d] \in withdrawn'
    BY <1>1 DEF Marked
  <2>1. CASE d = c
    BY <1>1, <2>1
  <2>2. CASE d # c
    <3>1. issued[d] # issued[c]
      BY <1>1, <2>2 DEF OnFile, Distinct
    <3>2. d \in revoked <=> issued[d] \in withdrawn
      BY DEF OnFile, Marked
    <3> QED
      BY <1>1, <2>2, <3>1, <3>2
  <2> QED
    BY <2>1, <2>2
<1> QED
  BY <1>2, <1>3, <1>4 DEF OnFile

LEMMA FileStep == Worked /\ OnFile /\ [Next]_vars => OnFile'
<1>1. [Next]_vars => Record \/ (\E c \in Csrs : Revoke(c)) \/ UNCHANGED <<issued, revoked, withdrawn>>
  BY DEF Next, Work, Read, Write, Sign, Clean, Consume, Unlock, Fail, Failing, AfterFailure,
         Crash, Approve, TakeLock,
         Age, Expire, vars, files
<1> QED
  BY <1>1, QuietStep, RecordStep, RevokeStep, Zenon

\* A consumed grant keeps its place on record as long as no other grant is for
\* its request: only the redemption of a grant that is not consumed replaces it.
LEMMA PlaceStep == Worked /\ OnFile /\ Approved /\ OnRecord /\ [Next]_vars => OnRecord'
<1> SUFFICES ASSUME Worked, OnFile, Approved, OnRecord, [Next]_vars,
                    NEW g \in granted', response'[g] # 0, OnlyGrant(g)'
             PROVE  issued'[CsrOf[g]] = response'[g]
  BY Zenon DEF OnRecord
<1>1. TypeOK /\ TypeOK' /\ Under /\ Unconsumed /\ Csr \in Csrs
  BY CsrTyped, TypeStep DEF Worked
<1>2. granted \subseteq granted' /\ g \in Grants
  BY <1>1 DEF TypeOK, Next, Work, Read, Write, Sign, Record, Clean, Consume, Unlock, Fail,
              Failing, AfterFailure, Crash, Approve, TakeLock,
         Age, Expire, Revoke, vars, files
<1>3. OnlyGrant(g)
  BY <1>2 DEF OnlyGrant
<1>4. CASE Consume
  <2>1. issued' = issued /\ response' = [response EXCEPT ![grant] = made] /\ issued[Csr] = made /\ granted' = granted
    BY <1>1, <1>4 DEF Consume, OnFile, InHand, Under
  <2>2. CASE g = grant
    BY <1>1, <1>2, <2>1, <2>2 DEF TypeOK, Csr
  <2>3. CASE g # grant
    <3>1. response'[g] = response[g]
      BY <1>1, <2>1, <2>3 DEF TypeOK
    <3> QED
      BY <1>3, <2>1, <3>1 DEF OnRecord
  <2> QED
    BY <2>2, <2>3
<1>5. CASE Record
  <2>1. /\ issued' = [issued EXCEPT ![Csr] = made] /\ response' = response /\ granted' = granted
        /\ response[grant] = 0 /\ grant \in granted
    BY <1>1, <1>5 DEF Record, Unconsumed, Under
  <2>2. g # grant /\ CsrOf[grant] # CsrOf[g]
    BY <1>3, <2>1 DEF OnlyGrant
  <2>3. issued'[CsrOf[g]] = issued[CsrOf[g]]
    BY <1>1, <2>1, <2>2 DEF TypeOK, Csr
  <2> QED
    BY <1>3, <2>1, <2>3 DEF OnRecord
<1>6. CASE UNCHANGED <<issued, response>>
  <2>1. g \in granted
    BY <1>2, <1>6 DEF Approved
  <2> QED
    BY <1>3, <1>6, <2>1 DEF OnRecord
<1>7. Consume \/ Record \/ UNCHANGED <<issued, response>>
  BY DEF Next, Work, Read, Write, Sign, Clean, Unlock, Fail, Failing, AfterFailure, Crash,
         Approve, TakeLock, Age, Expire,
         Revoke, vars, files
<1> QED
  BY <1>4, <1>5, <1>6, <1>7

-----------------------------------------------------------------------------
LEMMA Inductive == IInv /\ [Next]_vars => IInv'
  BY TypeStep, WorkStep, AnswerStep, FileStep, PlaceStep, Zenon DEF IInv, Worked, OnFile

LEMMA AlwaysIInv == Spec => []IInv
  BY InitHolds, Inductive, PTL DEF Spec

\* Files, locks, certificates and the redemption in progress keep to their values.
THEOREM TypeCorrect == Spec => []TypeOK
<1>1. IInv => TypeOK
  BY Zenon DEF IInv, Worked
<1> QED
  BY <1>1, AlwaysIInv, PTL

\* A grant answers with one certificate, wherever earlier redemptions were cut
\* short (redeem: the response is on file before it is sent).
THEOREM AnswersAgree == Spec => []OneAnswer
<1>1. IInv => OneAnswer
  BY Zenon DEF IInv
<1> QED
  BY <1>1, AlwaysIInv, PTL

\* A hub can register with what its only grant gave it until the certificate is
\* revoked, and never after (issueCertificate, revokeClientFingerprint).
THEOREM UsableCertificates == Spec => []UsableUntilRevoked
<1>1. IInv => UsableUntilRevoked
  <2> SUFFICES ASSUME IInv, NEW g \in granted, response[g] # 0, OnlyGrant(g)
               PROVE  Authorized(CsrOf[g], response[g]) <=> response[g] \notin withdrawn
    BY DEF UsableUntilRevoked
  <2>1. issued[CsrOf[g]] = response[g]
    BY DEF IInv, OnRecord
  <2>2. CsrOf[g] \in Csrs
    BY CsrAssumption DEF IInv, Worked, TypeOK
  <2>3. CsrOf[g] \in revoked <=> response[g] \in withdrawn
    BY <2>1, <2>2 DEF IInv, Marked
  <2> QED
    BY <2>1, <2>3 DEF Authorized
<1> QED
  BY <1>1, AlwaysIInv, PTL
=============================================================================
