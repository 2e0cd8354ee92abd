--------------------------- MODULE CsrEnrollment ---------------------------
(***************************************************************************)
(* The enrollment authority of the manager (csr-enrollment.ts): a grant is *)
(* redeemed for a certificate over the hub's signing request (CSR), on     *)
(* files that outlive the process.                                         *)
(*                                                                         *)
(* redeem() is synchronous, so one redemption runs at a time; it may be    *)
(* cut short between any two of its file operations, and what it left is   *)
(* what the next one finds.  A file replaced by rename is replaced in one  *)
(* step.  Certificates are numbered as they are signed; 0 is none.         *)
(***************************************************************************)
EXTENDS Naturals

CONSTANTS
    Grants,       \* every grant there will be
    Csrs,         \* the signing requests of the hubs
    CsrOf,        \* the request a grant was approved for (csrHash)
    MaxFaults     \* bound: crashes, failing commands and writes, lost answers

ASSUME CsrAssumption == CsrOf \in [Grants -> Csrs]
ASSUME FaultsAssumption == MaxFaults \in Nat

VARIABLES
    granted,      \* the grants approved by the operator: <tokenHash>.json is there
    expired,      \* expiresAt has passed
    response,     \* issuedResponse of each grant; 0 until it is consumed
    lock,         \* <tokenHash>.json.lock: free, held, or held for five minutes
    issued,       \* issued-<csrHash>.issued.json: the certificate on record
    revoked,      \* the requests whose record says revoked
    scratch,      \* the files of an issue that are there: .csr.pem, .ext, .srl
    step,         \* what the redemption in progress does next
    grant,        \* its grant
    made,         \* the certificate it has in hand
    signed,       \* certificates signed so far
    answers,      \* the certificates the hub was answered, by grant
    withdrawn,    \* the certificates the operator revoked
    faults

files == <<granted, expired, response, lock, issued, revoked, scratch>>
vars == <<files, step, grant, made, signed, answers, withdrawn, faults>>

Scratch == {"csr", "ext", "srl"}
Steps == {"idle", "reading", "signing", "recording", "cleaning", "consuming", "unlocking"} \cup Scratch

Init ==
    /\ granted = {} /\ expired = {} /\ revoked = {} /\ withdrawn = {}
    /\ response = [g \in Grants |-> 0] /\ answers = [g \in Grants |-> {}]
    /\ lock = [g \in Grants |-> "free"]
    /\ issued = [c \in Csrs |-> 0]
    /\ scratch = [c \in Csrs |-> {}]
    /\ step = "idle" /\ grant \in Grants /\ made = 0
    /\ signed = 0 /\ faults = 0

Csr == CsrOf[grant]

\* What the interrupted redemption before this one issued: issueCertificate()
\* writes issued-<csrHash>.issued.json, and redeem() looks for
\* issued-<csrHash>.json, which nobody writes.
LookedUp(c) == 0

Fault == faults < MaxFaults /\ faults' = faults + 1

\* approve(), from the operator's command line.
Approve(g) ==
    /\ g \notin granted
    /\ granted' = granted \cup {g}
    /\ UNCHANGED <<expired, response, lock, issued, revoked, scratch,
                   step, grant, made, signed, answers, withdrawn, faults>>

\* redeem(): the lock file is created, or taken over when it is stale.
TakeLock(g) ==
    /\ step = "idle" /\ g \in granted /\ lock[g] \in {"free", "stale"}
    /\ lock' = [lock EXCEPT ![g] = "held"]
    /\ step' = "reading" /\ grant' = g
    /\ UNCHANGED <<granted, expired, response, issued, revoked, scratch,
                   made, signed, answers, withdrawn, faults>>

\* Mutant: a consumed grant is redeemed once more.
ReadAgain ==
    /\ step = "reading"
    /\ IF grant \in expired THEN step' = "unlocking" ELSE step' = "csr"
    /\ UNCHANGED <<files, grant, made, signed, answers, withdrawn, faults>>

\* The record of the grant decides: its response, a refusal, or an issue.
Read ==
    /\ step = "reading"
    /\ IF response[grant] # 0
       THEN step' = "unlocking" /\ made' = response[grant]
       ELSE IF grant \in expired
       THEN step' = "unlocking" /\ UNCHANGED made
       ELSE /\ step' = IF LookedUp(Csr) # 0 THEN "consuming" ELSE "csr"
            /\ made' = LookedUp(Csr)
    /\ UNCHANGED <<files, grant, signed, answers, withdrawn, faults>>

After(file) == IF file = "csr" THEN "ext" ELSE IF file = "ext" THEN "srl" ELSE "signing"

\* Mutant: a file that is already there fails the issue without a cleanup.
WriteLeaving ==
    /\ step \in Scratch
    /\ IF step \in scratch[Csr]
       THEN step' = "unlocking" /\ UNCHANGED scratch
       ELSE /\ scratch' = [scratch EXCEPT ![Csr] = @ \cup {step}]
            /\ step' = After(step)
    /\ UNCHANGED <<granted, expired, response, lock, issued, revoked,
                   grant, made, signed, answers, withdrawn, faults>>

\* issueCertificate() writes its files, which must not be there ("wx").
Write ==
    /\ step \in Scratch
    /\ IF step \in scratch[Csr]
       THEN step' = "cleaning" /\ UNCHANGED scratch
       ELSE /\ scratch' = [scratch EXCEPT ![Csr] = @ \cup {step}]
            /\ step' = After(step)
    /\ UNCHANGED <<granted, expired, response, lock, issued, revoked,
                   grant, made, signed, answers, withdrawn, faults>>

\* openssl signs the request.
Sign ==
    /\ step = "signing"
    /\ signed' = signed + 1 /\ made' = signed + 1
    /\ step' = "recording"
    /\ UNCHANGED <<files, grant, answers, withdrawn, faults>>

\* The certificate goes on record, in the place of an earlier one.
Record ==
    /\ step = "recording"
    /\ issued' = [issued EXCEPT ![Csr] = made]
    /\ revoked' = revoked \ {Csr}
    /\ step' = "cleaning"
    /\ UNCHANGED <<granted, expired, response, lock, scratch,
                   grant, made, signed, answers, withdrawn, faults>>

First(leftover) == IF "csr" \in leftover THEN "csr" ELSE IF "ext" \in leftover THEN "ext" ELSE "srl"

\* The finally of issueCertificate(), one file after the other.
Clean ==
    /\ step = "cleaning"
    /\ \/ /\ scratch[Csr] # {}
          /\ scratch' = [scratch EXCEPT ![Csr] = @ \ {First(@)}]
          /\ UNCHANGED step
       \/ /\ scratch[Csr] = {}
          /\ step' = IF made # 0 THEN "consuming" ELSE "unlocking"
          /\ UNCHANGED scratch
    /\ UNCHANGED <<granted, expired, response, lock, issued, revoked,
                   grant, made, signed, answers, withdrawn, faults>>

\* The grant is consumed, with the response it will always give.
Consume ==
    /\ step = "consuming"
    /\ response' = [response EXCEPT ![grant] = made]
    /\ step' = "unlocking"
    /\ UNCHANGED <<granted, expired, lock, issued, revoked, scratch,
                   grant, made, signed, answers, withdrawn, faults>>

Failing == {"reading", "signing", "recording", "consuming"} \cup Scratch
AfterFailure == IF step \in {"reading", "consuming"} THEN "unlocking" ELSE "cleaning"

\* Mutant: a grant that cannot be written is answered all the same.
FailAnswering ==
    /\ step \in Failing /\ Fault
    /\ IF step = "consuming" THEN UNCHANGED made ELSE made' = 0
    /\ step' = AfterFailure
    /\ UNCHANGED <<files, grant, signed, answers, withdrawn>>

\* openssl fails or the CA is about to expire; a file cannot be written; a record
\* cannot be replaced, as when an interrupted atomicJson() of the same pid left
\* its partial file.
Fail ==
    /\ step \in Failing /\ Fault
    /\ made' = 0
    /\ step' = AfterFailure
    /\ UNCHANGED <<files, grant, signed, answers, withdrawn>>

\* The lock is removed and the request answered; the answer may be lost.
Unlock ==
    /\ step = "unlocking"
    /\ lock' = [lock EXCEPT ![grant] = "free"]
    /\ step' = "idle" /\ made' = 0
    /\ \/ /\ answers' = [answers EXCEPT ![grant] = @ \cup ({made} \ {0})]
          /\ UNCHANGED faults
       \/ made # 0 /\ Fault /\ UNCHANGED answers
    /\ UNCHANGED <<granted, expired, response, issued, revoked, scratch,
                   grant, signed, withdrawn>>

\* The process of the manager is killed, and starts again.
Crash ==
    /\ step # "idle" /\ Fault
    /\ step' = "idle" /\ made' = 0
    /\ UNCHANGED <<files, grant, signed, answers, withdrawn>>

\* A lock that nobody holds gets older than five minutes.
Age(g) ==
    /\ lock[g] = "held" /\ ~(step # "idle" /\ grant = g)
    /\ lock' = [lock EXCEPT ![g] = "stale"]
    /\ UNCHANGED <<granted, expired, response, issued, revoked, scratch,
                   step, grant, made, signed, answers, withdrawn, faults>>

Expire(g) ==
    /\ g \in granted \ expired
    /\ expired' = expired \cup {g}
    /\ UNCHANGED <<granted, response, lock, issued, revoked, scratch,
                   step, grant, made, signed, answers, withdrawn, faults>>

\* revokeClientFingerprint(), synchronous as redeem() is, of a certificate on record.
Revoke(c) ==
    /\ step = "idle" /\ issued[c] # 0 /\ c \notin revoked
    /\ revoked' = revoked \cup {c}
    /\ withdrawn' = withdrawn \cup {issued[c]}
    /\ UNCHANGED <<granted, expired, response, lock, issued, scratch,
                   step, grant, made, signed, answers, faults>>

Work == Read \/ Write \/ Sign \/ Record \/ Clean \/ Consume \/ Unlock

Next ==
    \/ Work \/ Fail \/ Crash
    \/ \E g \in Grants : Approve(g) \/ TakeLock(g) \/ Age(g) \/ Expire(g)
    \/ \E c \in Csrs : Revoke(c)

Spec == Init /\ [][Next]_vars

\* The process runs on, time passes, and a hub keeps asking until it is answered.
FairSpec ==
    /\ Spec
    /\ WF_vars(Work)
    /\ \A g \in Grants : WF_vars(Age(g)) /\ SF_vars(TakeLock(g))

-----------------------------------------------------------------------------
TypeOK ==
    /\ granted \subseteq Grants /\ expired \subseteq granted
    /\ revoked \subseteq Csrs
    /\ response \in [Grants -> 0 .. signed] /\ issued \in [Csrs -> 0 .. signed]
    /\ lock \in [Grants -> {"free", "held", "stale"}]
    /\ scratch \in [Csrs -> SUBSET Scratch]
    /\ step \in Steps /\ grant \in Grants
    /\ signed \in Nat /\ made \in 0 .. signed
    /\ answers \in [Grants -> SUBSET (1 .. signed)]
    /\ withdrawn \subseteq 1 .. signed
    /\ faults \in 0 .. MaxFaults

\* isClientFingerprintAuthorizedForHub(), which a registration asks.
Authorized(c, certificate) == issued[c] = certificate /\ c \notin revoked

OnlyGrant(g) == \A h \in granted \ {g} : CsrOf[h] # CsrOf[g]

\* A grant answers with one certificate, however often it is redeemed and
\* wherever the redemptions before were cut short (redeem, atomicJson).
OneAnswer == \A g \in Grants : answers[g] \subseteq {response[g]}

\* The certificate of a consumed grant lets its hub register until it is
\* revoked, and never after, unless its request was granted twice (redeem,
\* issueCertificate, revokeClientFingerprint).
UsableUntilRevoked ==
    \A g \in granted :
        response[g] # 0 /\ OnlyGrant(g) =>
            (Authorized(CsrOf[g], response[g]) <=> response[g] \notin withdrawn)

\* A hub that asks again and again is answered, unless its grant expires:
\* locks and files that a crash left behind do not stand in the way for ever.
RedemptionCompletes ==
    \A g \in Grants : g \in granted ~> (answers[g] # {} \/ g \in expired)

\* A certificate that was issued before an interruption is the one a retry
\* returns: no second one takes its place (docs of the manager, recovery).
InterruptedIssueIsKept ==
    [][\A c \in Csrs : issued[c] # 0 => issued'[c] = issued[c]]_vars
=============================================================================
