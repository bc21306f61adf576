----------------------------- MODULE Engagement -----------------------------
(***************************************************************************)
(* The hiring workflow: requirements, matches, agreements and the          *)
(* commission that an activated agreement owes.                            *)
(*                                                                         *)
(* Every endpoint is an async handler that reads rows, checks them, and    *)
(* writes in a later statement or transaction by primary key, without a    *)
(* status in the WHERE clause.  Handlers of different requests interleave  *)
(* at every await.  A request in flight is therefore a record of the       *)
(* statement it will run next, the row it works on, and what it still      *)
(* remembers of the rows it read; each action below is one statement, or   *)
(* one transaction, together with the code up to the next await.           *)
(***************************************************************************)
CONSTANTS Requirements, Tutors, Students,
          StudentOf,   \* the student that posted each requirement
          Eligible,    \* the pairs that pass the tutor's side of assertTutorEligible
          Requests,    \* slots for requests in flight: at most this many at a time
          Faults,      \* TRUE if a handler may die at an await (exception, restart)
          NoTarget     \* the target of a slot that serves no request

ASSUME StudentOfAssumption == StudentOf \in [Requirements -> Students]
ASSUME EligibleAssumption  == Eligible \subseteq Requirements \X Tutors
ASSUME FaultsAssumption    == Faults \in BOOLEAN

VARIABLES
    reqStatus,      \* Requirement.status, "none" before the row exists
    matchStatus,    \* Match.status of each (requirement, tutor), "none" without a row
    applications,   \* the matches with an Application row
    agrStatus,      \* Agreement.status of each match, "none" without a row
    studentSigned,  \* the agreements with studentSignedAt
    tutorSigned,    \* the agreements with tutorSignedAt
    pdfs,           \* the agreements with pdfStorageKey
    commissions,    \* the agreements with a Commission row
    request         \* the requests in flight

market == <<reqStatus, matchStatus, applications>>
signing == <<agrStatus, studentSigned, tutorSigned, pdfs>>
vars == <<market, signing, commissions, request>>

Pairs == Requirements \X Tutors

RequirementStatus == {"none", "DRAFT", "OPEN", "APPLIED", "SHORTLISTED",
                      "MATCHED", "ACTIVE", "COMPLETED", "CANCELLED"}
MatchStatus == {"none", "INVITED", "APPLIED", "SHORTLISTED", "ACCEPTED",
                "MATCHED", "REJECTED", "WITHDRAWN"}
AgreementStatus == {"none", "DRAFT", "PENDING_STUDENT_SIGN",
                    "PENDING_TUTOR_SIGN", "ACTIVE", "COMPLETED", "CANCELLED"}

Cancelable == {"DRAFT", "OPEN", "APPLIED", "SHORTLISTED", "MATCHED"}
Accepting  == {"OPEN", "APPLIED", "SHORTLISTED"}

(* Commission.@@unique([tutorId, studentId]) compares these.               *)
SameParties(m, n) == /\ StudentOf[m[1]] = StudentOf[n[1]]
                     /\ m[2] = n[2]

-----------------------------------------------------------------------------
(* Requests in flight. *)

RequirementSteps == {"publish", "cancel"}
MatchSteps == {"complete", "apply", "applyTx", "invite", "shortlist",
               "withdraw", "generate", "signStudent", "signTutor", "signed",
               "activate", "activateTx", "commission", "commissionCreate"}

RequestSet == [step   : {"idle"} \union RequirementSteps \union MatchSteps,
               target : {NoTarget} \union Requirements \union Pairs,
               saw    : RequirementStatus,  \* requirement status it read
               had    : BOOLEAN]            \* whether the row it looked for was there

Idle == [step |-> "idle", target |-> NoTarget, saw |-> "none", had |-> FALSE]

Start(p, step, target, saw, had) ==
    /\ request[p] = Idle
    /\ request' = [request EXCEPT ![p] = [step |-> step, target |-> target,
                                          saw |-> saw, had |-> had]]

At(p, step) == request[p].step = step

(* Mutant: the handler forgets the id it was called with.                  *)
ContinueForgetful(p, step) ==
    request' = [request EXCEPT ![p] = [step |-> step, target |-> NoTarget,
                                       saw |-> "none", had |-> FALSE]]

Continue(p, step) ==
    request' = [request EXCEPT ![p] = [step |-> step, target |-> @.target,
                                       saw |-> "none", had |-> FALSE]]

Return(p) == request' = [request EXCEPT ![p] = Idle]

Init ==
    /\ reqStatus = [r \in Requirements |-> "none"]
    /\ matchStatus = [m \in Pairs |-> "none"]
    /\ applications = {}
    /\ agrStatus = [m \in Pairs |-> "none"]
    /\ studentSigned = {}
    /\ tutorSigned = {}
    /\ pdfs = {}
    /\ commissions = {}
    /\ request = [p \in Requests |-> Idle]

-----------------------------------------------------------------------------
(* Requirements: create, publish, cancel, complete. *)

CreateRequirement(r) ==
    /\ reqStatus[r] = "none"
    /\ reqStatus' = [reqStatus EXCEPT ![r] = "DRAFT"]
    /\ UNCHANGED <<matchStatus, applications, signing, commissions, request>>

PublishRead(p, r) ==
    /\ reqStatus[r] = "DRAFT"
    /\ Start(p, "publish", r, "none", FALSE)
    /\ UNCHANGED <<market, signing, commissions>>

PublishWrite(p) ==
    /\ At(p, "publish")
    /\ reqStatus' = [reqStatus EXCEPT ![request[p].target] = "OPEN"]
    /\ Return(p)
    /\ UNCHANGED <<matchStatus, applications, signing, commissions>>

CancelRead(p, r) ==
    /\ reqStatus[r] \in Cancelable
    /\ Start(p, "cancel", r, "none", FALSE)
    /\ UNCHANGED <<market, signing, commissions>>

CancelWrite(p) ==
    /\ At(p, "cancel")
    /\ reqStatus' = [reqStatus EXCEPT ![request[p].target] = "CANCELLED"]
    /\ Return(p)
    /\ UNCHANGED <<matchStatus, applications, signing, commissions>>

CompleteRead(p, m) ==
    /\ reqStatus[m[1]] = "ACTIVE"
    /\ matchStatus[m] = "MATCHED"
    /\ agrStatus[m] = "ACTIVE"
    /\ Start(p, "complete", m, "none", FALSE)
    /\ UNCHANGED <<market, signing, commissions>>

CompleteTx(p) ==
    LET m == request[p].target
    IN  /\ At(p, "complete")
        /\ reqStatus' = [reqStatus EXCEPT ![m[1]] = "COMPLETED"]
        /\ agrStatus' = [agrStatus EXCEPT ![m] = "COMPLETED"]
        /\ Return(p)
        /\ UNCHANGED <<matchStatus, applications, studentSigned, tutorSigned,
                       pdfs, commissions>>

-----------------------------------------------------------------------------
(* Matches: apply, invite, shortlist, reject, withdraw. *)

ApplyRead(p, m) ==
    /\ m \in Eligible
    /\ reqStatus[m[1]] \in Accepting
    /\ Start(p, "apply", m, reqStatus[m[1]], FALSE)
    /\ UNCHANGED <<market, signing, commissions>>

ApplyLookup(p) ==
    LET m == request[p].target
        refused == m \in applications \/ matchStatus[m] \in {"REJECTED", "WITHDRAWN"}
    IN  /\ At(p, "apply")
        /\ \/ refused /\ Return(p)
           \/ /\ ~refused
              /\ request' = [request EXCEPT ![p].step = "applyTx",
                                            ![p].had = matchStatus[m] # "none"]
        /\ UNCHANGED <<market, signing, commissions>>

(* The transaction fails as a whole on a unique constraint: the match row  *)
(* it meant to create, or the application.                                 *)
ApplyTx(p) ==
    LET m == request[p].target
        duplicate == \/ ~request[p].had /\ matchStatus[m] # "none"
                     \/ m \in applications
    IN  /\ At(p, "applyTx")
        /\ \/ duplicate /\ UNCHANGED market
           \/ /\ ~duplicate
              /\ matchStatus' = [matchStatus EXCEPT ![m] = "APPLIED"]
              /\ applications' = applications \union {m}
              /\ reqStatus' = IF request[p].saw = "OPEN"
                              THEN [reqStatus EXCEPT ![m[1]] = "APPLIED"]
                              ELSE reqStatus
        /\ Return(p)
        /\ UNCHANGED <<signing, commissions>>

(* invite reads the requirement twice and then the match.  A match row is  *)
(* never deleted and invite writes nothing of what it read, so the reads   *)
(* are one step: the one after which only the insert is left.              *)
InviteRead(p, m) ==
    /\ m \in Eligible
    /\ reqStatus[m[1]] \in Accepting
    /\ matchStatus[m] = "none"
    /\ Start(p, "invite", m, "none", FALSE)
    /\ UNCHANGED <<market, signing, commissions>>

InviteCreate(p) ==
    LET m == request[p].target
    IN  /\ At(p, "invite")
        /\ matchStatus' = IF matchStatus[m] = "none"
                          THEN [matchStatus EXCEPT ![m] = "INVITED"]
                          ELSE matchStatus
        /\ Return(p)
        /\ UNCHANGED <<reqStatus, applications, signing, commissions>>

ShortlistRead(p, m) ==
    /\ matchStatus[m] \in {"APPLIED", "INVITED"}
    /\ Start(p, "shortlist", m, reqStatus[m[1]], FALSE)
    /\ UNCHANGED <<market, signing, commissions>>

(* Mutant: the requirement becomes SHORTLISTED whatever it was.            *)
ShortlistAlways(p) ==
    LET m == request[p].target
    IN  /\ At(p, "shortlist")
        /\ matchStatus' = [matchStatus EXCEPT ![m] = "SHORTLISTED"]
        /\ reqStatus' = [reqStatus EXCEPT ![m[1]] = "SHORTLISTED"]
        /\ Return(p)
        /\ UNCHANGED <<applications, signing, commissions>>

ShortlistTx(p) ==
    LET m == request[p].target
    IN  /\ At(p, "shortlist")
        /\ matchStatus' = [matchStatus EXCEPT ![m] = "SHORTLISTED"]
        /\ reqStatus' = IF request[p].saw \in {"OPEN", "APPLIED"}
                        THEN [reqStatus EXCEPT ![m[1]] = "SHORTLISTED"]
                        ELSE reqStatus
        /\ Return(p)
        /\ UNCHANGED <<applications, signing, commissions>>

(* reject reads only to learn that the student owns the match, which no    *)
(* write changes: read and write are one step, and no status is refused.   *)
Reject(p, m) ==
    /\ request[p] = Idle
    /\ matchStatus[m] # "none"
    /\ matchStatus' = [matchStatus EXCEPT ![m] = "REJECTED"]
    /\ UNCHANGED <<reqStatus, applications, signing, commissions, request>>

(* Mutant: a tutor may withdraw from a match in any status.                *)
WithdrawReadAny(p, m) ==
    /\ matchStatus[m] # "none"
    /\ Start(p, "withdraw", m, "none", FALSE)
    /\ UNCHANGED <<market, signing, commissions>>

WithdrawRead(p, m) ==
    /\ matchStatus[m] \in {"APPLIED", "INVITED"}
    /\ Start(p, "withdraw", m, "none", FALSE)
    /\ UNCHANGED <<market, signing, commissions>>

WithdrawWrite(p) ==
    /\ At(p, "withdraw")
    /\ matchStatus' = [matchStatus EXCEPT ![request[p].target] = "WITHDRAWN"]
    /\ Return(p)
    /\ UNCHANGED <<reqStatus, applications, signing, commissions>>

-----------------------------------------------------------------------------
(* Agreements: generate, sign, activate. *)

GenerateRead(p, m) ==
    /\ matchStatus[m] \in {"SHORTLISTED", "ACCEPTED", "MATCHED"}
    /\ agrStatus[m] = "none"
    /\ Start(p, "generate", m, "none", FALSE)
    /\ UNCHANGED <<market, signing, commissions>>

(* Mutant: without the unique constraint on Agreement.matchId.             *)
GenerateAgain(p) ==
    LET m == request[p].target
    IN  /\ At(p, "generate")
        /\ agrStatus' = [agrStatus EXCEPT ![m] = "PENDING_STUDENT_SIGN"]
        /\ studentSigned' = studentSigned \ {m}
        /\ tutorSigned' = tutorSigned \ {m}
        /\ Return(p)
        /\ UNCHANGED <<market, pdfs, commissions>>

GenerateCreate(p) ==
    LET m == request[p].target
    IN  /\ At(p, "generate")
        /\ agrStatus' = IF agrStatus[m] = "none"
                        THEN [agrStatus EXCEPT ![m] = "PENDING_STUDENT_SIGN"]
                        ELSE agrStatus
        /\ Return(p)
        /\ UNCHANGED <<market, studentSigned, tutorSigned, pdfs, commissions>>

(* Mutant: one signature is enough.                                        *)
EitherSigned(m) == m \in studentSigned \/ m \in tutorSigned

BothSigned(m) == m \in studentSigned /\ m \in tutorSigned

(* Both parties have signed but activate() failed before ACTIVE.           *)
Stuck(m) == /\ BothSigned(m)
            /\ agrStatus[m] \notin {"none", "ACTIVE", "COMPLETED", "CANCELLED"}

SignReadStuck(p, m) ==
    /\ Stuck(m)
    /\ Start(p, "activate", m, "none", FALSE)
    /\ UNCHANGED <<market, signing, commissions>>

SignReadStudent(p, m) ==
    /\ ~Stuck(m)
    /\ m \notin studentSigned
    /\ agrStatus[m] \in {"PENDING_STUDENT_SIGN", "PENDING_TUTOR_SIGN", "DRAFT"}
    /\ Start(p, "signStudent", m, "none", FALSE)
    /\ UNCHANGED <<market, signing, commissions>>

(* Mutant: the tutor does not wait for the student.                        *)
SignReadTutorEarly(p, m) ==
    /\ agrStatus[m] # "none"
    /\ ~Stuck(m)
    /\ m \notin tutorSigned
    /\ Start(p, "signTutor", m, "none", m \in studentSigned)
    /\ UNCHANGED <<market, signing, commissions>>

(* Mutant: a tutor who has signed may sign again.                          *)
SignReadTutorAgain(p, m) ==
    /\ agrStatus[m] # "none"
    /\ ~Stuck(m)
    /\ ~(m \notin studentSigned /\ agrStatus[m] = "PENDING_STUDENT_SIGN")
    /\ Start(p, "signTutor", m, "none", m \in studentSigned)
    /\ UNCHANGED <<market, signing, commissions>>

SignReadTutor(p, m) ==
    /\ agrStatus[m] # "none"
    /\ ~Stuck(m)
    /\ m \notin tutorSigned
    /\ ~(m \notin studentSigned /\ agrStatus[m] = "PENDING_STUDENT_SIGN")
    /\ Start(p, "signTutor", m, "none", m \in studentSigned)
    /\ UNCHANGED <<market, signing, commissions>>

SignWriteStudent(p) ==
    LET m == request[p].target
    IN  /\ At(p, "signStudent")
        /\ studentSigned' = studentSigned \union {m}
        /\ agrStatus' = [agrStatus EXCEPT ![m] = "PENDING_TUTOR_SIGN"]
        /\ Continue(p, "signed")
        /\ UNCHANGED <<market, tutorSigned, pdfs, commissions>>

SignWriteTutor(p) ==
    LET m == request[p].target
    IN  /\ At(p, "signTutor")
        /\ tutorSigned' = tutorSigned \union {m}
        /\ agrStatus' = [agrStatus EXCEPT ![m] =
                            IF request[p].had THEN "PENDING_TUTOR_SIGN"
                            ELSE "PENDING_STUDENT_SIGN"]
        /\ Continue(p, "signed")
        /\ UNCHANGED <<market, studentSigned, pdfs, commissions>>

(* Mutant: the second signer does not activate the agreement.              *)
SignReturn(p) ==
    /\ At(p, "signed")
    /\ Return(p)
    /\ UNCHANGED <<market, signing, commissions>>

SignRefresh(p) ==
    /\ At(p, "signed")
    /\ \/ BothSigned(request[p].target) /\ Continue(p, "activate")
       \/ ~BothSigned(request[p].target) /\ Return(p)
    /\ UNCHANGED <<market, signing, commissions>>

(* Uploading the PDF and counting the slots write nothing modelled here:   *)
(* they are the gap between this read and the transaction.                 *)
ActivateRead(p) ==
    LET m == request[p].target
        refused == ~BothSigned(m) \/ agrStatus[m] \in {"COMPLETED", "CANCELLED"}
        already == agrStatus[m] = "ACTIVE" /\ m \in pdfs
    IN  /\ At(p, "activate")
        /\ \/ refused /\ Return(p)
           \/ ~refused /\ already /\ Continue(p, "commission")
           \/ ~refused /\ ~already /\ Continue(p, "activateTx")
        /\ UNCHANGED <<market, signing, commissions>>

(* Mutant: the key of the uploaded PDF is not stored.                      *)
ActivateWithoutPdf(p) ==
    LET m == request[p].target
    IN  /\ At(p, "activateTx")
        /\ agrStatus' = [agrStatus EXCEPT ![m] = "ACTIVE"]
        /\ matchStatus' = [matchStatus EXCEPT ![m] = "MATCHED"]
        /\ reqStatus' = [reqStatus EXCEPT ![m[1]] = "ACTIVE"]
        /\ Continue(p, "commission")
        /\ UNCHANGED <<applications, studentSigned, tutorSigned, pdfs, commissions>>

(* Mutant: activation does not go on to the commission.                    *)
ActivateUnbilled(p) ==
    LET m == request[p].target
    IN  /\ At(p, "activateTx")
        /\ pdfs' = pdfs \union {m}
        /\ agrStatus' = [agrStatus EXCEPT ![m] = "ACTIVE"]
        /\ matchStatus' = [matchStatus EXCEPT ![m] = "MATCHED"]
        /\ reqStatus' = [reqStatus EXCEPT ![m[1]] = "ACTIVE"]
        /\ Return(p)
        /\ UNCHANGED <<applications, studentSigned, tutorSigned, commissions>>

ActivateTx(p) ==
    LET m == request[p].target
    IN  /\ At(p, "activateTx")
        /\ pdfs' = pdfs \union {m}
        /\ agrStatus' = [agrStatus EXCEPT ![m] = "ACTIVE"]
        /\ matchStatus' = [matchStatus EXCEPT ![m] = "MATCHED"]
        /\ reqStatus' = [reqStatus EXCEPT ![m[1]] = "ACTIVE"]
        /\ Continue(p, "commission")
        /\ UNCHANGED <<applications, studentSigned, tutorSigned, commissions>>

-----------------------------------------------------------------------------
(* The commission of an activated agreement, and the admin's backfill. *)

RegenerateCommission(p, m) ==
    /\ agrStatus[m] # "none"
    /\ Start(p, "commission", m, "none", FALSE)
    /\ UNCHANGED <<market, signing, commissions>>

Charged(m) == \E n \in commissions : SameParties(m, n)

(* Mutant: a commission for an agreement in any status.                    *)
CommissionReadAny(p) ==
    LET m == request[p].target
    IN  /\ At(p, "commission")
        /\ \/ ~Charged(m) /\ Continue(p, "commissionCreate")
           \/ Charged(m) /\ Return(p)
        /\ UNCHANGED <<market, signing, commissions>>

CommissionRead(p) ==
    LET m == request[p].target
        due == agrStatus[m] \in {"ACTIVE", "COMPLETED"} /\ ~Charged(m)
    IN  /\ At(p, "commission")
        /\ \/ due /\ Continue(p, "commissionCreate")
           \/ ~due /\ Return(p)
        /\ UNCHANGED <<market, signing, commissions>>

CommissionCreate(p) ==
    LET m == request[p].target
    IN  /\ At(p, "commissionCreate")
        /\ commissions' = IF Charged(m) THEN commissions
                          ELSE commissions \union {m}
        /\ Return(p)
        /\ UNCHANGED <<market, signing>>

-----------------------------------------------------------------------------
(* An exception or a restart ends a handler at an await: what it wrote     *)
(* stays, the rest never happens.                                          *)
Die(p) ==
    /\ Faults
    /\ ~At(p, "idle")
    /\ Return(p)
    /\ UNCHANGED <<market, signing, commissions>>

Resume(p) ==
    \/ PublishWrite(p) \/ CancelWrite(p) \/ CompleteTx(p)
    \/ ApplyLookup(p) \/ ApplyTx(p) \/ InviteCreate(p)
    \/ ShortlistTx(p) \/ WithdrawWrite(p) \/ GenerateCreate(p)
    \/ SignWriteStudent(p) \/ SignWriteTutor(p) \/ SignRefresh(p)
    \/ ActivateRead(p) \/ ActivateTx(p)
    \/ CommissionRead(p) \/ CommissionCreate(p)

Arrive(p) ==
    \/ \E r \in Requirements : PublishRead(p, r) \/ CancelRead(p, r)
    \/ \E m \in Pairs :
          \/ CompleteRead(p, m) \/ ApplyRead(p, m) \/ InviteRead(p, m)
          \/ ShortlistRead(p, m) \/ WithdrawRead(p, m) \/ GenerateRead(p, m)
          \/ SignReadStuck(p, m) \/ SignReadStudent(p, m) \/ SignReadTutor(p, m)
          \/ RegenerateCommission(p, m)

Next ==
    \/ \E r \in Requirements : CreateRequirement(r)
    \/ \E p \in Requests : \/ \E m \in Pairs : Reject(p, m)
                          \/ Arrive(p) \/ Resume(p) \/ Die(p)

Spec == Init /\ [][Next]_vars

(* The event loop runs every handler that was started; nothing makes users *)
(* send requests.                                                          *)
FairSpec == Spec /\ \A p \in Requests : WF_vars(Resume(p))

-----------------------------------------------------------------------------
(* Types. *)

RowsOK ==
    /\ reqStatus \in [Requirements -> RequirementStatus]
    /\ matchStatus \in [Pairs -> MatchStatus]
    /\ applications \subseteq Pairs
    /\ agrStatus \in [Pairs -> AgreementStatus]
    /\ studentSigned \subseteq Pairs
    /\ tutorSigned \subseteq Pairs
    /\ pdfs \subseteq Pairs
    /\ commissions \subseteq Pairs

RequestsOK ==
    /\ request \in [Requests -> RequestSet]
    /\ \A p \in Requests :
          /\ request[p].step \in RequirementSteps => request[p].target \in Requirements
          /\ request[p].step \in MatchSteps => request[p].target \in Pairs

(* Every column holds a value of its enum, and every request in flight     *)
(* works on a row of the kind its handler was called with.                 *)
TypeOK == RowsOK /\ RequestsOK

-----------------------------------------------------------------------------
(* Safety. *)

Sealed == studentSigned \intersect tutorSigned \intersect pdfs

(* An agreement that is, or once was, in force bears both signatures and   *)
(* its PDF is stored, whatever handlers raced to sign and activate it and  *)
(* wherever they died (sign, activate and complete of the services).       *)
ActiveIsSealed ==
    \A m \in Pairs : agrStatus[m] \in {"ACTIVE", "COMPLETED"} => m \in Sealed

(* The tutor never signs first, so the branch of sign() that would put an  *)
(* agreement back to PENDING_STUDENT_SIGN is never taken.                  *)
StudentSignsFirst ==
    /\ tutorSigned \subseteq studentSigned
    /\ \A p \in Requests : At(p, "signTutor") => request[p].had

(* A match is MATCHED, and a requirement ACTIVE or COMPLETED, only on the  *)
(* strength of an agreement that both parties signed: apply, shortlist and *)
(* the rest of the matching service never get there by themselves.         *)
EngagementIsBacked ==
    /\ \A m \in Pairs : matchStatus[m] = "MATCHED" => m \in Sealed
    /\ \A r \in Requirements : reqStatus[r] \in {"ACTIVE", "COMPLETED"} =>
          \E t \in Tutors : <<r, t>> \in Sealed

(* What the columns and the requests in flight must satisfy for a step to  *)
(* keep the properties above: an inductive invariant.                      *)
RowsConsistent ==
    /\ \A m \in Pairs :
          /\ m \notin studentSigned => agrStatus[m] \in {"none", "PENDING_STUDENT_SIGN"}
          /\ m \in studentSigned => agrStatus[m] # "none"
          /\ m \in tutorSigned => m \in studentSigned
          /\ m \in pdfs => m \in tutorSigned
          /\ agrStatus[m] \in {"ACTIVE", "COMPLETED"} => m \in pdfs
          /\ m \in commissions => m \in pdfs
          /\ matchStatus[m] = "MATCHED" => m \in pdfs
    /\ \A r \in Requirements : reqStatus[r] \in {"ACTIVE", "COMPLETED"} =>
          \E m \in pdfs : m[1] = r

RequestConsistent(p) ==
    LET m == request[p].target
    IN  /\ At(p, "signStudent") => agrStatus[m] # "none"
        /\ At(p, "signTutor") => m \in studentSigned /\ request[p].had
        /\ At(p, "activateTx") => m \in tutorSigned
        /\ At(p, "complete") \/ At(p, "commissionCreate") => m \in pdfs

Consistent == /\ TypeOK /\ RowsConsistent
              /\ \A p \in Requests : RequestConsistent(p)

-----------------------------------------------------------------------------
(* The agreement life cycle that all of this implements. *)

StageOf(m) == IF agrStatus[m] = "none" THEN "none"
              ELSE IF m \notin studentSigned THEN "offered"
              ELSE IF m \notin tutorSigned THEN "studentSigned"
              ELSE IF m \notin pdfs THEN "signed"
              ELSE "sealed"

C == INSTANCE Contract WITH
        Agreements <- Pairs,
        SameParties <- SameParties,
        stage <- [m \in Pairs |-> StageOf(m)],
        billed <- commissions

(* Each agreement goes through offer, student signature, tutor signature   *)
(* and stored PDF in that order, each exactly once and never undone, and   *)
(* is billed only then: generate, sign, activate and generateForAgreement  *)
(* implement the Contract under every interleaving and failure.            *)
ContractSpec == C!Spec

-----------------------------------------------------------------------------
(* Liveness. *)

(* Once both signatures are stored the agreement comes into force: one of  *)
(* the two sign() calls sees both and runs activate(), provided that no    *)
(* handler dies.                                                           *)
SignedIsActivated ==
    \A m \in Pairs : m \in studentSigned \intersect tutorSigned ~> agrStatus[m] \in {"ACTIVE", "COMPLETED"}

-----------------------------------------------------------------------------
(* What the repository's documents and comments say, and the code does not *)
(* keep. *)

(* docs/FUNCTIONALITY.md: "One active match per requirement at a time".    *)
OneActiveMatch ==
    \A m, n \in Pairs :
        m[1] = n[1] /\ agrStatus[m] = "ACTIVE" /\ agrStatus[n] = "ACTIVE" => m = n

(* agreements.service.ts: "Commission is awaited so revenue rows are not   *)
(* silently dropped".  When nothing is in flight, an agreement in force    *)
(* has been charged for.                                                   *)
CommissionNotDropped ==
    (\A p \in Requests : At(p, "idle")) =>
        \A m \in Pairs : agrStatus[m] \in {"ACTIVE", "COMPLETED"} => Charged(m)
=============================================================================
