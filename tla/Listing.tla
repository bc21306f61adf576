------------------------------- MODULE Listing -------------------------------
(***************************************************************************)
(* Whether a tutor is listed in the search: Tutor.isDiscoverable is        *)
(* written by the profile pages, by the verification of documents, by the  *)
(* overdue scan and by the settlement of commissions, each with a rule of  *)
(* its own and each after reading in an earlier statement.                 *)
(*                                                                         *)
(* One tutor.  A request in flight is the statement it runs next and what  *)
(* it remembers.                                                           *)
(***************************************************************************)
EXTENDS Naturals, FiniteSets

CONSTANTS Sections,     \* the sections a profile must have
          Clearable,    \* those that an update may empty again
          Docs,         \* ids of identity documents: at most this many
          Commissions,
          Requests,
          MaxDeaths     \* bound: so many handlers die at an await

ASSUME ClearableAssumption == Clearable \subseteq Sections
ASSUME DeathsAssumption == MaxDeaths \in Nat

VARIABLES
    filled,      \* the sections of the profile that are not empty
    doc,         \* TutorDocument.verificationStatus, "none" before the row exists
    verification,\* Tutor.verificationStatus
    verified,    \* Tutor.isVerified
    listed,      \* Tutor.isDiscoverable
    due,         \* Commission.status of this tutor's commissions, see DueStatus
    request,     \* the requests in flight
    overlapped,  \* history: two requests were in flight at once
    deaths       \* history: how many handlers have died

rows == <<filled, doc, verification, verified, listed, due>>
history == <<overlapped, deaths>>
vars == <<rows, request, history>>

VerificationStatus == {"NOT_SUBMITTED", "PENDING", "APPROVED", "REJECTED"}

(* SETTLED stands for PAID and WAIVED, which are treated alike here.       *)
DueStatus == {"none", "GENERATED", "OVERDUE", "SETTLED"}
StillDue == {"GENERATED", "OVERDUE"}

-----------------------------------------------------------------------------
(* Requests in flight. *)

Steps == {"idle", "save", "refresh", "relist", "me", "meWrite", "upload",
          "demote", "decide", "overdue", "hide", "lift", "liftRead", "liftWrite"}

Verdicts == {"APPROVED", "REJECTED"}

RequestSet == [step    : Steps,
               section : Sections \union {"none"}, \* the section being saved
               value   : BOOLEAN,     \* what it saves, or computed from a read
               then    : {"idle", "me"}, \* what follows the refresh
               verdict : Verdicts,
               row     : Docs \union Commissions \union {"none"},
               rows    : SUBSET Commissions]   \* the past-due rows left

Idle == [step |-> "idle", section |-> "none", value |-> FALSE, then |-> "idle",
         verdict |-> "REJECTED", row |-> "none", rows |-> {}]

At(p, step) == request[p].step = step

Busy == \E p \in Requests : ~At(p, "idle")

Start(p, local) == /\ request[p] = Idle
                   /\ request' = [request EXCEPT ![p] = local]
                   /\ overlapped' = (overlapped \/ Busy)
                   /\ UNCHANGED deaths

Goto(p, local) == request' = [request EXCEPT ![p] = local] /\ UNCHANGED history

Continue(p, step) == Goto(p, [request[p] EXCEPT !.step = step])

Return(p) == Goto(p, Idle)

Init ==
    /\ filled = {}
    /\ doc = [d \in Docs |-> "none"]
    /\ verification = "NOT_SUBMITTED"
    /\ verified = FALSE
    /\ listed = FALSE
    /\ due = [c \in Commissions |-> "none"]
    /\ request = [p \in Requests |-> Idle]
    /\ overlapped = FALSE
    /\ deaths = 0

-----------------------------------------------------------------------------
(* The profile. *)

(* Mutant: the checks are or-ed.                                           *)
PartlyComplete == filled # {} /\ verified

(* completeness(): nothing is missing, and an admin has approved.          *)
Complete == filled = Sections /\ verified

PutSection(section, full) == IF full THEN filled \union {section} ELSE filled \ {section}

(* updateProfile, updateSubjects, updateAvailability, updateLocation and   *)
(* savePhoto: the section is written, isDiscoverable refreshed, and the    *)
(* answer is made by getMe.                                                *)
Save(p, section, full) ==
    /\ full \/ section \in Clearable
    /\ Start(p, [Idle EXCEPT !.step = "save", !.section = section, !.value = full])
    /\ UNCHANGED rows

SaveWrite(p) ==
    /\ At(p, "save")
    /\ filled' = PutSection(request[p].section, request[p].value)
    /\ Goto(p, [Idle EXCEPT !.step = "refresh", !.then = "me"])
    /\ UNCHANGED <<doc, verification, verified, listed, due>>

RefreshRead(p) ==
    /\ At(p, "refresh")
    /\ Goto(p, [request[p] EXCEPT !.step = "relist", !.value = Complete])
    /\ UNCHANGED rows

RefreshWrite(p) ==
    /\ At(p, "relist")
    /\ listed' = request[p].value
    /\ Goto(p, [Idle EXCEPT !.step = request[p].then])
    /\ UNCHANGED <<filled, doc, verification, verified, due>>

GetMe(p) ==
    /\ Start(p, [Idle EXCEPT !.step = "me"])
    /\ UNCHANGED rows

(* Mutant: opening the page only ever hides a tutor.                       *)
HidesOnly == listed /\ ~Complete

Differs == listed # Complete

GetMeRead(p) ==
    /\ At(p, "me")
    /\ \/ ~Differs /\ Return(p)
       \/ Differs /\ Goto(p, [Idle EXCEPT !.step = "meWrite", !.value = Complete])
    /\ UNCHANGED rows

GetMeWrite(p) ==
    /\ At(p, "meWrite")
    /\ listed' = request[p].value
    /\ Return(p)
    /\ UNCHANGED <<filled, doc, verification, verified, due>>

-----------------------------------------------------------------------------
(* Verification of identity documents. *)

UploadDocument(p, d) ==
    /\ doc[d] = "none"
    /\ Start(p, [Idle EXCEPT !.step = "upload", !.row = d])
    /\ UNCHANGED rows

UploadCreate(p) ==
    /\ At(p, "upload")
    /\ doc' = [doc EXCEPT ![request[p].row] = "PENDING"]
    /\ Continue(p, "demote")
    /\ UNCHANGED <<filled, verification, verified, listed, due>>

(* Mutant: the badge stays until the new document is judged.               *)
UploadKeepBadge(p) ==
    /\ At(p, "demote")
    /\ verification' = "PENDING"
    /\ Return(p)
    /\ UNCHANGED <<filled, doc, verified, listed, due>>

(* isDiscoverable is not refreshed here.                                   *)
UploadDemote(p) ==
    /\ At(p, "demote")
    /\ verification' = "PENDING"
    /\ verified' = FALSE
    /\ Return(p)
    /\ UNCHANGED <<filled, doc, listed, due>>

(* approve and reject look neither at the status nor at the documents.     *)
Decide(p, verdict) ==
    /\ Start(p, [Idle EXCEPT !.step = "decide", !.verdict = verdict])
    /\ UNCHANGED rows

(* Mutant: the verdict is written to the tutor alone.                      *)
JudgeNone(verdict) == UNCHANGED doc

Judge(verdict) ==
    doc' = [d \in Docs |-> IF doc[d] = "PENDING" THEN verdict ELSE doc[d]]

DecideTx(p) ==
    LET verdict == request[p].verdict
    IN  /\ At(p, "decide")
        /\ verification' = verdict
        /\ verified' = (verdict = "APPROVED")
        /\ Judge(verdict)
        /\ Goto(p, [Idle EXCEPT !.step = "refresh"])
        /\ UNCHANGED <<filled, listed, due>>

-----------------------------------------------------------------------------
(* Commissions that hide the tutor, and settlements that list him again.   *)

Generate(c) ==
    /\ due[c] = "none"
    /\ due' = [due EXCEPT ![c] = "GENERATED"]
    /\ UNCHANGED <<filled, doc, verification, verified, listed, request, history>>

OverdueRead(p, S) ==
    /\ S # {}
    /\ \A c \in S : due[c] = "GENERATED"
    /\ Start(p, [Idle EXCEPT !.step = "overdue", !.rows = S])
    /\ UNCHANGED rows

(* applyOverdue, one row after another: the commission, then the tutor.    *)
OverdueWrite(p) ==
    /\ At(p, "overdue")
    /\ \E c \in request[p].rows :
          /\ due' = [due EXCEPT ![c] = "OVERDUE"]
          /\ Goto(p, [request[p] EXCEPT !.step = "hide", !.rows = @ \ {c}])
    /\ UNCHANGED <<filled, doc, verification, verified, listed>>

Hide(p) ==
    /\ At(p, "hide")
    /\ listed' = FALSE
    /\ \/ request[p].rows = {} /\ Return(p)
       \/ request[p].rows # {} /\ Continue(p, "overdue")
    /\ UNCHANGED <<filled, doc, verification, verified, due>>

(* waive or markPaid has settled the commission and goes on to lift the    *)
(* restriction; a commission that was settled before is settled again.     *)
Settle(p, c) ==
    /\ due[c] # "none"
    /\ due' = [due EXCEPT ![c] = "SETTLED"]
    /\ Start(p, [Idle EXCEPT !.step = "lift"])
    /\ UNCHANGED <<filled, doc, verification, verified, listed>>

NoneDue == \A c \in Commissions : due[c] \notin StillDue

LiftCount(p) ==
    /\ At(p, "lift")
    /\ \/ NoneDue /\ Continue(p, "liftRead")
       \/ ~NoneDue /\ Return(p)
    /\ UNCHANGED rows

(* Mutant: the verification is not among the conditions.                   *)
FilledIn == filled = Sections

MayLift == filled = Sections /\ verified

LiftRead(p) ==
    /\ At(p, "liftRead")
    /\ \/ MayLift /\ Continue(p, "liftWrite")
       \/ ~MayLift /\ Return(p)
    /\ UNCHANGED rows

LiftWrite(p) ==
    /\ At(p, "liftWrite")
    /\ listed' = TRUE
    /\ Return(p)
    /\ UNCHANGED <<filled, doc, verification, verified, due>>

-----------------------------------------------------------------------------
Die(p) ==
    /\ ~At(p, "idle")
    /\ deaths < MaxDeaths
    /\ deaths' = deaths + 1
    /\ request' = [request EXCEPT ![p] = Idle]
    /\ UNCHANGED <<rows, overlapped>>

Resume(p) ==
    \/ SaveWrite(p) \/ RefreshRead(p) \/ RefreshWrite(p)
    \/ GetMeRead(p) \/ GetMeWrite(p)
    \/ UploadCreate(p) \/ UploadDemote(p) \/ DecideTx(p)
    \/ OverdueWrite(p) \/ Hide(p)
    \/ LiftCount(p) \/ LiftRead(p) \/ LiftWrite(p)

Arrive(p) ==
    \/ \E section \in Sections, full \in BOOLEAN : Save(p, section, full)
    \/ GetMe(p)
    \/ \E d \in Docs : UploadDocument(p, d)
    \/ \E verdict \in Verdicts : Decide(p, verdict)
    \/ \E S \in SUBSET Commissions : OverdueRead(p, S)
    \/ \E c \in Commissions : Settle(p, c)

Next ==
    \/ \E c \in Commissions : Generate(c)
    \/ \E p \in Requests : Arrive(p) \/ Resume(p) \/ Die(p)

Spec == Init /\ [][Next]_vars

(* Handlers that do not die run to their end, and the tutor opens the      *)
(* profile page again and again.                                           *)
FairSpec == /\ Spec
            /\ \A p \in Requests : WF_vars(Resume(p))
            /\ SF_vars(\E p \in Requests : GetMe(p))
-----------------------------------------------------------------------------
(* Types, and the two columns that say whether the tutor is verified.      *)
TypeOK ==
    /\ filled \subseteq Sections
    /\ doc \in [Docs -> {"none", "PENDING"} \union Verdicts]
    /\ verification \in VerificationStatus
    /\ verified = (verification = "APPROVED")
    /\ listed \in BOOLEAN
    /\ due \in [Commissions -> DueStatus]
    /\ request \in [Requests -> RequestSet]
    /\ overlapped \in BOOLEAN /\ deaths \in Nat

Quiet == ~Busy /\ ~overlapped /\ deaths = 0

(* As long as no handlers overlap or die, a tutor whose profile has a gap  *)
(* is not listed once the handler is done.                                 *)
ListedIsFilledIn == Quiet /\ listed => filled = Sections

(* The admin's queue shows a tutor exactly when one of his documents waits *)
(* for a verdict: upload and verdict keep tutor and documents in step, as  *)
(* long as no handlers overlap or die.                                     *)
QueueHasDocument ==
    Quiet => (verification = "PENDING" <=> \E d \in Docs : doc[d] = "PENDING")

(* The columns agree with each other and with the documents.               *)
ProfileIsConsistent == TypeOK /\ ListedIsFilledIn /\ QueueHasDocument

(* commissions.service.ts: "Re-enable discoverability only if profile is   *)
(* complete (incl. admin verification)".  Whatever lists a tutor has found *)
(* the profile complete, and as long as no handlers overlap it still is.   *)
ListsOnlyComplete ==
    [][~listed /\ listed' => overlapped' \/ Complete]_vars

(* Whatever overlaps or dies, a profile that stays complete with nothing   *)
(* due is listed for good at last, and one that stays incomplete is not:   *)
(* the next visit of the profile page repairs a settlement that died       *)
(* before lifting the restriction and a refresh that wrote a stale value.  *)
ListingSettles ==
    /\ <>[](Complete /\ NoneDue) => <>[]listed
    /\ <>[]~Complete => <>[]~listed
=============================================================================
