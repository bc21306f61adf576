------------------------------- MODULE Views -------------------------------
(***************************************************************************)
(* What the pages of the hiring workflow read: each endpoint selects rows  *)
(* by the status of one table, while the workflow keeps its state in       *)
(* three.  The operators are the WHERE clauses; the properties say that    *)
(* the selections agree with each other.                                   *)
(***************************************************************************)
EXTENDS Engagement

VARIABLE alone   \* history: no two requests were in flight at once

InFlight == {p \in Requests : ~At(p, "idle")}

ViewsInit == Init /\ alone = TRUE
ViewsNext == /\ Next
             /\ alone' = (alone /\ \A p, q \in InFlight' : p = q)
ViewsSpec == ViewsInit /\ [][ViewsNext]_<<vars, alone>>

-----------------------------------------------------------------------------
(* What is read. *)

(* Requirements that tutors can browse.                                    *)
Browsable == {r \in Requirements : reqStatus[r] \in Accepting}

(* The requirements that a tutor can open, its own engagements or not.     *)
Readable == {r \in Requirements : reqStatus[r] \in {"OPEN", "APPLIED", "SHORTLISTED"}}

MatchesOfTutor(t) == {m \in Pairs : m[2] = t /\ matchStatus[m] # "none"}

(* The student's inbox leaves out what was rejected or withdrawn.          *)
Inbox(s) == {m \in Pairs : /\ StudentOf[m[1]] = s
                           /\ matchStatus[m] \in {"APPLIED", "INVITED", "SHORTLISTED",
                                                  "ACCEPTED", "MATCHED"}}

(* contactVisible in the serialized agreement.                             *)
ContactVisible == {m \in Pairs : agrStatus[m] \in {"ACTIVE", "COMPLETED"}}

(* complete() looks for the match that is MATCHED with an agreement in     *)
(* force; the page of the requirement offers it while one is ACTIVE.       *)
Completable(r) == {m \in Pairs : m[1] = r /\ matchStatus[m] = "MATCHED"
                                 /\ agrStatus[m] = "ACTIVE"}

-----------------------------------------------------------------------------
(* When requests do not overlap, the three tables agree. *)

(* A requirement whose parties see each other's contact is no longer       *)
(* offered to other tutors, whichever of its other matches were applied    *)
(* for, invited, shortlisted or withdrawn before or after the signatures.  *)
OffTheMarket == \A m \in ContactVisible : m[1] \notin Browsable \union Readable

(* An agreement in force is in the student's inbox and in the tutor's      *)
(* list, and the student can complete the requirement, unless the student  *)
(* rejected the match: neither a withdrawal nor a late application takes   *)
(* it away.                                                                *)
StaysReachable ==
    \A m \in Pairs : agrStatus[m] = "ACTIVE" /\ matchStatus[m] # "REJECTED" =>
        /\ m \in Inbox(StudentOf[m[1]]) \intersect MatchesOfTutor(m[2])
        /\ reqStatus[m[1]] = "ACTIVE" => m \in Completable(m[1])

(* A requirement whose parties see each other's contact is not offered to  *)
(* other tutors (listOpenForTutor, getOne, serialize), and stays where the *)
(* student can complete it (studentInbox, complete) unless the student     *)
(* rejected the match.  When requests overlap, apply and shortlist write a *)
(* status back that they read before the activation.                       *)
EngagedIsSettled == alone => OffTheMarket /\ StaysReachable

(* When requests do not overlap and none dies, a requirement in force has  *)
(* been charged for as soon as nothing is in flight (agreements.service.ts: *)
(* "Commission is awaited so revenue rows are not silently dropped").      *)
ChargedWhenAlone == alone /\ ~Faults => CommissionNotDropped

(* When requests do not overlap, an agreement in force is not put back to  *)
(* a pending status by a second signature (sign, activate), wherever the   *)
(* handlers die.                                                           *)
ActiveStaysActiveWhenAlone ==
    [][alone' => \A m \in Pairs : agrStatus[m] \in {"ACTIVE", "COMPLETED"} =>
          agrStatus'[m] \in {"ACTIVE", "COMPLETED", "CANCELLED"}]_<<vars, alone>>

-----------------------------------------------------------------------------
(* What the only request in flight knows, and what the tables owe to that: *)
(* an inductive invariant.                                                 *)
Knows(p) ==
    LET m == request[p].target
    IN  /\ At(p, "publish") => reqStatus[m] = "DRAFT"
        /\ At(p, "cancel") => reqStatus[m] \in Cancelable
        /\ At(p, "complete") => agrStatus[m] = "ACTIVE"
        /\ At(p, "apply") \/ At(p, "applyTx") => reqStatus[m[1]] \in Accepting
        /\ At(p, "apply") \/ At(p, "applyTx") \/ At(p, "shortlist") =>
              request[p].saw = reqStatus[m[1]]
        /\ At(p, "invite") \/ At(p, "shortlist") \/ At(p, "withdraw") =>
              reqStatus[m[1]] # "none"
        /\ At(p, "shortlist") \/ At(p, "withdraw") => agrStatus[m] # "ACTIVE"
        /\ At(p, "signStudent") \/ At(p, "signTutor") =>
              agrStatus[m] \notin {"ACTIVE", "COMPLETED"}

BeingCharged(m) ==
    \E p \in Requests : /\ At(p, "commission") \/ At(p, "commissionCreate")
                        /\ request[p].target = m

TablesAgree ==
    \A m \in Pairs :
        /\ agrStatus[m] \in {"ACTIVE", "COMPLETED"} =>
              /\ reqStatus[m[1]] \in {"ACTIVE", "COMPLETED"}
              /\ Faults \/ Charged(m) \/ BeingCharged(m)
        /\ agrStatus[m] = "ACTIVE" => matchStatus[m] \in {"MATCHED", "REJECTED"}
        /\ matchStatus[m] # "none" => reqStatus[m[1]] # "none"

Settled ==
    alone => /\ \A p, q \in InFlight : p = q
             /\ \A p \in Requests : Knows(p)
             /\ TablesAgree
=============================================================================
