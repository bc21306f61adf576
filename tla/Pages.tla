------------------------------- MODULE Pages --------------------------------
(***************************************************************************)
(* One deal, from the student's requirement to its end, as the web pages   *)
(* lead through it.  A page loads its part of the deal, offers the actions *)
(* that fit what it shows, sends the one that is clicked, and loads again. *)
(* Nothing tells it of changes made elsewhere, and its loads may be        *)
(* answered by the cache of the API client, so that it can show, and       *)
(* offer, what is long past.                                               *)
(*                                                                         *)
(* One tab is followed, of either party.  Everyone acts elsewhere too, on  *)
(* pages that were just loaded.  The handlers of the API are atomic here;  *)
(* Engagement interleaves their steps.                                     *)
(***************************************************************************)
EXTENDS Integers, FiniteSets

CONSTANT MaxKept   \* bound: answers the cache of the tab keeps at once

MaxKeptAssumption == MaxKept \in Nat

VARIABLES
    deal,    \* the rows of the deal
    user,    \* whose tab it is
    tab,     \* the page of the tab, and what it shows of the deal
    cache,   \* the answers kept by the API client of the tab
    stale    \* history: the server carried out a click on a page that was
             \* out of date

vars == <<deal, user, tab, cache, stale>>

Users == {"student", "tutor", "admin"}

(* The pages, named for what they load; the agreements page loads the      *)
(* agreement and, apart from it, its ratings.                              *)
PageNames == {"requirement", "inbox", "mine", "demo", "agreement", "ratings",
              "calendar", "disputes"}

Requirements == {"DRAFT", "OPEN", "APPLIED", "SHORTLISTED", "ACTIVE", "COMPLETED", "CANCELLED"}
Matches      == {"none", "APPLIED", "INVITED", "SHORTLISTED", "MATCHED", "REJECTED", "WITHDRAWN"}
Outcomes     == {"COMPLETED", "CANCELLED", "NO_SHOW"}
Pending      == {"PENDING_STUDENT_SIGN", "PENDING_TUTOR_SIGN"}

Deals == [req       : Requirements,
          match     : Matches,
          applied   : BOOLEAN,                  \* the application exists
          demo      : {"none", "SCHEDULED"} \union Outcomes,
          agreement : {"none", "ACTIVE", "COMPLETED"} \union Pending,
          signed    : SUBSET {"student", "tutor"},
          slot      : {"none", "OCCUPIED", "RELEASED"},
          rated     : SUBSET {"student", "tutor"},
          dispute   : {"none", "OPEN", "RESOLVED"}]

NewDeal == [req |-> "DRAFT", match |-> "none", applied |-> FALSE, demo |-> "none",
            agreement |-> "none", signed |-> {}, slot |-> "none", rated |-> {},
            dispute |-> "none"]

Accepting  == {"OPEN", "APPLIED", "SHORTLISTED"}
Cancelable == {"DRAFT", "OPEN", "APPLIED", "SHORTLISTED"}
Decidable  == {"APPLIED", "INVITED"}

-----------------------------------------------------------------------------
(* The API: whose call of an operation is accepted, and what it changes. *)

(* Mutant: what may be cancelled is not looked up.                         *)
AcceptsAnyCancel(u, op, d) ==
    \/ u = "student" /\ op = "publish" /\ d.req = "DRAFT"
    \/ u = "student" /\ op = "cancel"
    \/ /\ u \in {"student", "admin"} /\ op = "complete"
       /\ d.req = "ACTIVE" /\ d.match = "MATCHED" /\ d.agreement = "ACTIVE"

(* publish, cancel and complete.                                           *)
AcceptsOfRequirement(u, op, d) ==
    \/ u = "student" /\ op = "publish" /\ d.req = "DRAFT"
    \/ u = "student" /\ op = "cancel" /\ d.req \in Cancelable
    \/ /\ u \in {"student", "admin"} /\ op = "complete"
       /\ d.req = "ACTIVE" /\ d.match = "MATCHED" /\ d.agreement = "ACTIVE"

(* apply, invite, shortlist, withdraw; reject looks at no status.          *)
AcceptsOfMatch(u, op, d) ==
    \/ /\ u = "tutor" /\ op = "apply"
       /\ d.req \in Accepting /\ ~d.applied /\ d.match \notin {"REJECTED", "WITHDRAWN"}
    \/ u = "student" /\ op = "invite" /\ d.req \in Accepting /\ d.match = "none"
    \/ u = "student" /\ op = "shortlist" /\ d.match \in Decidable
    \/ u = "student" /\ op = "reject" /\ d.match # "none"
    \/ u = "tutor" /\ op = "withdraw" /\ d.match \in Decidable

AcceptsOfDemo(u, op, d) ==
    \/ u = "student" /\ op = "book" /\ d.match = "SHORTLISTED" /\ d.demo = "none"
    \/ u \in {"student", "tutor"} /\ op \in Outcomes /\ d.demo = "SCHEDULED"

(* sign takes the student first, and a third call only to activate what    *)
(* both have signed.                                                       *)
AcceptsOfAgreement(u, op, d) ==
    \/ u = "student" /\ op = "generate" /\ d.match \in {"SHORTLISTED", "MATCHED"}
    \/ /\ u \in {"student", "tutor"} /\ op = "sign" /\ d.agreement \in Pending
       /\ \/ d.signed = {"student", "tutor"}
          \/ u = "student" /\ d.signed = {}
          \/ u = "tutor" /\ d.signed = {"student"}
    \/ u = "student" /\ op = "release" /\ d.slot = "OCCUPIED"

AcceptsOfAftercare(u, op, d) ==
    \/ u \in {"student", "tutor"} /\ op = "rate" /\ d.req = "COMPLETED" /\ u \notin d.rated
    \/ /\ u \in {"student", "tutor"} /\ op = "dispute"
       /\ d.agreement \in {"ACTIVE", "COMPLETED"} /\ d.dispute = "none"
    \/ u = "admin" /\ op = "resolve" /\ d.dispute = "OPEN"

Accepts(u, op, d) ==
    \/ AcceptsOfRequirement(u, op, d) \/ AcceptsOfMatch(u, op, d) \/ AcceptsOfDemo(u, op, d)
    \/ AcceptsOfAgreement(u, op, d) \/ AcceptsOfAftercare(u, op, d)

Active(d) == [d EXCEPT !.req = "ACTIVE", !.match = "MATCHED", !.agreement = "ACTIVE",
                       !.slot = "OCCUPIED"]

(* Activation stores the document first, and may fail there.               *)
Signed(u, d) ==
    LET s == [d EXCEPT !.signed = @ \union {u}, !.agreement = "PENDING_TUTOR_SIGN"]
    IN  IF s.signed = {"student", "tutor"} THEN {s, Active(s)} ELSE {s}

Results(u, op, d) ==
    CASE op = "publish"   -> {[d EXCEPT !.req = "OPEN"]}
      [] op = "cancel"    -> {[d EXCEPT !.req = "CANCELLED"]}
      [] op = "complete"  -> {[d EXCEPT !.req = "COMPLETED", !.agreement = "COMPLETED"]}
      [] op = "apply"     -> {[d EXCEPT !.match = "APPLIED", !.applied = TRUE, !.req =
                                  IF d.req = "OPEN" THEN "APPLIED" ELSE d.req]}
      [] op = "invite"    -> {[d EXCEPT !.match = "INVITED"]}
      [] op = "shortlist" -> {[d EXCEPT !.match = "SHORTLISTED", !.req =
                                  IF d.req \in {"OPEN", "APPLIED"} THEN "SHORTLISTED" ELSE d.req]}
      [] op = "reject"    -> {[d EXCEPT !.match = "REJECTED"]}
      [] op = "withdraw"  -> {[d EXCEPT !.match = "WITHDRAWN"]}
      [] op = "book"      -> {[d EXCEPT !.demo = "SCHEDULED"]}
      [] op \in Outcomes  -> {[d EXCEPT !.demo = op]}
      [] op = "generate"  -> {[d EXCEPT !.agreement = IF d.agreement = "none"
                                  THEN "PENDING_STUDENT_SIGN" ELSE d.agreement]}
      [] op = "sign"      -> Signed(u, d)
      [] op = "release"   -> {[d EXCEPT !.slot = "RELEASED"]}
      [] op = "rate"      -> {[d EXCEPT !.rated = @ \union {u}]}
      [] op = "dispute"   -> {[d EXCEPT !.dispute = "OPEN"]}
      [] op = "resolve"   -> {[d EXCEPT !.dispute = "RESOLVED"]}

-----------------------------------------------------------------------------
(* The pages: what they load, and the actions they offer for it. *)

(* What the loads of a page answer; the inbox leaves out what was rejected *)
(* or withdrawn.                                                           *)
View(u, p, d) ==
    CASE p = "requirement" -> d.req
      [] p = "inbox"       -> IF d.match \in {"REJECTED", "WITHDRAWN"} THEN "none" ELSE d.match
      [] p = "mine"        -> d.match
      [] p = "demo"        -> d.demo
      [] p = "agreement"   -> <<d.agreement, d.signed, d.slot>>
      [] p = "ratings"     -> <<d.req, d.rated \intersect {u}>>
      [] p = "calendar"    -> d.slot
      [] p = "disputes"    -> d.dispute

OfferedOnRequirement(u, req) ==
    (IF u = "student" /\ req = "DRAFT" THEN {"publish"} ELSE {})
    \union (IF u = "student" /\ req \in Cancelable \union {"MATCHED"} THEN {"cancel"} ELSE {})
    \union (IF u = "student" /\ req \in Accepting THEN {"invite"} ELSE {})
    \union (IF u = "tutor" /\ req \in Accepting THEN {"apply"} ELSE {})
    \union (IF u \in {"student", "admin"} /\ req = "ACTIVE" THEN {"complete"} ELSE {})

(* Mutant: a row of the inbox can be rejected as long as it is there.      *)
OfferedInInboxAlways(match) ==
    (IF match \in Decidable THEN {"shortlist"} ELSE {})
    \union (IF match # "none" THEN {"reject"} ELSE {})
    \union (IF match = "SHORTLISTED" THEN {"book", "generate"} ELSE {})

(* A row leads to the forms that book a demo and generate the agreement.   *)
OfferedInInbox(match) ==
    (IF match \in Decidable THEN {"shortlist", "reject"} ELSE {})
    \union (IF match = "SHORTLISTED" THEN {"book", "generate"} ELSE {})

(* Mutant: who has signed is not asked to sign again.                      *)
OfferedOnAgreementOnce(u, view) ==
    (IF view[1] \in Pending /\ u \notin view[2] THEN {"sign"} ELSE {})
    \union (IF u = "student" /\ view[3] = "OCCUPIED" THEN {"release"} ELSE {})
    \union (IF view[1] \in {"ACTIVE", "COMPLETED"} THEN {"dispute"} ELSE {})

(* The button that signs stays for who has signed: it retries.             *)
OfferedOnAgreement(u, view) ==
    (IF view[1] \in Pending THEN {"sign"} ELSE {})
    \union (IF u = "student" /\ view[3] = "OCCUPIED" THEN {"release"} ELSE {})
    \union (IF view[1] \in {"ACTIVE", "COMPLETED"} THEN {"dispute"} ELSE {})

OfferedInMine(u, match) ==
    IF u = "tutor" /\ match \in Decidable THEN {"withdraw"} ELSE {}

(* Either party reports the outcome of a demo.                             *)
OfferedOnDemo(u, demo) ==
    IF u # "admin" /\ demo = "SCHEDULED" THEN Outcomes ELSE {}

OfferedWithRatings(u, view) ==
    IF u # "admin" /\ view = <<"COMPLETED", {}>> THEN {"rate"} ELSE {}

OfferedOnCalendar(u, slot) ==
    IF u = "student" /\ slot = "OCCUPIED" THEN {"release"} ELSE {}

OfferedOnDisputes(u, dispute) ==
    IF u = "admin" /\ dispute = "OPEN" THEN {"resolve"} ELSE {}

Offered(u, p, view) ==
    CASE p = "requirement" -> OfferedOnRequirement(u, view)
      [] p = "inbox"       -> IF u = "student" THEN OfferedInInbox(view) ELSE {}
      [] p = "mine"        -> OfferedInMine(u, view)
      [] p = "demo"        -> OfferedOnDemo(u, view)
      [] p = "agreement"   -> IF u # "admin" THEN OfferedOnAgreement(u, view) ELSE {}
      [] p = "ratings"     -> OfferedWithRatings(u, view)
      [] p = "calendar"    -> OfferedOnCalendar(u, view)
      [] p = "disputes"    -> OfferedOnDisputes(u, view)

(* The page that shows the outcome of an action: most load themselves      *)
(* again, some forms move on.                                              *)
Lands(op, p) ==
    CASE op = "apply"    -> "mine"
      [] op = "book"     -> "demo"
      [] op = "generate" -> "agreement"
      [] op = "dispute"  -> "disputes"
      [] OTHER           -> p

(* Actions whose answer the page shows without a load.                     *)
Answered == {"generate", "sign"}

(* The cache drops an answer when a write has exactly its path: of these   *)
(* actions only the creation of a dispute does.                            *)
Invalidates(op, p) == op = "dispute" /\ p = "disputes"

-----------------------------------------------------------------------------
Init ==
    /\ deal = NewDeal
    /\ user \in {"student", "tutor"}
    /\ tab = [page |-> "requirement", shown |-> "DRAFT"]
    /\ cache = [p \in PageNames |-> {}]
    /\ stale = FALSE

Room(p) == Cardinality({p} \union {q \in PageNames : cache[q] # {}}) <= MaxKept

(* A load of a page: answered from the cache c, or by the API.             *)
Load(p, c, d) ==
    LET view == IF c[p] # {} THEN CHOOSE v \in c[p] : TRUE ELSE View(user, p, d)
    IN  /\ tab' = [page |-> p, shown |-> view]
        /\ cache' = [c EXCEPT ![p] = {view}]

Visit(p) ==
    /\ Room(p)
    /\ Load(p, cache, deal)
    /\ UNCHANGED <<deal, user, stale>>

(* An action that is offered is clicked and accepted.                      *)
Click(op) ==
    LET p    == Lands(op, tab.page)
        left == [q \in PageNames |-> IF Invalidates(op, q) THEN {} ELSE cache[q]]
    IN  /\ Accepts(user, op, deal)
        /\ op \in Answered \/ Room(p)
        /\ deal' \in Results(user, op, deal)
        /\ IF op \in Answered
           THEN /\ tab' = [page |-> p, shown |-> View(user, p, deal')]
                /\ cache' = left
           ELSE Load(p, left, deal')
        /\ stale' = (stale \/ tab.shown # View(user, tab.page, deal))
        /\ UNCHANGED user

(* Anyone acts on a page that was just loaded, in another tab or on        *)
(* another device.                                                         *)
Elsewhere(u, op) ==
    /\ Accepts(u, op, deal)
    /\ deal' \in Results(u, op, deal)
    /\ UNCHANGED <<user, tab, cache, stale>>

(* The lifetime of a kept answer ends.                                     *)
Expire(p) ==
    /\ cache[p] # {}
    /\ cache' = [cache EXCEPT ![p] = {}]
    /\ UNCHANGED <<deal, user, tab, stale>>

Next ==
    \/ \E p \in PageNames : Visit(p) \/ Expire(p)
    \/ \E op \in Offered(user, tab.page, tab.shown) : Click(op)
    \/ \E u \in Users, p \in PageNames :
          \E op \in Offered(u, p, View(u, p, deal)) : Elsewhere(u, op)

Spec == Init /\ [][Next]_vars

-----------------------------------------------------------------------------
(* The deal is well-formed, and the tab shows the page it is on.           *)
TypeOK ==
    /\ deal \in Deals
    /\ user \in Users /\ tab.page \in PageNames
    /\ \A p \in PageNames : Cardinality(cache[p]) <= 1
    /\ stale \in BOOLEAN

(* The forms, and the button that signs, are offered again to who has used *)
(* them; the API refuses the repetition.  The button that signs is also    *)
(* offered to a tutor before the student has signed, and refused.          *)
Repeatable == {"apply", "invite", "book", "sign", "dispute"}

(* The conditions of the pages agree with those of the API: what a page    *)
(* offers when it shows the present is accepted, unless it is a form that  *)
(* was used before, or a page that was out of date was acted on.           *)
OffersAreHonoured ==
    ~stale => \A u \in Users, p \in PageNames :
        \A op \in Offered(u, p, View(u, p, deal)) \ Repeatable : Accepts(u, op, deal)

(* The student is never at a loss: a deal that is neither completed nor    *)
(* cancelled can be cancelled or completed on the requirement's page,      *)
(* unless a page that was out of date was acted on.                        *)
DealCanEnd ==
    ~stale /\ deal.req \notin {"COMPLETED", "CANCELLED"} =>
        \E op \in Offered("student", "requirement", deal.req) \intersect {"cancel", "complete"} :
            Accepts("student", op, deal)

(* An agreement that both have signed and whose activation failed can be   *)
(* activated by either of them from its page.                              *)
RetryIsOffered ==
    deal.signed = {"student", "tutor"} /\ deal.agreement \in Pending =>
        \A u \in {"student", "tutor"} :
            /\ "sign" \in Offered(u, "agreement", View(u, "agreement", deal))
            /\ Accepts(u, "sign", deal)

(* However old the pages are that are acted on, a deal that was completed  *)
(* stays completed.                                                        *)
FinishedStays ==
    [][deal.req = "COMPLETED" =>
          deal'.req = "COMPLETED" /\ deal'.agreement = "COMPLETED"]_vars
=============================================================================
