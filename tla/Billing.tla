------------------------------- MODULE Billing -------------------------------
(***************************************************************************)
(* What tutors owe and how it is paid: the registration fee, the           *)
(* commissions, the payments for either, the gateway that captures them    *)
(* and reports back by webhook, the hourly overdue scan and the admin's    *)
(* waiver.                                                                 *)
(*                                                                         *)
(* As in Engagement, a request in flight is the statement it runs next and *)
(* what it remembers of the rows it read.  Money moves at the gateway      *)
(* whether or not the platform is told; webhooks repeat and arrive in any  *)
(* order.  What the handlers do to isDiscoverable is in Listing.           *)
(***************************************************************************)
EXTENDS Naturals, FiniteSets, Gst

CONSTANTS Tutors, Commissions,
          TutorOf,    \* the tutor who owes each commission
          Payments,   \* ids of payment rows: at most this many payments
          Requests,   \* slots for requests in flight
          Faults,     \* TRUE if a handler may die at an await
          Nothing     \* no target

ASSUME TutorOfAssumption == TutorOf \in [Commissions -> Tutors]
ASSUME DistinctTargets == /\ Tutors \intersect Commissions = {}
                          /\ Nothing \notin Tutors \union Commissions \union Payments
ASSUME BillingFaults == Faults \in BOOLEAN

VARIABLES
    feeStatus,    \* Tutor.registrationFeeStatus
    feeChoice,    \* Tutor.registrationFeeChoice, "none" for null
    comStatus,    \* Commission.status, "none" before the row exists
    withFee,      \* the commissions with registrationGross > 0
    pastDue,      \* the commissions whose dueAt has passed
    payStatus,    \* Payment.status, "none" before the row exists
    payFor,       \* Payment.entityId: a tutor (registration) or a commission
    ordered,      \* the payments with a gatewayOrderId
    captured,     \* at the gateway: the orders whose money was taken
    declined,     \* at the gateway: the orders with a failed attempt
    request       \* the requests in flight

owed == <<feeStatus, feeChoice, comStatus, withFee, pastDue>>
paid == <<payStatus, payFor, ordered>>
gateway == <<captured, declined>>
vars == <<owed, paid, gateway, request>>

FeeStatus == {"PENDING", "PAID", "WAIVED", "REFUNDED"}
FeeChoice == {"none", "PAY_NOW", "EARN_FIRST"}
CommissionStatus == {"none", "PENDING", "GENERATED", "PAID", "OVERDUE",
                     "WAIVED", "CANCELLED"}
PaymentStatus == {"none", "CREATED", "PENDING", "SUCCESS", "FAILED"}
Unpaid == {"GENERATED", "OVERDUE"}

Payables == Tutors \union Commissions

-----------------------------------------------------------------------------
(* Requests in flight. *)

CommissionSteps == {"generate", "waive", "markPaid", "markPaidTx"}
PaymentSteps == {"order", "markSuccess", "markSuccessTx", "markFailed"}

Steps == {"idle", "choose", "overdue", "create"} \union CommissionSteps
           \union PaymentSteps

RequestSet == [step   : Steps,
               target : {Nothing} \union Payables \union Payments,
               choice : FeeChoice,              \* the fee plan asked for
               had    : BOOLEAN,                \* the fee was PENDING when read
               rows   : SUBSET Commissions]     \* the past-due rows found

Idle == [step |-> "idle", target |-> Nothing, choice |-> "none",
         had |-> FALSE, rows |-> {}]

Start(p, local) == request[p] = Idle /\ request' = [request EXCEPT ![p] = local]

Local(step, target) == [Idle EXCEPT !.step = step, !.target = target]

At(p, step) == request[p].step = step

Goto(p, step, target) == request' = [request EXCEPT ![p] = Local(step, target)]

Return(p) == request' = [request EXCEPT ![p] = Idle]

Init ==
    /\ feeStatus = [t \in Tutors |-> "PENDING"]
    /\ feeChoice = [t \in Tutors |-> "none"]
    /\ comStatus = [c \in Commissions |-> "none"]
    /\ withFee = {}
    /\ pastDue = {}
    /\ payStatus = [q \in Payments |-> "none"]
    /\ payFor = [q \in Payments |-> Nothing]
    /\ ordered = {}
    /\ captured = {}
    /\ declined = {}
    /\ request = [p \in Requests |-> Idle]

-----------------------------------------------------------------------------
(* The registration fee plan. *)

(* Mutant: the plan may be chosen again after the fee was paid.            *)
ChooseReadAgain(p, t, choice) ==
    /\ choice # "none"
    /\ feeStatus[t] # "WAIVED"
    /\ Start(p, [Local("choose", t) EXCEPT !.choice = choice])
    /\ UNCHANGED <<owed, paid, gateway>>

ChooseRead(p, t, choice) ==
    /\ choice # "none"
    /\ feeStatus[t] \notin {"PAID", "WAIVED"}
    /\ Start(p, [Local("choose", t) EXCEPT !.choice = choice])
    /\ UNCHANGED <<owed, paid, gateway>>

ChooseWrite(p) ==
    LET t == request[p].target
    IN  /\ At(p, "choose")
        /\ feeStatus' = [feeStatus EXCEPT ![t] = "PENDING"]
        /\ feeChoice' = [feeChoice EXCEPT ![t] = request[p].choice]
        /\ Return(p)
        /\ UNCHANGED <<comStatus, withFee, pastDue, paid, gateway>>

-----------------------------------------------------------------------------
(* Commissions: generated on activation, due in seven days, overdue,       *)
(* waived.                                                                 *)

GenerateRead(p, c) ==
    /\ comStatus[c] = "none"
    /\ Start(p, [Local("generate", c) EXCEPT !.had = feeStatus[TutorOf[c]] = "PENDING"])
    /\ UNCHANGED <<owed, paid, gateway>>

GenerateCreate(p) ==
    LET c == request[p].target
    IN  /\ At(p, "generate")
        /\ \/ comStatus[c] # "none" /\ UNCHANGED <<comStatus, withFee>>
           \/ /\ comStatus[c] = "none"
              /\ comStatus' = [comStatus EXCEPT ![c] = "GENERATED"]
              /\ withFee' = IF request[p].had THEN withFee \union {c} ELSE withFee
        /\ Return(p)
        /\ UNCHANGED <<feeStatus, feeChoice, pastDue, paid, gateway>>

DueDatePasses(c) ==
    /\ comStatus[c] # "none"
    /\ pastDue' = pastDue \union {c}
    /\ UNCHANGED <<feeStatus, feeChoice, comStatus, withFee, paid, gateway, request>>

(* Mutant: the query forgets the status.                                   *)
PastDueAnyStatus(S) == {c \in pastDue : TutorOf[c] \in S}

PastDueOf(S) == {c \in pastDue : comStatus[c] = "GENERATED" /\ TutorOf[c] \in S}

(* The hourly scan looks at all tutors, a tutor's own list at that tutor.  *)
OverdueRead(p, S) ==
    /\ PastDueOf(S) # {}
    /\ Start(p, [Local("overdue", Nothing) EXCEPT !.rows = PastDueOf(S)])
    /\ UNCHANGED <<owed, paid, gateway>>

OverdueWrite(p) ==
    /\ At(p, "overdue")
    /\ \E c \in request[p].rows :
          /\ comStatus' = [comStatus EXCEPT ![c] = "OVERDUE"]
          /\ \/ request[p].rows = {c} /\ Return(p)
             \/ /\ request[p].rows # {c}
                /\ request' = [request EXCEPT ![p].rows = @ \ {c}]
    /\ UNCHANGED <<feeStatus, feeChoice, withFee, pastDue, paid, gateway>>

(* Mutant: a paid commission may be waived.                                *)
WaiveReadAny(p, c) ==
    /\ comStatus[c] \notin {"none", "WAIVED"}
    /\ Start(p, Local("waive", c))
    /\ UNCHANGED <<owed, paid, gateway>>

WaiveRead(p, c) ==
    /\ comStatus[c] \notin {"none", "PAID", "WAIVED"}
    /\ Start(p, Local("waive", c))
    /\ UNCHANGED <<owed, paid, gateway>>

WaiveWrite(p) ==
    /\ At(p, "waive")
    /\ comStatus' = [comStatus EXCEPT ![request[p].target] = "WAIVED"]
    /\ Return(p)
    /\ UNCHANGED <<feeStatus, feeChoice, withFee, pastDue, paid, gateway>>

-----------------------------------------------------------------------------
(* Starting a payment: check, create the row, obtain a gateway order. *)

InitiateRead(p, x) ==
    /\ \/ /\ x \in Tutors
          /\ feeStatus[x] \notin {"PAID", "WAIVED"}
          /\ feeChoice[x] # "EARN_FIRST"
       \/ x \in Commissions /\ comStatus[x] \in Unpaid
    /\ Start(p, Local("create", x))
    /\ UNCHANGED <<owed, paid, gateway>>

(* Mutant: the row does not say what it is a payment for.                  *)
InitiateCreateUnlinked(p, q) ==
    /\ At(p, "create")
    /\ payStatus[q] = "none"
    /\ payStatus' = [payStatus EXCEPT ![q] = "CREATED"]
    /\ Goto(p, "order", q)
    /\ UNCHANGED <<owed, payFor, ordered, gateway>>

InitiateCreate(p, q) ==
    /\ At(p, "create")
    /\ payStatus[q] = "none"
    /\ payStatus' = [payStatus EXCEPT ![q] = "CREATED"]
    /\ payFor' = [payFor EXCEPT ![q] = request[p].target]
    /\ Goto(p, "order", q)
    /\ UNCHANGED <<owed, ordered, gateway>>

(* All ids of the bound Payments are used up: the request goes no further. *)
InitiateDrop(p) ==
    /\ At(p, "create")
    /\ \A q \in Payments : payStatus[q] # "none"
    /\ Return(p)
    /\ UNCHANGED <<owed, paid, gateway>>

CreateOrder(p) ==
    LET q == request[p].target
    IN  /\ At(p, "order")
        /\ ordered' = ordered \union {q}
        /\ payStatus' = [payStatus EXCEPT ![q] = "PENDING"]
        /\ Return(p)
        /\ UNCHANGED <<owed, payFor, gateway>>

-----------------------------------------------------------------------------
(* The gateway (external): an order is paid once, after any number of      *)
(* failed attempts.                                                        *)

Decline(q) ==
    /\ q \in ordered \ captured
    /\ declined' = declined \union {q}
    /\ UNCHANGED <<owed, paid, captured, request>>

Capture(q) ==
    /\ q \in ordered \ captured
    /\ captured' = captured \union {q}
    /\ UNCHANGED <<owed, paid, declined, request>>

-----------------------------------------------------------------------------
(* News of a payment: webhooks, and the browser coming back from checkout. *)

(* Mutant: a payment that once failed is not looked at again.              *)
WebhookCapturedFirst(p, q) ==
    /\ q \in captured
    /\ payStatus[q] \notin {"SUCCESS", "FAILED"}
    /\ Start(p, Local("markSuccess", q))
    /\ UNCHANGED <<owed, paid, gateway>>

(* Mutant: any event about an order counts as a capture.                   *)
WebhookAny(p, q) ==
    /\ q \in captured \union declined
    /\ payStatus[q] # "SUCCESS"
    /\ Start(p, Local("markSuccess", q))
    /\ UNCHANGED <<owed, paid, gateway>>

WebhookCaptured(p, q) ==
    /\ q \in captured
    /\ payStatus[q] # "SUCCESS"
    /\ Start(p, Local("markSuccess", q))
    /\ UNCHANGED <<owed, paid, gateway>>

(* Mutant: no test for a payment that already succeeded.                   *)
WebhookFailedLate(p, q) ==
    /\ q \in declined
    /\ Start(p, Local("markFailed", q))
    /\ UNCHANGED <<owed, paid, gateway>>

WebhookFailed(p, q) ==
    /\ q \in declined
    /\ payStatus[q] # "SUCCESS"
    /\ Start(p, Local("markFailed", q))
    /\ UNCHANGED <<owed, paid, gateway>>

(* Mutant: the browser's signature is not compared.                        *)
VerifyClientTrusting(p, q, valid) ==
    /\ q \in ordered
    /\ payStatus[q] # "SUCCESS"
    /\ Start(p, Local("markSuccess", q))
    /\ UNCHANGED <<owed, paid, gateway>>

(* The gateway signs for the browser only what it captured; any other      *)
(* signature is found to be wrong.                                         *)
VerifyClient(p, q, valid) ==
    /\ q \in ordered
    /\ payStatus[q] # "SUCCESS"
    /\ valid => q \in captured
    /\ Start(p, Local(IF valid THEN "markSuccess" ELSE "markFailed", q))
    /\ UNCHANGED <<owed, paid, gateway>>

MarkFailed(p) ==
    /\ At(p, "markFailed")
    /\ payStatus' = [payStatus EXCEPT ![request[p].target] = "FAILED"]
    /\ Return(p)
    /\ UNCHANGED <<owed, payFor, ordered, gateway>>

MarkSuccessRead(p) ==
    LET q == request[p].target
    IN  /\ At(p, "markSuccess")
        /\ \/ payStatus[q] = "SUCCESS" /\ Return(p)
           \/ payStatus[q] # "SUCCESS" /\ Goto(p, "markSuccessTx", q)
        /\ UNCHANGED <<owed, paid, gateway>>

(* A commission is settled, and with it the registration fee it includes. *)
Settle(c) ==
    \/ comStatus[c] = "PAID" /\ UNCHANGED <<comStatus, feeStatus>>
    \/ /\ comStatus[c] # "PAID"
       /\ comStatus' = [comStatus EXCEPT ![c] = "PAID"]
       /\ feeStatus' = IF c \in withFee THEN [feeStatus EXCEPT ![TutorOf[c]] = "PAID"]
                       ELSE feeStatus

(* Mutant: the payment and what it pays for in two transactions.           *)
MarkSuccessAlone(p) ==
    LET q == request[p].target
        x == payFor[q]
    IN  /\ At(p, "markSuccessTx")
        /\ payStatus' = [payStatus EXCEPT ![q] = "SUCCESS"]
        /\ \/ /\ x \in Tutors
              /\ feeStatus' = [feeStatus EXCEPT ![x] = "PAID"]
              /\ Return(p)
           \/ x \in Commissions /\ UNCHANGED feeStatus /\ Goto(p, "markPaid", x)
        /\ UNCHANGED <<comStatus, feeChoice, withFee, pastDue, payFor, ordered, gateway>>

(* Mutant: markPaid is called with the payment's id.                       *)
MarkSuccessOfPayment(p) ==
    LET q == request[p].target
        x == payFor[q]
    IN  /\ At(p, "markSuccessTx")
        /\ payStatus' = [payStatus EXCEPT ![q] = "SUCCESS"]
        /\ \/ /\ x \in Tutors
              /\ feeStatus' = [feeStatus EXCEPT ![x] = "PAID"]
              /\ UNCHANGED comStatus
              /\ Return(p)
           \/ x \in Commissions /\ Settle(x) /\ Goto(p, "markPaid", q)
        /\ UNCHANGED <<feeChoice, withFee, pastDue, payFor, ordered, gateway>>

MarkSuccessTx(p) ==
    LET q == request[p].target
        x == payFor[q]
    IN  /\ At(p, "markSuccessTx")
        /\ payStatus' = [payStatus EXCEPT ![q] = "SUCCESS"]
        /\ \/ /\ x \in Tutors
              /\ feeStatus' = [feeStatus EXCEPT ![x] = "PAID"]
              /\ UNCHANGED comStatus
              /\ Return(p)
           \/ x \in Commissions /\ Settle(x) /\ Goto(p, "markPaid", x)
        /\ UNCHANGED <<feeChoice, withFee, pastDue, payFor, ordered, gateway>>

MarkPaidRead(p) ==
    LET c == request[p].target
    IN  /\ At(p, "markPaid")
        /\ \/ comStatus[c] = "PAID" /\ Return(p)
           \/ comStatus[c] # "PAID" /\ Goto(p, "markPaidTx", c)
        /\ UNCHANGED <<owed, paid, gateway>>

(* Unlike Settle, this transaction does not look at the status again.      *)
MarkPaidTx(p) ==
    LET c == request[p].target
    IN  /\ At(p, "markPaidTx")
        /\ comStatus' = [comStatus EXCEPT ![c] = "PAID"]
        /\ feeStatus' = IF c \in withFee THEN [feeStatus EXCEPT ![TutorOf[c]] = "PAID"]
                        ELSE feeStatus
        /\ Return(p)
        /\ UNCHANGED <<feeChoice, withFee, pastDue, paid, gateway>>

-----------------------------------------------------------------------------
Die(p) ==
    /\ Faults
    /\ ~At(p, "idle")
    /\ Return(p)
    /\ UNCHANGED <<owed, paid, gateway>>

Resume(p) ==
    \/ ChooseWrite(p) \/ GenerateCreate(p) \/ OverdueWrite(p) \/ WaiveWrite(p)
    \/ \E q \in Payments : InitiateCreate(p, q)
    \/ InitiateDrop(p) \/ CreateOrder(p)
    \/ MarkFailed(p) \/ MarkSuccessRead(p) \/ MarkSuccessTx(p)
    \/ MarkPaidRead(p) \/ MarkPaidTx(p)

Arrive(p) ==
    \/ \E t \in Tutors : \/ \E choice \in FeeChoice : ChooseRead(p, t, choice)
                         \/ OverdueRead(p, {t})
    \/ \E c \in Commissions : GenerateRead(p, c) \/ WaiveRead(p, c)
    \/ OverdueRead(p, Tutors)
    \/ \E x \in Payables : InitiateRead(p, x)
    \/ \E q \in Payments : \/ WebhookCaptured(p, q) \/ WebhookFailed(p, q)
                           \/ \E valid \in BOOLEAN : VerifyClient(p, q, valid)

Next ==
    \/ \E c \in Commissions : DueDatePasses(c)
    \/ \E q \in Payments : Decline(q) \/ Capture(q)
    \/ \E p \in Requests : Arrive(p) \/ Resume(p) \/ Die(p)

Spec == Init /\ [][Next]_vars

(* Handlers run to their end, at last none dies any more, and the gateway  *)
(* repeats a captured webhook until some request slot takes it.            *)
FairSpec ==
    /\ Spec
    /\ \A p \in Requests : WF_vars(Resume(p))
    /\ \A q \in Payments : SF_vars(\E p \in Requests : WebhookCaptured(p, q))
    /\ <>[][\A p \in Requests : ~Die(p)]_vars
-----------------------------------------------------------------------------
(* Types. *)

RowsOK ==
    /\ feeStatus \in [Tutors -> FeeStatus]
    /\ feeChoice \in [Tutors -> FeeChoice]
    /\ comStatus \in [Commissions -> CommissionStatus]
    /\ withFee \subseteq Commissions
    /\ pastDue \subseteq Commissions
    /\ payStatus \in [Payments -> PaymentStatus]
    /\ payFor \in [Payments -> {Nothing} \union Payables]
    /\ ordered \subseteq Payments
    /\ captured \subseteq ordered
    /\ declined \subseteq ordered

RequestsOK ==
    /\ request \in [Requests -> RequestSet]
    /\ \A p \in Requests :
          /\ At(p, "choose") => request[p].target \in Tutors
          /\ At(p, "create") => request[p].target \in Payables
          /\ request[p].step \in CommissionSteps => request[p].target \in Commissions
          /\ request[p].step \in PaymentSteps => request[p].target \in Payments

(* Every column holds a value of its enum and every request in flight      *)
(* works on a row of its kind.                                             *)
TypeOK == RowsOK /\ RequestsOK

-----------------------------------------------------------------------------
(* Safety, under any interleaving and failure. *)

(* Money that was captured for x, or for a commission that includes x's    *)
(* registration fee.                                                       *)
CapturedFor(x) == \E q \in captured : payFor[q] = x

FeeCaptured(t) == \/ CapturedFor(t)
                  \/ \E c \in withFee : TutorOf[c] = t /\ CapturedFor(c)

(* A payment is SUCCESS only if the gateway captured its order, whatever   *)
(* mixture of webhooks, wrong signatures and retries the platform saw.     *)
SuccessIsCaptured == \A q \in Payments : payStatus[q] = "SUCCESS" => q \in captured

(* A commission is PAID, and a registration fee PAID, only on money that   *)
(* was captured for it: markSuccess and the second markPaid after it       *)
(* settle nothing that was not charged.                                    *)
SettledIsCaptured ==
    /\ \A c \in Commissions : comStatus[c] = "PAID" => CapturedFor(c)
    /\ \A t \in Tutors : feeStatus[t] = "PAID" => FeeCaptured(t)

(* The lines of a commission's invoice add up to its charge, whatever the  *)
(* monthly fee and whether or not the registration fee was PENDING when it *)
(* was generated (generateForAgreement, gst.ts).                           *)
InvoiceBalances ==
    \A c \in Commissions : comStatus[c] # "none" =>
        AllBalance[IF c \in withFee THEN RegistrationFee ELSE 0]

(* What payment rows and requests in flight must satisfy for a step to     *)
(* keep the two properties above: an inductive invariant.                  *)
PaymentsConsistent ==
    \A q \in Payments :
        /\ q \in ordered => payStatus[q] # "none"
        /\ payStatus[q] # "none" => payFor[q] \in Payables

RequestConsistent(p) ==
    LET x == request[p].target
    IN  /\ At(p, "order") => payStatus[x] # "none"
        /\ At(p, "markFailed") => x \in ordered
        /\ At(p, "markSuccess") \/ At(p, "markSuccessTx") => x \in captured
        /\ At(p, "markPaid") \/ At(p, "markPaidTx") => CapturedFor(x)

Consistent == /\ TypeOK /\ PaymentsConsistent
              /\ SuccessIsCaptured /\ SettledIsCaptured
              /\ \A p \in Requests : RequestConsistent(p)

-----------------------------------------------------------------------------
(* What one request at a time keeps, and overlapping requests do not. *)

(* What a handler read before it writes is still so when it writes: the    *)
(* hypothesis of every check-then-update in these services, and true if    *)
(* there is no other request in between.                                   *)
ReadsAreFresh ==
    \A p \in Requests :
        LET x == request[p].target
        IN  /\ At(p, "choose") => feeStatus[x] # "PAID"
            /\ At(p, "waive") => comStatus[x] # "PAID"
            /\ At(p, "overdue") => \A c \in request[p].rows : comStatus[c] = "GENERATED"
            /\ At(p, "order") \/ At(p, "markFailed") => payStatus[x] # "SUCCESS"

(* A payment that succeeded has settled what it was for: markSuccess       *)
(* updates both in one transaction and nothing later reverts either.       *)
SuccessSettles ==
    \A q \in Payments : payStatus[q] = "SUCCESS" =>
        IF payFor[q] \in Tutors THEN feeStatus[payFor[q]] = "PAID"
        ELSE comStatus[payFor[q]] = "PAID"

(* Reads and settlements together: inductive, beside Consistent, as long   *)
(* as requests do not overlap (waive, chooseRegistrationFee, markSuccess). *)
ConsistentAlone == ReadsAreFresh /\ SuccessSettles

(* commissions.service.ts: "Cannot waive a paid commission".  Neither a    *)
(* waiver nor the overdue scan replaces PAID.                              *)
PaidIsFinal ==
    [][\A c \in Commissions : comStatus[c] = "PAID" => comStatus'[c] = "PAID"]_vars

(* payments.service.ts: "Idempotent - already SUCCESS".  News that comes   *)
(* after a success does not change the payment any more.                   *)
SuccessIsFinal ==
    [][\A q \in Payments : payStatus[q] = "SUCCESS" => payStatus'[q] = "SUCCESS"]_vars

(* tutors.service.ts: "Registration fee choice already finalized".  A paid *)
(* fee is not reopened by a choice of plan.                                *)
FeeStaysPaid ==
    [][\A t \in Tutors : feeStatus[t] = "PAID" => feeStatus'[t] = "PAID"]_vars

(* What was paid is never taken back, neither the commission, nor the      *)
(* payment, nor the fee (waive, handleWebhook, chooseRegistrationFee).     *)
FinalStays == PaidIsFinal /\ SuccessIsFinal /\ FeeStaysPaid

(* What the gateway captured is recorded at last and stays recorded, after *)
(* any number of failed attempts, lost answers and handlers that died.     *)
CapturedIsRecorded ==
    \A q \in Payments : q \in captured ~> [](payStatus[q] = "SUCCESS")

=============================================================================
