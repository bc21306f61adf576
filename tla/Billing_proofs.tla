--------------------------- MODULE Billing_proofs ---------------------------
(***************************************************************************)
(* Proofs about Billing, for any number of tutors, commissions, payments   *)
(* and concurrent requests, with or without faults, and about the invoices *)
(* of its commissions (Gst), whatever the fees.                            *)
(***************************************************************************)
EXTENDS Billing, TLAPS

-----------------------------------------------------------------------------
(* The arithmetic of an invoice. *)

(* Rounding moves a quotient by at most a half.                            *)
LEMMA RoundedIsNear ==
    ASSUME NEW a \in Nat, NEW b \in Nat, b > 0
    PROVE  /\ Rounded(a, b) \in Nat
           /\ 2 * a - b < 2 * b * Rounded(a, b)
           /\ 2 * b * Rounded(a, b) <= 2 * a + b
<1>. DEFINE n == 2 * a + b
            d == 2 * b
<1>1. n \in Nat /\ d \in Nat /\ d > 0
  OBVIOUS
<1>2. n \div d \in Nat /\ d * (n \div d) <= n /\ n < d * (n \div d) + d
  <2>. HIDE DEF n, d
  <2>. QED  BY <1>1, Z3
<1>. QED  BY <1>2 DEF Rounded

(* The taxable amount is near the quotient, and never more than the price. *)
LEMMA TaxableIsNear ==
    ASSUME NEW gross \in Nat
    PROVE  /\ Taxable(gross) \in Nat
           /\ 20000 * gross - 118 < 236 * Taxable(gross)
           /\ 236 * Taxable(gross) <= 20000 * gross + 118
<1>1. 100 * 100 * gross \in Nat
  OBVIOUS
<1>. DEFINE t == Rounded(100 * 100 * gross, 118)
<1>2. /\ t \in Nat
      /\ 2 * (100 * 100 * gross) - 118 < 2 * 118 * t
      /\ 2 * 118 * t <= 2 * (100 * 100 * gross) + 118
  BY <1>1, RoundedIsNear
<1>. QED  BY <1>2 DEF Taxable

LEMMA CommissionTyped ==
    ASSUME NEW fee \in Nat
    PROVE  CommissionGross(fee) \in Nat
<1>1. 3 * fee \in Nat
  OBVIOUS
<1>. QED  BY <1>1, RoundedIsNear DEF CommissionGross

(* The halves of a whole number of paise.                                  *)
LEMMA HalvesAddUp ==
    ASSUME NEW tax \in Int, NEW half \in Halves(tax)
    PROVE  half[1] + half[2] = tax /\ Abs(half[1] - half[2]) <= 1
<1>1. PICK h \in {tax \div 2, (tax + 1) \div 2} : half = <<h, tax - h>>
  BY DEF Halves
<1>2. h \in Int /\ half[1] = h /\ half[2] = tax - h
  BY <1>1
<1>3. -1 <= 2 * h - tax /\ 2 * h - tax <= 1
  BY <1>1, <1>2
<1>. QED  BY <1>2, <1>3 DEF Abs

(* The lines are one or two, and without the fee the second adds nothing.  *)
LEMMA LinesAddUp ==
    ASSUME NEW fee \in Nat, NEW registration \in Nat
    PROVE  LET l == LineItems(fee, registration)
           IN  Invoice(fee, registration) =
                  IF Len(l) = 1 THEN l[1]
                  ELSE [gross |-> l[1].gross + l[2].gross, taxable |-> l[1].taxable + l[2].taxable,
                        tax |-> l[1].tax + l[2].tax]
<1>. DEFINE commission == CommissionGross(fee)
            a == Line(commission)
            b == Line(registration)
            l == LineItems(fee, registration)
<1>1. commission \in Nat /\ Taxable(commission) \in Nat /\ Taxable(registration) \in Nat
  BY CommissionTyped, TaxableIsNear
<1>2. /\ a.gross = commission /\ a.taxable = Taxable(commission) /\ a.tax = Tax(commission)
      /\ b.gross = registration /\ b.taxable = Taxable(registration) /\ b.tax = Tax(registration)
  BY DEF Line
<1>3. Invoice(fee, registration) =
        [gross |-> a.gross + b.gross, taxable |-> a.taxable + b.taxable, tax |-> a.tax + b.tax]
  BY <1>2 DEF Invoice
<1>4. CASE registration > 0
  <2>1. Len(l) = 2 /\ l[1] = a /\ l[2] = b
    BY <1>4 DEF LineItems
  <2>. QED  BY <1>3, <2>1
<1>5. CASE registration = 0
  <2>1. Len(l) = 1 /\ l[1] = a
    BY <1>5 DEF LineItems
  <2>2. Taxable(registration) = 0 /\ Tax(registration) = 0
    BY <1>1, <1>5, TaxableIsNear DEF Tax
  <2>3. Tax(commission) \in Int
    BY <1>1 DEF Tax
  <2>4. Invoice(fee, registration) =
          [gross |-> commission, taxable |-> Taxable(commission), tax |-> Tax(commission)]
    BY <1>1, <1>2, <1>3, <1>5, <2>2, <2>3
  <2>. QED  BY <2>1, <2>4 DEF Line
<1>. QED  BY <1>4, <1>5

(* For every monthly fee, with and without the registration fee, the parts *)
(* that gst.ts computes line by line add up to the charge and the tax is   *)
(* right to the paisa.                                                     *)
THEOREM EveryInvoiceBalances ==
    \A registration \in {0, RegistrationFee} : AllBalance[registration]
<1>. SUFFICES ASSUME NEW fee \in Fees, NEW registration \in {0, RegistrationFee}
              PROVE  Balances(fee, registration)
  BY DEF AllBalance
<1>. DEFINE commission == CommissionGross(fee)
            t1 == Taxable(commission)
            t2 == Taxable(registration)
            i == Invoice(fee, registration)
<1>1. fee \in Nat /\ registration \in Nat
  BY FeesAssumption DEF RegistrationFee
<1>2. commission \in Nat
  BY <1>1, CommissionTyped
<1>3. /\ t1 \in Nat
      /\ 20000 * commission - 118 < 236 * t1 /\ 236 * t1 <= 20000 * commission + 118
  <2>. HIDE DEF commission
  <2>. QED  BY <1>2, TaxableIsNear
<1>4. /\ t2 \in Nat
      /\ 20000 * registration - 118 < 236 * t2 /\ 236 * t2 <= 20000 * registration + 118
  <2>1. \A gross \in Nat : /\ Taxable(gross) \in Nat
                           /\ 20000 * gross - 118 < 236 * Taxable(gross)
                           /\ 236 * Taxable(gross) <= 20000 * gross + 118
    BY TaxableIsNear
  <2>. HIDE DEF commission, t1, i
  <2>2. registration \in Nat
    BY <1>1
  <2>. QED  BY <2>1, <2>2
<1>5. /\ i.gross = commission + registration
      /\ i.taxable = t1 + t2
      /\ i.tax = (100 * commission - t1) + (100 * registration - t2)
  BY DEF Invoice, Tax
<1>. HIDE DEF commission, t1, t2, i
<1>6. i.taxable + i.tax = 100 * i.gross
  BY <1>1, <1>2, <1>3, <1>4, <1>5
<1>7. Abs(100 * i.tax - 18 * i.taxable) <= 118
  <2>1. 100 * i.tax - 18 * i.taxable =
          10000 * (commission + registration) - 118 * (t1 + t2)
    BY <1>1, <1>2, <1>3, <1>4, <1>5
  <2>. QED  BY <2>1, <1>1, <1>2, <1>3, <1>4 DEF Abs
<1>8. i.tax \in Int
  BY <1>1, <1>2, <1>3, <1>4, <1>5
<1>9. \A half \in Halves(i.tax) : half[1] + half[2] = i.tax /\ Abs(half[1] - half[2]) <= 1
  BY <1>8, HalvesAddUp
<1>10. i = IF Len(LineItems(fee, registration)) = 1 THEN LineItems(fee, registration)[1]
          ELSE [gross   |-> LineItems(fee, registration)[1].gross
                              + LineItems(fee, registration)[2].gross,
                taxable |-> LineItems(fee, registration)[1].taxable
                              + LineItems(fee, registration)[2].taxable,
                tax     |-> LineItems(fee, registration)[1].tax
                              + LineItems(fee, registration)[2].tax]
  BY <1>2, LinesAddUp, <1>1 DEF i, commission
<1>. QED  BY <1>6, <1>7, <1>9, <1>10 DEF i, Balances

-----------------------------------------------------------------------------

USE DEF CommissionSteps, PaymentSteps, At, Payables, Steps

-----------------------------------------------------------------------------
(* How the requests in flight keep their types. *)

LEMMA LocalTyped ==
    ASSUME NEW step \in Steps, NEW target \in {Nothing} \union Payables \union Payments
    PROVE  /\ Local(step, target) \in RequestSet
           /\ Local(step, target).step = step
           /\ Local(step, target).target = target
BY DEF Local, Idle, RequestSet, FeeChoice

(* A request may start, or go on, at a step whose target is of its kind.   *)
LEMMA SetTyped ==
    ASSUME RequestsOK, NEW p \in Requests, NEW local \in RequestSet,
           request' = [request EXCEPT ![p] = local],
           local.step = "choose" => local.target \in Tutors,
           local.step = "create" => local.target \in Payables,
           local.step \in CommissionSteps => local.target \in Commissions,
           local.step \in PaymentSteps => local.target \in Payments
    PROVE  RequestsOK'
BY DEF RequestsOK

LEMMA ReturnTyped ==
    ASSUME RequestsOK, NEW p \in Requests, Return(p)
    PROVE  RequestsOK'
<1>1. Idle \in RequestSet /\ Idle.step = "idle"
  BY DEF Idle, RequestSet, FeeChoice
<1> QED
  BY <1>1, SetTyped DEF Return

LEMMA GotoTyped ==
    ASSUME RequestsOK, NEW p \in Requests,
           NEW step \in CommissionSteps \union PaymentSteps, NEW target,
           Goto(p, step, target),
           step \in CommissionSteps => target \in Commissions,
           step \in PaymentSteps => target \in Payments
    PROVE  RequestsOK'
<1>1. Local(step, target) \in RequestSet /\ Local(step, target).step = step
      /\ Local(step, target).target = target
  BY LocalTyped
<1> QED
  BY <1>1, SetTyped DEF Goto

-----------------------------------------------------------------------------
(* Type correctness. *)

(* The steps of a handler that has been started keep the types. *)
LEMMA ResumeTyped ==
    ASSUME TypeOK, NEW p \in Requests, Resume(p)
    PROVE  TypeOK'
<1> DEFINE x == request[p].target
<1> USE DEF TypeOK, owed, paid, gateway
<1>t. /\ At(p, "choose") => x \in Tutors
      /\ At(p, "create") => x \in Payables
      /\ request[p].step \in CommissionSteps => x \in Commissions
      /\ request[p].step \in PaymentSteps => x \in Payments
      /\ request[p] \in RequestSet
  BY DEF RequestsOK
<1>1. CASE ChooseWrite(p)
  BY <1>1, <1>t, ReturnTyped DEF ChooseWrite, RowsOK, FeeStatus, RequestSet
<1>2. CASE GenerateCreate(p)
  BY <1>2, <1>t, ReturnTyped DEF GenerateCreate, RowsOK, CommissionStatus
<1>3. CASE OverdueWrite(p)
  <2>1. PICK c \in request[p].rows :
           /\ comStatus' = [comStatus EXCEPT ![c] = "OVERDUE"]
           /\ \/ Return(p)
              \/ request' = [request EXCEPT ![p].rows = @ \ {c}]
    BY <1>3 DEF OverdueWrite
  <2>2. RowsOK'
    BY <1>3, <2>1 DEF OverdueWrite, RowsOK, CommissionStatus
  <2>3. RequestsOK'
    <3>1. CASE request' = [request EXCEPT ![p].rows = @ \ {c}]
      <4>1. [request[p] EXCEPT !.rows = @ \ {c}] \in RequestSet
        BY <1>t DEF RequestSet
      <4> QED
        BY <3>1, <4>1, <1>3, <1>t DEF RequestsOK, OverdueWrite, RequestSet
    <3> QED
      BY <2>1, <3>1, ReturnTyped
  <2> QED
    BY <2>2, <2>3
<1>4. CASE WaiveWrite(p)
  BY <1>4, <1>t, ReturnTyped DEF WaiveWrite, RowsOK, CommissionStatus
<1>5. ASSUME NEW q \in Payments, InitiateCreate(p, q) PROVE TypeOK'
  BY <1>5, <1>t, GotoTyped DEF InitiateCreate, RowsOK, PaymentStatus
<1>6. CASE InitiateDrop(p)
  BY <1>6, ReturnTyped DEF InitiateDrop, RowsOK
<1>7. CASE CreateOrder(p)
  BY <1>7, <1>t, ReturnTyped DEF CreateOrder, RowsOK, PaymentStatus
<1>8. CASE MarkFailed(p)
  BY <1>8, <1>t, ReturnTyped DEF MarkFailed, RowsOK, PaymentStatus
<1>9. CASE MarkSuccessRead(p)
  BY <1>9, <1>t, ReturnTyped, GotoTyped DEF MarkSuccessRead, RowsOK
<1>10. CASE MarkSuccessTx(p)
  <2>1. RowsOK'
    BY <1>10, <1>t, TutorOfAssumption
    DEF MarkSuccessTx, Settle, RowsOK, PaymentStatus, FeeStatus, CommissionStatus
  <2>2. RequestsOK'
    BY <1>10, <1>t, ReturnTyped, GotoTyped DEF MarkSuccessTx
  <2> QED
    BY <2>1, <2>2
<1>11. CASE MarkPaidRead(p)
  BY <1>11, <1>t, ReturnTyped, GotoTyped DEF MarkPaidRead, RowsOK
<1>12. CASE MarkPaidTx(p)
  BY <1>12, <1>t, ReturnTyped, TutorOfAssumption
  DEF MarkPaidTx, RowsOK, FeeStatus, CommissionStatus
<1> QED
  BY <1>1, <1>2, <1>3, <1>4, <1>5, <1>6, <1>7, <1>8, <1>9, <1>10, <1>11, <1>12
  DEF Resume

(* Where a request that has arrived can be, given what its reads found.    *)
Arrived(local) ==
    /\ local.step \in {"choose", "generate", "overdue", "waive", "create",
                       "markSuccess", "markFailed"}
    /\ local.step = "choose" => local.target \in Tutors
    /\ local.step = "create" => local.target \in Payables
    /\ local.step \in {"generate", "waive"} => local.target \in Commissions
    /\ local.step = "markSuccess" => local.target \in captured
    /\ local.step = "markFailed" => local.target \in ordered
    /\ local.step = "choose" => feeStatus[local.target] # "PAID"
    /\ local.step = "waive" => comStatus[local.target] # "PAID"
    /\ local.step = "overdue" => \A c \in local.rows : comStatus[c] = "GENERATED"
    /\ local.step = "markFailed" => payStatus[local.target] # "SUCCESS"

(* A request that arrives only reads. *)
LEMMA ArriveReads ==
    ASSUME TypeOK, NEW p \in Requests, Arrive(p)
    PROVE  /\ UNCHANGED <<owed, paid, gateway>>
           /\ \E local \in RequestSet : Start(p, local) /\ Arrived(local)
<1> USE DEF TypeOK, RowsOK
<1>1. ASSUME NEW t \in Tutors, NEW choice \in FeeChoice, ChooseRead(p, t, choice)
      PROVE  /\ UNCHANGED <<owed, paid, gateway>>
             /\ \E local \in RequestSet : Start(p, local) /\ Arrived(local)
  <2> DEFINE local == [Local("choose", t) EXCEPT !.choice = choice]
  <2>1. local \in RequestSet /\ local.step = "choose" /\ local.target = t
    BY DEF Local, Idle, RequestSet
  <2>2. Start(p, local) /\ UNCHANGED <<owed, paid, gateway>>
    BY <1>1 DEF ChooseRead
  <2>3. feeStatus[t] # "PAID"
    BY <1>1 DEF ChooseRead
  <2> HIDE DEF local
  <2> QED
    BY <2>1, <2>2, <2>3 DEF Arrived
<1>2. ASSUME NEW S, OverdueRead(p, S)
      PROVE  /\ UNCHANGED <<owed, paid, gateway>>
             /\ \E local \in RequestSet : Start(p, local) /\ Arrived(local)
  <2> DEFINE local == [Local("overdue", Nothing) EXCEPT !.rows = PastDueOf(S)]
  <2>1. local \in RequestSet /\ local.step = "overdue" /\ local.rows = PastDueOf(S)
    BY DEF Local, Idle, RequestSet, PastDueOf, FeeChoice
  <2>2. Start(p, local) /\ UNCHANGED <<owed, paid, gateway>>
    BY <1>2 DEF OverdueRead
  <2> HIDE DEF local
  <2> QED
    BY <2>1, <2>2 DEF Arrived, PastDueOf
<1>3. ASSUME NEW c \in Commissions, GenerateRead(p, c)
      PROVE  /\ UNCHANGED <<owed, paid, gateway>>
             /\ \E local \in RequestSet : Start(p, local) /\ Arrived(local)
  <2> DEFINE local == [Local("generate", c) EXCEPT
                         !.had = feeStatus[TutorOf[c]] = "PENDING"]
  <2>1. local \in RequestSet /\ local.step = "generate" /\ local.target = c
    BY DEF Local, Idle, RequestSet, FeeChoice
  <2>2. Start(p, local) /\ UNCHANGED <<owed, paid, gateway>>
    BY <1>3 DEF GenerateRead
  <2> HIDE DEF local
  <2> QED
    BY <2>1, <2>2 DEF Arrived
<1>4. ASSUME NEW step \in {"waive", "create", "markSuccess", "markFailed"},
             NEW x \in Payables \union Payments,
             Start(p, Local(step, x)), UNCHANGED <<owed, paid, gateway>>,
             step = "create" => x \in Payables,
             step = "waive" => x \in Commissions /\ comStatus[x] # "PAID",
             step = "markSuccess" => x \in captured,
             step = "markFailed" => x \in ordered /\ payStatus[x] # "SUCCESS"
      PROVE  /\ UNCHANGED <<owed, paid, gateway>>
             /\ \E local \in RequestSet : Start(p, local) /\ Arrived(local)
  <2> DEFINE local == Local(step, x)
  <2>1. local \in RequestSet /\ local.step = step /\ local.target = x
    BY LocalTyped
  <2>2. Start(p, local)
    BY <1>4
  <2> HIDE DEF local
  <2>3. Arrived(local)
    BY <2>1, <1>4 DEF Arrived
  <2> QED
    BY <2>1, <2>2, <2>3, <1>4
<1>5. ASSUME NEW c \in Commissions, WaiveRead(p, c)
      PROVE  /\ comStatus[c] # "PAID" /\ Start(p, Local("waive", c))
             /\ UNCHANGED <<owed, paid, gateway>>
  BY <1>5 DEF WaiveRead
<1>6. ASSUME NEW x \in Payables, InitiateRead(p, x)
      PROVE  Start(p, Local("create", x)) /\ UNCHANGED <<owed, paid, gateway>>
  BY <1>6 DEF InitiateRead
<1>7. ASSUME NEW q \in Payments,
             \/ WebhookCaptured(p, q) \/ WebhookFailed(p, q)
             \/ \E valid \in BOOLEAN : VerifyClient(p, q, valid)
      PROVE  /\ UNCHANGED <<owed, paid, gateway>>
             /\ \/ q \in captured /\ Start(p, Local("markSuccess", q))
                \/ /\ q \in ordered /\ payStatus[q] # "SUCCESS"
                   /\ Start(p, Local("markFailed", q))
  <2>1. CASE WebhookCaptured(p, q) \/ WebhookFailed(p, q)
    BY <2>1 DEF WebhookCaptured, WebhookFailed
  <2>2. ASSUME NEW valid \in BOOLEAN, VerifyClient(p, q, valid)
        PROVE  /\ UNCHANGED <<owed, paid, gateway>>
               /\ \/ q \in captured /\ Start(p, Local("markSuccess", q))
                  \/ /\ q \in ordered /\ payStatus[q] # "SUCCESS"
                   /\ Start(p, Local("markFailed", q))
    <3>1. CASE valid
      BY <2>2, <3>1, Zenon DEF VerifyClient
    <3>2. CASE ~valid
      BY <2>2, <3>2, Zenon DEF VerifyClient
    <3> QED
      BY <3>1, <3>2
  <2> QED
    BY <1>7, <2>1, <2>2
<1> QED
  BY <1>1, <1>2, <1>3, <1>4, <1>5, <1>6, <1>7 DEF Arrive

LEMMA ArriveTyped ==
    ASSUME TypeOK, NEW p \in Requests, Arrive(p)
    PROVE  TypeOK'
<1>1. UNCHANGED <<owed, paid, gateway>>
  BY ArriveReads
<1>2. PICK local \in RequestSet : Start(p, local) /\ Arrived(local)
  BY ArriveReads
<1>3. RowsOK'
  BY <1>1 DEF TypeOK, RowsOK, owed, paid, gateway
<1>4. RequestsOK'
  BY <1>2, SetTyped DEF TypeOK, RowsOK, Start, Arrived
<1> QED
  BY <1>3, <1>4 DEF TypeOK

LEMMA TypeInit == Init => TypeOK
BY DEF Init, TypeOK, RowsOK, RequestsOK, FeeStatus, FeeChoice, CommissionStatus,
       PaymentStatus, RequestSet, Idle

LEMMA TypeNext == TypeOK /\ [Next]_vars => TypeOK'
<1> SUFFICES ASSUME TypeOK, [Next]_vars PROVE TypeOK'
  OBVIOUS
<1> USE DEF owed, paid, gateway
<1>1. ASSUME NEW c \in Commissions, DueDatePasses(c) PROVE TypeOK'
  BY <1>1 DEF DueDatePasses, TypeOK, RowsOK, RequestsOK
<1>2. ASSUME NEW q \in Payments, Decline(q) \/ Capture(q) PROVE TypeOK'
  BY <1>2 DEF Decline, Capture, TypeOK, RowsOK, RequestsOK
<1>3. ASSUME NEW p \in Requests, Die(p) PROVE TypeOK'
  BY <1>3, ReturnTyped DEF Die, TypeOK, RowsOK
<1>4. CASE UNCHANGED vars
  BY <1>4 DEF vars, TypeOK, RowsOK, RequestsOK
<1> QED
  BY <1>1, <1>2, <1>3, <1>4, ArriveTyped, ResumeTyped DEF Next

(* Every column of every row keeps to its enum and every handler works on  *)
(* a row of its kind, for any number of rows and requests.                 *)
THEOREM TypeCorrect == Spec => []TypeOK
BY TypeInit, TypeNext, PTL DEF Spec

-----------------------------------------------------------------------------
(* Money settles only what it was captured for. *)

(* What was captured stays captured, and a payment row keeps what it is    *)
(* for.                                                                    *)
LEMMA CaptureStays ==
    ASSUME Consistent, NEW x, CapturedFor(x),
           captured \subseteq captured',
           \A q \in captured : payFor'[q] = payFor[q]
    PROVE  CapturedFor(x)'
BY DEF CapturedFor

(* Requests that a step leaves alone stay consistent if rows only gain     *)
(* orders, captures and statuses.                                          *)
LEMMA OthersConsistent ==
    ASSUME Consistent, NEW p \in Requests, request'[p] = request[p],
           ordered \subseteq ordered', captured \subseteq captured',
           \A q \in captured : payFor'[q] = payFor[q],
           \A q \in Payments : payStatus[q] # "none" => payStatus'[q] # "none"
    PROVE  RequestConsistent(p)'
<1> DEFINE x == request[p].target
<1>1. RequestConsistent(p) /\ TypeOK
  BY DEF Consistent
<1>2. At(p, "order") => x \in Payments
  BY <1>1 DEF TypeOK, RequestsOK
<1>3. CapturedFor(x) => CapturedFor(x)'
  BY CaptureStays
<1> QED
  BY <1>1, <1>2, <1>3 DEF RequestConsistent, CapturedFor

(* The rows are as consistent after a step that adds orders and captures,  *)
(* settles only what is captured for, and moves no payment.                *)
LEMMA SettledStays ==
    ASSUME Consistent, captured \subseteq captured', withFee \subseteq withFee',
           \A q \in captured : payFor'[q] = payFor[q],
           \A c \in Commissions :
              comStatus'[c] = "PAID" => comStatus[c] = "PAID" \/ CapturedFor(c),
           \A t \in Tutors :
              feeStatus'[t] = "PAID" => feeStatus[t] = "PAID" \/ FeeCaptured(t)
    PROVE  SettledIsCaptured'
<1>1. SettledIsCaptured
  BY DEF Consistent
<1>2. ASSUME NEW c \in Commissions, comStatus'[c] = "PAID" PROVE CapturedFor(c)'
  BY <1>1, <1>2, CaptureStays DEF SettledIsCaptured
<1>3. ASSUME NEW t \in Tutors, feeStatus'[t] = "PAID" PROVE FeeCaptured(t)'
  <2>1. FeeCaptured(t)
    BY <1>1, <1>3 DEF SettledIsCaptured
  <2>2. CASE CapturedFor(t)
    BY <2>2, CaptureStays DEF FeeCaptured
  <2>3. CASE \E c \in withFee : TutorOf[c] = t /\ CapturedFor(c)
    BY <2>3, CaptureStays DEF FeeCaptured
  <2> QED
    BY <2>1, <2>2, <2>3 DEF FeeCaptured
<1> QED
  BY <1>2, <1>3 DEF SettledIsCaptured, CapturedFor, FeeCaptured

LEMMA InitConsistent == Init => Consistent
<1> SUFFICES ASSUME Init PROVE Consistent
  OBVIOUS
<1>1. TypeOK
  BY TypeInit
<1>2. PaymentsConsistent /\ SuccessIsCaptured /\ SettledIsCaptured
  BY DEF Init, PaymentsConsistent, SuccessIsCaptured, SettledIsCaptured
<1>3. \A p \in Requests : RequestConsistent(p)
  BY DEF Init, RequestConsistent, Idle
<1> QED
  BY <1>1, <1>2, <1>3 DEF Consistent

(* A step that leaves every row and the gateway as they are is consistent  *)
(* if the request it moves is.                                             *)
LEMMA RowsUnchanged ==
    ASSUME Consistent, TypeOK', NEW p \in Requests, UNCHANGED <<owed, paid, gateway>>,
           \A o \in Requests \ {p} : request'[o] = request[o],
           RequestConsistent(p)'
    PROVE  Consistent'
<1> USE DEF owed, paid, gateway
<1>1. PaymentsConsistent' /\ SuccessIsCaptured' /\ SettledIsCaptured'
  BY DEF Consistent, PaymentsConsistent, SuccessIsCaptured, SettledIsCaptured,
         CapturedFor, FeeCaptured
<1>2. \A o \in Requests \ {p} : RequestConsistent(o)'
  BY OthersConsistent
<1> QED
  BY <1>1, <1>2 DEF Consistent

LEMMA OnlyOne ==
    ASSUME RequestsOK, NEW p \in Requests, NEW local,
           request' = [request EXCEPT ![p] = local]
    PROVE  /\ request'[p] = local
           /\ \A o \in Requests \ {p} : request'[o] = request[o]
BY DEF RequestsOK

(* An idle request claims nothing. *)
LEMMA ReturnConsistent ==
    ASSUME RequestsOK, NEW p \in Requests, Return(p)
    PROVE  /\ RequestConsistent(p)'
           /\ \A o \in Requests \ {p} : request'[o] = request[o]
<1>1. /\ request'[p] = Idle
      /\ \A o \in Requests \ {p} : request'[o] = request[o]
  <2>1. request' = [request EXCEPT ![p] = Idle]
    BY DEF Return
  <2> HIDE DEF Idle
  <2> QED
    BY <2>1, OnlyOne
<1>2. Idle.step = "idle"
  BY DEF Idle
<1> QED
  BY <1>1, <1>2 DEF RequestConsistent

LEMMA GotoConsistent ==
    ASSUME RequestsOK, NEW p \in Requests,
           NEW step \in CommissionSteps \union PaymentSteps,
           NEW target \in Payables \union Payments, Goto(p, step, target)
    PROVE  /\ request'[p].step = step /\ request'[p].target = target
           /\ \A o \in Requests \ {p} : request'[o] = request[o]
<1>1. request' = [request EXCEPT ![p] = Local(step, target)]
  BY DEF Goto
<1>2. /\ request'[p] = Local(step, target)
      /\ \A o \in Requests \ {p} : request'[o] = request[o]
  BY <1>1, OnlyOne
<1> QED
  BY <1>2, LocalTyped

LEMMA ArriveConsistent ==
    ASSUME Consistent, NEW p \in Requests, Arrive(p)
    PROVE  Consistent'
<1>1. TypeOK /\ RequestsOK /\ UNCHANGED <<owed, paid, gateway>>
  BY ArriveReads DEF Consistent, TypeOK
<1>2. PICK local \in RequestSet : Start(p, local) /\ Arrived(local)
  BY <1>1, ArriveReads
<1>3. /\ request'[p] = local
      /\ \A o \in Requests \ {p} : request'[o] = request[o]
  BY <1>1, <1>2, OnlyOne DEF Start
<1>4. RequestConsistent(p)'
  BY <1>1, <1>2, <1>3 DEF RequestConsistent, Arrived, gateway, paid
<1> QED
  BY <1>1, <1>3, <1>4, ArriveTyped, RowsUnchanged

(* A step of one handler is consistent if it moves no payment, settles     *)
(* only what is captured for, and leaves its own request consistent.       *)
LEMMA StepConsistent ==
    ASSUME Consistent, TypeOK', NEW p \in Requests,
           \A o \in Requests \ {p} : request'[o] = request[o],
           RequestConsistent(p)',
           ordered \subseteq ordered', captured' = captured,
           withFee \subseteq withFee',
           \A q \in Payments :
              payStatus[q] # "none" => payStatus'[q] # "none" /\ payFor'[q] = payFor[q],
           PaymentsConsistent', SuccessIsCaptured',
           \A c \in Commissions :
              comStatus'[c] = "PAID" => comStatus[c] = "PAID" \/ CapturedFor(c),
           \A t \in Tutors :
              feeStatus'[t] = "PAID" => feeStatus[t] = "PAID" \/ FeeCaptured(t)
    PROVE  Consistent'
<1>1. \A q \in captured : payFor'[q] = payFor[q]
  BY DEF Consistent, TypeOK, RowsOK, PaymentsConsistent
<1>2. SettledIsCaptured'
  BY <1>1, SettledStays
<1>3. \A o \in Requests \ {p} : RequestConsistent(o)'
  BY <1>1, OthersConsistent
<1> QED
  BY <1>2, <1>3 DEF Consistent

(* The steps of a handler that has been started keep the invariant. *)
LEMMA ResumeConsistent ==
    ASSUME Consistent, NEW p \in Requests, Resume(p)
    PROVE  Consistent'
<1> DEFINE x == request[p].target
           Others == \A o \in Requests \ {p} : request'[o] = request[o]
<1> USE DEF owed, paid, gateway
<1>t. /\ TypeOK /\ TypeOK' /\ RequestsOK /\ RowsOK
      /\ PaymentsConsistent /\ SuccessIsCaptured /\ RequestConsistent(p)
      /\ At(p, "choose") => x \in Tutors
      /\ At(p, "create") => x \in Payables
      /\ request[p].step \in CommissionSteps => x \in Commissions
      /\ request[p].step \in PaymentSteps => x \in Payments
  BY ResumeTyped DEF Consistent, TypeOK, RequestsOK
<1>m. /\ feeStatus \in [Tutors -> FeeStatus]
      /\ comStatus \in [Commissions -> CommissionStatus]
      /\ payStatus \in [Payments -> PaymentStatus]
      /\ payFor \in [Payments -> {Nothing} \union Payables]
      /\ captured \subseteq ordered /\ ordered \subseteq Payments
  BY <1>t DEF RowsOK
<1>r. Return(p) => RequestConsistent(p)' /\ Others
  BY <1>t, ReturnConsistent
<1>s. (UNCHANGED <<paid, gateway>>) => PaymentsConsistent' /\ SuccessIsCaptured'
  BY <1>t DEF PaymentsConsistent, SuccessIsCaptured
<1>1. CASE ChooseWrite(p)
  BY <1>1, <1>t, <1>m, <1>r, <1>s, StepConsistent DEF ChooseWrite
<1>2. CASE GenerateCreate(p)
  BY <1>2, <1>t, <1>m, <1>r, <1>s, StepConsistent DEF GenerateCreate
<1>3. CASE OverdueWrite(p)
  <2>1. PICK c \in request[p].rows :
           /\ comStatus' = [comStatus EXCEPT ![c] = "OVERDUE"]
           /\ \/ Return(p)
              \/ request' = [request EXCEPT ![p].rows = @ \ {c}]
    BY <1>3 DEF OverdueWrite
  <2>2. RequestConsistent(p)' /\ Others
    <3>1. CASE request' = [request EXCEPT ![p].rows = @ \ {c}]
      <4>1. request'[p].step = "overdue" /\ Others
        BY <3>1, <1>3, <1>t DEF RequestsOK, RequestSet, OverdueWrite
      <4> QED
        BY <4>1 DEF RequestConsistent
    <3> QED
      BY <2>1, <3>1, <1>r
  <2>3. \A d \in Commissions : comStatus'[d] = "PAID" => comStatus[d] = "PAID"
    BY <2>1, <1>m
  <2>4. UNCHANGED <<feeStatus, withFee, paid, gateway>>
    BY <1>3 DEF OverdueWrite
  <2> QED
    BY <2>2, <2>3, <2>4, <1>t, <1>s, StepConsistent
<1>4. CASE WaiveWrite(p)
  BY <1>4, <1>t, <1>m, <1>r, <1>s, StepConsistent DEF WaiveWrite
<1>5. ASSUME NEW q \in Payments, InitiateCreate(p, q) PROVE Consistent'
  <2>1. request'[p].step = "order" /\ request'[p].target = q /\ Others
    BY <1>5, <1>t, GotoConsistent DEF InitiateCreate
  <2>2. payStatus'[q] = "CREATED" /\ payFor'[q] = x /\ payStatus[q] = "none"
        /\ \A u \in Payments \ {q} :
              payStatus'[u] = payStatus[u] /\ payFor'[u] = payFor[u]
    BY <1>5, <1>m DEF InitiateCreate
  <2>3. RequestConsistent(p)'
    BY <2>1, <2>2 DEF RequestConsistent
  <2>4. PaymentsConsistent' /\ SuccessIsCaptured'
    BY <2>2, <1>5, <1>t DEF PaymentsConsistent, SuccessIsCaptured, InitiateCreate
  <2> QED
    BY <2>1, <2>2, <2>3, <2>4, <1>5, <1>t, StepConsistent DEF InitiateCreate
<1>6. CASE InitiateDrop(p)
  BY <1>6, <1>t, <1>r, RowsUnchanged DEF InitiateDrop
<1>7. CASE CreateOrder(p)
  <2>1. payStatus'[x] = "PENDING" /\ \A u \in Payments \ {x} : payStatus'[u] = payStatus[u]
    BY <1>7, <1>m, <1>t DEF CreateOrder
  <2>2. PaymentsConsistent' /\ SuccessIsCaptured'
    BY <2>1, <1>7, <1>t DEF CreateOrder, PaymentsConsistent, SuccessIsCaptured,
                            RequestConsistent
  <2> QED
    BY <2>1, <2>2, <1>7, <1>t, <1>r, StepConsistent DEF CreateOrder
<1>8. CASE MarkFailed(p)
  <2>1. payStatus'[x] = "FAILED" /\ \A u \in Payments \ {x} : payStatus'[u] = payStatus[u]
    BY <1>8, <1>m, <1>t DEF MarkFailed
  <2>2. PaymentsConsistent' /\ SuccessIsCaptured'
    BY <2>1, <1>8, <1>t DEF MarkFailed, PaymentsConsistent, SuccessIsCaptured,
                            RequestConsistent
  <2> QED
    BY <2>1, <2>2, <1>8, <1>t, <1>r, StepConsistent DEF MarkFailed
<1>9. CASE MarkSuccessRead(p)
  <2>1. CASE Return(p)
    BY <2>1, <1>9, <1>t, <1>r, RowsUnchanged DEF MarkSuccessRead
  <2>2. CASE Goto(p, "markSuccessTx", x)
    <3>1. request'[p].step = "markSuccessTx" /\ request'[p].target = x /\ Others
      BY <2>2, <1>9, <1>t, GotoConsistent DEF MarkSuccessRead
    <3>2. RequestConsistent(p)'
      BY <3>1, <1>9, <1>t DEF RequestConsistent, MarkSuccessRead
    <3> QED
      BY <3>1, <3>2, <1>9, <1>t, RowsUnchanged DEF MarkSuccessRead
  <2> QED
    BY <2>1, <2>2, <1>9 DEF MarkSuccessRead
<1>10. CASE MarkSuccessTx(p)
  <2>1. x \in captured /\ x \in Payments
    BY <1>10, <1>t DEF MarkSuccessTx, RequestConsistent
  <2>2. payStatus'[x] = "SUCCESS" /\ \A u \in Payments \ {x} : payStatus'[u] = payStatus[u]
    BY <1>10, <1>m, <2>1 DEF MarkSuccessTx
  <2>3. PaymentsConsistent' /\ SuccessIsCaptured'
    BY <2>1, <2>2, <1>10, <1>m, <1>t DEF MarkSuccessTx, PaymentsConsistent, SuccessIsCaptured
  <2>4. CapturedFor(payFor[x])
    BY <2>1 DEF CapturedFor
  <2>5. CASE payFor[x] \in Tutors /\ Return(p)
             /\ feeStatus' = [feeStatus EXCEPT ![payFor[x]] = "PAID"]
             /\ UNCHANGED comStatus
    <3>1. \A t \in Tutors : feeStatus'[t] = "PAID" =>
             feeStatus[t] = "PAID" \/ FeeCaptured(t)
      BY <2>4, <2>5, <1>m DEF FeeCaptured
    <3> QED
      BY <3>1, <2>2, <2>3, <2>5, <1>10, <1>t, <1>r, StepConsistent DEF MarkSuccessTx
  <2>6. CASE payFor[x] \in Commissions /\ Settle(payFor[x]) /\ Goto(p, "markPaid", payFor[x])
    <3>1. request'[p].step = "markPaid" /\ request'[p].target = payFor[x] /\ Others
      BY <2>6, <1>t, GotoConsistent
    <3>2. RequestConsistent(p)'
      BY <3>1, <2>4, <1>10 DEF RequestConsistent, CapturedFor, MarkSuccessTx
    <3>3. \A c \in Commissions :
              comStatus'[c] = "PAID" => comStatus[c] = "PAID" \/ CapturedFor(c)
      BY <2>4, <2>6, <1>m DEF Settle
    <3>4. \A t \in Tutors :
              feeStatus'[t] = "PAID" => feeStatus[t] = "PAID" \/ FeeCaptured(t)
      BY <2>4, <2>6, <1>m DEF Settle, FeeCaptured
    <3> QED
      BY <3>1, <3>2, <3>3, <3>4, <2>2, <2>3, <1>10, <1>t, StepConsistent DEF MarkSuccessTx
  <2> QED
    BY <2>5, <2>6, <1>10 DEF MarkSuccessTx
<1>11. CASE MarkPaidRead(p)
  <2>1. CASE Return(p)
    BY <2>1, <1>11, <1>t, <1>r, RowsUnchanged DEF MarkPaidRead
  <2>2. CASE Goto(p, "markPaidTx", x)
    <3>1. request'[p].step = "markPaidTx" /\ request'[p].target = x /\ Others
      BY <2>2, <1>11, <1>t, GotoConsistent DEF MarkPaidRead
    <3>2. RequestConsistent(p)'
      BY <3>1, <1>11, <1>t DEF RequestConsistent, MarkPaidRead, CapturedFor
    <3> QED
      BY <3>1, <3>2, <1>11, <1>t, RowsUnchanged DEF MarkPaidRead
  <2> QED
    BY <2>1, <2>2, <1>11 DEF MarkPaidRead
<1>12. CASE MarkPaidTx(p)
  <2>1. CapturedFor(x) /\ x \in Commissions
    BY <1>12, <1>t DEF MarkPaidTx, RequestConsistent
  <2>2. \A c \in Commissions :
            comStatus'[c] = "PAID" => comStatus[c] = "PAID" \/ CapturedFor(c)
    BY <2>1, <1>12, <1>m DEF MarkPaidTx
  <2>3. \A t \in Tutors :
            feeStatus'[t] = "PAID" => feeStatus[t] = "PAID" \/ FeeCaptured(t)
    BY <2>1, <1>12, <1>m DEF MarkPaidTx, FeeCaptured
  <2> QED
    BY <2>2, <2>3, <1>12, <1>t, <1>r, <1>s, StepConsistent DEF MarkPaidTx
<1> QED
  BY <1>1, <1>2, <1>3, <1>4, <1>5, <1>6, <1>7, <1>8, <1>9, <1>10, <1>11, <1>12
  DEF Resume

LEMMA NextConsistent == Consistent /\ [Next]_vars => Consistent'
<1> SUFFICES ASSUME Consistent, [Next]_vars PROVE Consistent'
  OBVIOUS
<1> USE DEF owed, paid, gateway
<1>t. TypeOK /\ TypeOK' /\ RequestsOK
  BY TypeNext DEF Consistent, TypeOK
<1>1. ASSUME NEW c \in Commissions, DueDatePasses(c) PROVE Consistent'
  BY <1>1, <1>t DEF DueDatePasses, Consistent, PaymentsConsistent, SuccessIsCaptured,
       SettledIsCaptured, CapturedFor, FeeCaptured, RequestConsistent
<1>2. ASSUME NEW q \in Payments, Decline(q) PROVE Consistent'
  BY <1>2, <1>t DEF Decline, Consistent, PaymentsConsistent, SuccessIsCaptured,
       SettledIsCaptured, CapturedFor, FeeCaptured, RequestConsistent
<1>3. ASSUME NEW q \in Payments, Capture(q) PROVE Consistent'
  <2>1. captured \subseteq captured' /\ UNCHANGED <<owed, paid, request>>
    BY <1>3 DEF Capture
  <2>2. SettledIsCaptured'
    BY <2>1, SettledStays
  <2>3. \A p \in Requests : RequestConsistent(p)'
    BY <2>1, OthersConsistent
  <2> QED
    BY <2>1, <2>2, <2>3, <1>t DEF Consistent, PaymentsConsistent, SuccessIsCaptured
<1>4. ASSUME NEW p \in Requests, Die(p) PROVE Consistent'
  BY <1>4, <1>t, ReturnConsistent, RowsUnchanged DEF Die
<1>5. CASE UNCHANGED vars
  BY <1>5, <1>t DEF vars, Consistent, PaymentsConsistent, SuccessIsCaptured,
       SettledIsCaptured, CapturedFor, FeeCaptured, RequestConsistent
<1> QED
  BY <1>1, <1>2, <1>3, <1>4, <1>5, ArriveConsistent, ResumeConsistent DEF Next

(* Payment rows and requests in flight stay consistent with what the       *)
(* gateway captured: the inductive invariant of the two theorems below.    *)
THEOREM AlwaysConsistent == Spec => []Consistent
BY InitConsistent, NextConsistent, PTL DEF Spec

(* No webhook, signature or retry makes a payment SUCCESS that the gateway *)
(* did not capture, however many requests interleave and die.              *)
THEOREM SuccessNeedsCapture == Spec => []SuccessIsCaptured
<1>1. Consistent => SuccessIsCaptured
  BY DEF Consistent
<1> QED
  BY <1>1, AlwaysConsistent, PTL

(* No commission and no registration fee is PAID unless money was captured *)
(* for it.                                                                 *)
THEOREM SettlementNeedsCapture == Spec => []SettledIsCaptured
<1>1. Consistent => SettledIsCaptured
  BY DEF Consistent
<1> QED
  BY <1>1, AlwaysConsistent, PTL

-----------------------------------------------------------------------------
(* One request at a time. *)

OneAtATime == \A p, o \in Requests : p = o

LEMMA ArriveFresh ==
    ASSUME OneAtATime, Consistent, NEW p \in Requests, Arrive(p)
    PROVE  ReadsAreFresh' /\ UNCHANGED <<owed, paid, gateway>>
<1>1. TypeOK /\ RequestsOK /\ UNCHANGED <<owed, paid, gateway>>
  BY ArriveReads DEF Consistent, TypeOK
<1>2. PICK local \in RequestSet : Start(p, local) /\ Arrived(local)
  BY <1>1, ArriveReads
<1>3. request'[p] = local
  BY <1>1, <1>2, OnlyOne DEF Start
<1>4. local.step # "order"
  BY <1>2 DEF Arrived
<1> QED
  BY <1>1, <1>2, <1>3, <1>4 DEF OneAtATime, ReadsAreFresh, Arrived, owed, paid

(* A started handler writes over nothing that is final, and moves to a     *)
(* step whose reads are fresh.                                             *)
LEMMA ResumeFresh ==
    ASSUME OneAtATime, Consistent, ReadsAreFresh, SuccessSettles,
           NEW p \in Requests, Resume(p)
    PROVE  /\ ReadsAreFresh' /\ SuccessSettles'
           /\ \A c \in Commissions : comStatus[c] = "PAID" => comStatus'[c] = "PAID"
           /\ \A q \in Payments : payStatus[q] = "SUCCESS" => payStatus'[q] = "SUCCESS"
           /\ \A t \in Tutors : feeStatus[t] = "PAID" => feeStatus'[t] = "PAID"
<1> DEFINE x == request[p].target
           Final == /\ \A c \in Commissions : comStatus[c] = "PAID" => comStatus'[c] = "PAID"
                    /\ \A q \in Payments : payStatus[q] = "SUCCESS" => payStatus'[q] = "SUCCESS"
                    /\ \A t \in Tutors : feeStatus[t] = "PAID" => feeStatus'[t] = "PAID"
<1> USE DEF owed, paid, gateway
<1>t. /\ RequestsOK /\ RowsOK /\ PaymentsConsistent
      /\ At(p, "choose") => x \in Tutors
      /\ At(p, "create") => x \in Payables
      /\ request[p].step \in CommissionSteps => x \in Commissions
      /\ request[p].step \in PaymentSteps => x \in Payments
      /\ \A o \in Requests : o = p
  BY DEF Consistent, TypeOK, RequestsOK, OneAtATime
<1>m. /\ feeStatus \in [Tutors -> FeeStatus]
      /\ comStatus \in [Commissions -> CommissionStatus]
      /\ payStatus \in [Payments -> PaymentStatus]
      /\ payFor \in [Payments -> {Nothing} \union Payables]
  BY <1>t DEF RowsOK
<1>f. /\ At(p, "choose") => feeStatus[x] # "PAID"
      /\ At(p, "waive") => comStatus[x] # "PAID"
      /\ At(p, "overdue") => \A c \in request[p].rows : comStatus[c] = "GENERATED"
      /\ At(p, "order") \/ At(p, "markFailed") => payStatus[x] # "SUCCESS"
  BY DEF ReadsAreFresh
<1>r. ASSUME Return(p) PROVE ReadsAreFresh'
  <2>1. request'[p] = Idle
    <3>1. request' = [request EXCEPT ![p] = Idle]
      BY <1>r DEF Return
    <3> HIDE DEF Idle
    <3> QED
      BY <3>1, <1>t, OnlyOne
  <2>2. Idle.step = "idle"
    BY DEF Idle
  <2> QED
    BY <2>1, <2>2, <1>t DEF ReadsAreFresh
<1>g. ASSUME NEW step \in {"markSuccessTx", "markPaid", "markPaidTx"},
             NEW y \in Payables \union Payments, Goto(p, step, y)
      PROVE  ReadsAreFresh'
  BY <1>g, <1>t, GotoConsistent DEF ReadsAreFresh
(* Settled payments stay settled when nothing final is overwritten. *)
<1>s. ASSUME Final,
             \A q \in Payments : payStatus[q] = "SUCCESS" => payFor'[q] = payFor[q],
             \A q \in Payments : payStatus'[q] = "SUCCESS" => payStatus[q] = "SUCCESS"
      PROVE  SuccessSettles'
  <2> SUFFICES ASSUME NEW q \in Payments, payStatus'[q] = "SUCCESS"
               PROVE  IF payFor'[q] \in Tutors THEN feeStatus'[payFor'[q]] = "PAID"
                      ELSE comStatus'[payFor'[q]] = "PAID"
    BY DEF SuccessSettles
  <2>1. payStatus[q] = "SUCCESS" /\ payFor'[q] = payFor[q] /\ payFor[q] \in Payables
    BY <1>s, <1>t DEF PaymentsConsistent
  <2>2. IF payFor[q] \in Tutors THEN feeStatus[payFor[q]] = "PAID"
        ELSE comStatus[payFor[q]] = "PAID"
    BY <2>1 DEF SuccessSettles
  <2> QED
    BY <2>1, <2>2, <1>s
<1>1. CASE ChooseWrite(p)
  <2>1. Final
    BY <1>1, <1>f, <1>m, <1>t DEF ChooseWrite
  <2> QED
    BY <2>1, <1>1, <1>r, <1>s DEF ChooseWrite
<1>2. CASE GenerateCreate(p)
  <2>1. Final
    BY <1>2, <1>m, <1>t DEF GenerateCreate
  <2> QED
    BY <2>1, <1>2, <1>r, <1>s DEF GenerateCreate
<1>3. CASE OverdueWrite(p)
  <2>1. PICK c \in request[p].rows :
           /\ comStatus' = [comStatus EXCEPT ![c] = "OVERDUE"]
           /\ \/ request[p].rows = {c} /\ Return(p)
              \/ request' = [request EXCEPT ![p].rows = @ \ {c}]
    BY <1>3 DEF OverdueWrite
  <2>2. Final
    BY <2>1, <1>3, <1>f, <1>m DEF OverdueWrite
  <2>3. ReadsAreFresh'
    <3>1. CASE request' = [request EXCEPT ![p].rows = @ \ {c}]
      <4>1. request'[p].step = "overdue" /\ request'[p].rows = request[p].rows \ {c}
        BY <3>1, <1>3, <1>t DEF RequestsOK, RequestSet, OverdueWrite
      <4>2. \A d \in request[p].rows \ {c} : comStatus'[d] = "GENERATED"
        BY <2>1, <1>3, <1>f, <1>m DEF OverdueWrite
      <4> QED
        BY <4>1, <4>2, <1>t DEF ReadsAreFresh
    <3> QED
      BY <2>1, <3>1, <1>r
  <2> QED
    BY <2>2, <2>3, <1>3, <1>s DEF OverdueWrite
<1>4. CASE WaiveWrite(p)
  <2>1. Final
    BY <1>4, <1>f, <1>m, <1>t DEF WaiveWrite
  <2> QED
    BY <2>1, <1>4, <1>r, <1>s DEF WaiveWrite
<1>5. ASSUME NEW q \in Payments, InitiateCreate(p, q)
      PROVE  Final /\ ReadsAreFresh' /\ SuccessSettles'
  <2>1. request'[p].step = "order" /\ request'[p].target = q
    BY <1>5, <1>t, GotoConsistent DEF InitiateCreate
  <2>2. payStatus[q] = "none" /\ payStatus'[q] = "CREATED"
        /\ \A u \in Payments \ {q} :
              payStatus'[u] = payStatus[u] /\ payFor'[u] = payFor[u]
    BY <1>5, <1>m DEF InitiateCreate
  <2>3. ReadsAreFresh'
    BY <2>1, <2>2, <1>t DEF ReadsAreFresh
  <2>4. Final
    BY <2>2, <1>5 DEF InitiateCreate
  <2> QED
    BY <2>2, <2>3, <2>4, <1>s
<1>6. CASE InitiateDrop(p)
  BY <1>6, <1>r, <1>s DEF InitiateDrop
<1>7. CASE CreateOrder(p) \/ MarkFailed(p)
  <2>1. Final /\ \A u \in Payments : payStatus'[u] = "SUCCESS" => payStatus[u] = "SUCCESS"
    BY <1>7, <1>f, <1>m, <1>t DEF CreateOrder, MarkFailed
  <2> QED
    BY <2>1, <1>7, <1>r, <1>s DEF CreateOrder, MarkFailed
<1>8. CASE MarkSuccessRead(p) \/ MarkPaidRead(p)
  <2>1. UNCHANGED <<owed, paid, gateway>>
    BY <1>8 DEF MarkSuccessRead, MarkPaidRead
  <2>2. ReadsAreFresh'
    BY <1>8, <1>t, <1>r, <1>g DEF MarkSuccessRead, MarkPaidRead
  <2> QED
    BY <2>1, <2>2, <1>s
<1>9. CASE MarkSuccessTx(p)
  <2>1. payStatus'[x] = "SUCCESS" /\ \A u \in Payments \ {x} : payStatus'[u] = payStatus[u]
    BY <1>9, <1>m, <1>t DEF MarkSuccessTx
  <2>2. Final
    BY <2>1, <1>9, <1>m, <1>t, TutorOfAssumption DEF MarkSuccessTx, Settle
  <2>3. ReadsAreFresh'
    BY <1>9, <1>r, <1>g DEF MarkSuccessTx
  <2>4. IF payFor[x] \in Tutors THEN feeStatus'[payFor[x]] = "PAID"
        ELSE comStatus'[payFor[x]] = "PAID"
    BY <1>9, <1>m, <1>t, DistinctTargets DEF MarkSuccessTx, Settle
  <2>5. SuccessSettles'
    <3> SUFFICES ASSUME NEW q \in Payments, payStatus'[q] = "SUCCESS"
                 PROVE  IF payFor[q] \in Tutors THEN feeStatus'[payFor[q]] = "PAID"
                        ELSE comStatus'[payFor[q]] = "PAID"
      BY <1>9 DEF SuccessSettles, MarkSuccessTx
    <3>1. CASE q # x
      <4>1. payStatus[q] = "SUCCESS" /\ payFor[q] \in Payables
        BY <3>1, <2>1, <1>t DEF PaymentsConsistent
      <4> QED
        BY <4>1, <2>2 DEF SuccessSettles
    <3> QED
      BY <3>1, <2>4
  <2> QED
    BY <2>2, <2>3, <2>5
<1>10. CASE MarkPaidTx(p)
  <2>1. Final
    BY <1>10, <1>m, <1>t, TutorOfAssumption DEF MarkPaidTx
  <2> QED
    BY <2>1, <1>10, <1>r, <1>s DEF MarkPaidTx
<1> QED
  BY <1>1, <1>2, <1>3, <1>4, <1>5, <1>6, <1>7, <1>8, <1>9, <1>10 DEF Resume

LEMMA NextFresh ==
    ASSUME OneAtATime
    PROVE  Consistent /\ ReadsAreFresh /\ SuccessSettles /\ [Next]_vars
              => /\ ReadsAreFresh' /\ SuccessSettles'
                 /\ \A c \in Commissions : comStatus[c] = "PAID" => comStatus'[c] = "PAID"
                 /\ \A q \in Payments : payStatus[q] = "SUCCESS" => payStatus'[q] = "SUCCESS"
                 /\ \A t \in Tutors : feeStatus[t] = "PAID" => feeStatus'[t] = "PAID"
<1> SUFFICES ASSUME Consistent, ReadsAreFresh, SuccessSettles, [Next]_vars
             PROVE  /\ ReadsAreFresh' /\ SuccessSettles'
                    /\ UNCHANGED <<feeStatus, comStatus, payStatus>>
                       \/ /\ \A c \in Commissions :
                               comStatus[c] = "PAID" => comStatus'[c] = "PAID"
                          /\ \A q \in Payments :
                               payStatus[q] = "SUCCESS" => payStatus'[q] = "SUCCESS"
                          /\ \A t \in Tutors :
                               feeStatus[t] = "PAID" => feeStatus'[t] = "PAID"
  OBVIOUS
<1> USE DEF owed, paid, gateway
<1>1. ASSUME UNCHANGED <<feeStatus, comStatus, payStatus, payFor>>
      PROVE  SuccessSettles'
  BY <1>1 DEF SuccessSettles
<1>2. ASSUME NEW c \in Commissions, DueDatePasses(c)
      PROVE  UNCHANGED <<feeStatus, comStatus, payStatus, payFor, request>>
  BY <1>2 DEF DueDatePasses
<1>3. ASSUME NEW q \in Payments, Decline(q) \/ Capture(q)
      PROVE  UNCHANGED <<feeStatus, comStatus, payStatus, payFor, request>>
  BY <1>3 DEF Decline, Capture
<1>4. ASSUME UNCHANGED <<feeStatus, comStatus, payStatus, payFor, request>>
      PROVE  ReadsAreFresh' /\ SuccessSettles'
  BY <1>1, <1>4 DEF ReadsAreFresh
<1>5. ASSUME NEW p \in Requests, Die(p)
      PROVE  /\ ReadsAreFresh' /\ SuccessSettles'
             /\ UNCHANGED <<feeStatus, comStatus, payStatus>>
  <2>1. UNCHANGED <<feeStatus, comStatus, payStatus, payFor>>
    BY <1>5 DEF Die
  <2>2. request' = [request EXCEPT ![p] = Idle]
    BY <1>5 DEF Die, Return
  <2>3. request'[p] = Idle
    <3> HIDE DEF Idle
    <3> QED
      BY <2>2, OnlyOne DEF Consistent, TypeOK
  <2>4. Idle.step = "idle"
    BY DEF Idle
  <2>5. ReadsAreFresh'
    BY <2>3, <2>4 DEF OneAtATime, ReadsAreFresh
  <2> QED
    BY <2>1, <2>5, <1>1
<1>6. ASSUME NEW p \in Requests, Arrive(p)
      PROVE  /\ ReadsAreFresh' /\ SuccessSettles'
             /\ UNCHANGED <<feeStatus, comStatus, payStatus>>
  BY <1>6, <1>1, ArriveFresh
<1>7. CASE UNCHANGED vars
  BY <1>7, <1>4 DEF vars
<1> QED
  BY <1>2, <1>3, <1>4, <1>5, <1>6, <1>7, ResumeFresh DEF Next

LEMMA InitFresh == Init => ReadsAreFresh /\ SuccessSettles
BY DEF Init, ReadsAreFresh, SuccessSettles, Idle

(* As long as the requests of the whole platform do not overlap, what a    *)
(* handler read still holds when it writes, and a successful payment has   *)
(* settled its commission or fee; any of them may die half-way.            *)
THEOREM SettlesOneAtATime ==
    ASSUME OneAtATime
    PROVE  Spec => []ConsistentAlone
<1>1. Consistent /\ ReadsAreFresh /\ SuccessSettles /\ [Next]_vars
         => ReadsAreFresh' /\ SuccessSettles'
  BY NextFresh
<1> QED
  BY <1>1, InitFresh, AlwaysConsistent, PTL DEF Spec, ConsistentAlone

(* And no step then takes back a PAID commission, a successful payment or  *)
(* a paid fee: each violation the runs find needs two requests.            *)
THEOREM FinalOneAtATime ==
    ASSUME OneAtATime
    PROVE  Spec => FinalStays
<1> DEFINE Paid == \A c \in Commissions : comStatus[c] = "PAID" => comStatus'[c] = "PAID"
           Success == \A q \in Payments :
                         payStatus[q] = "SUCCESS" => payStatus'[q] = "SUCCESS"
           Fee == \A t \in Tutors : feeStatus[t] = "PAID" => feeStatus'[t] = "PAID"
<1>1. Consistent /\ ReadsAreFresh /\ SuccessSettles /\ [Next]_vars
         => [Paid]_vars /\ [Success]_vars /\ [Fee]_vars
  BY NextFresh
<1>2. Spec => []Consistent /\ [](ReadsAreFresh /\ SuccessSettles)
  BY AlwaysConsistent, SettlesOneAtATime DEF ConsistentAlone
<1>3. Spec => [][Paid]_vars /\ [][Success]_vars /\ [][Fee]_vars
  BY <1>1, <1>2, PTL DEF Spec
<1> QED
  BY <1>3 DEF FinalStays, PaidIsFinal, SuccessIsFinal, FeeStaysPaid

-----------------------------------------------------------------------------
(* Whatever the fees, every commission's invoice balances.                 *)
THEOREM InvoicesBalance == Spec => []InvoiceBalances
<1>1. InvoiceBalances
  BY EveryInvoiceBalances DEF InvoiceBalances
<1> QED
  BY <1>1, PTL
=============================================================================
