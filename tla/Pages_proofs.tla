---------------------------- MODULE Pages_proofs ----------------------------
(***************************************************************************)
(* Proofs about what a user sees of the platform, for any number of tabs,  *)
(* payments, messages, values and parties.  A behaviour of MCPages is of   *)
(* one part; what a step of a part preserves is a lemma about that part.   *)
(***************************************************************************)
EXTENDS MCPages, Integers, Sequences, FiniteSets, FiniteSetTheorems, WellFoundedInduction, TLAPS

-----------------------------------------------------------------------------
(* The checkout. *)

PaymentSet == [status : {"PENDING", "FAILED", "SUCCESS"}, opened : BOOLEAN, captured : BOOLEAN]

PayTyped ==
    /\ due \in [kind : {"REGISTRATION", "COMMISSION"}, settled : BOOLEAN]
    /\ mock \in BOOLEAN /\ doubt \in BOOLEAN
    /\ payments \in Seq(PaymentSet)
    /\ payTab \in [Tabs -> [page : K!Pages, order : Nat, offers : BOOLEAN]]
    /\ \A t \in Tabs : payTab[t].order <= Len(payments)
    /\ list \in [Tabs -> SUBSET BOOLEAN]
    /\ told \subseteq Tabs

(* A tab that pays or has paid has a payment, one that verifies it has     *)
(* seen the capture, and one that tells of success tells the truth.        *)
Ordered ==
    \A t \in Tabs :
        /\ payTab[t].page \in {"dialog", "verifying", "completing", "success"} =>
               payTab[t].order # 0
        /\ payTab[t].page = "verifying" => payments[payTab[t].order].captured
        /\ payTab[t].page = "success" => payments[payTab[t].order].status = "SUCCESS"

(* What a tab has told of as paid is settled, and no list of the tab says  *)
(* otherwise.                                                              *)
ToldIsSettled ==
    \A t \in told : /\ due.settled
                    /\ list[t] \subseteq {FALSE}
                    /\ payTab[t].page = "list" => ~payTab[t].offers

(* Without doubt one tab pays, and while it can still be charged nothing   *)
(* has been captured; a capture is settled, or being verified.             *)
ChargedAtMostOnce ==
    ~doubt =>
        /\ \A t, u \in Tabs : payTab[t].page \in K!Paying /\ payTab[u].page \in K!Paying => t = u
        /\ \A t \in Tabs : payTab[t].page \in {"dialog", "completing"} =>
               \A p \in K!Payments : ~payments[p].captured
        /\ \A p, q \in K!Payments : payments[p].captured /\ payments[q].captured => p = q
        /\ \A p \in K!Payments : payments[p].captured =>
               due.settled \/ \E t \in Tabs : payTab[t].page = "verifying"

PayInv == PayTyped /\ Ordered /\ ToldIsSettled /\ ChargedAtMostOnce

LEMMA PayInvInit ==
    ASSUME K!Init
    PROVE  PayInv
<1>1. payments = <<>> /\ Len(payments) = 0 /\ payments \in Seq(PaymentSet)
  BY DEF K!Init
<1>2. PayTyped
  <2>1. due \in [kind : {"REGISTRATION", "COMMISSION"}, settled : BOOLEAN]
    BY DEF K!Init
  <2>2. payTab \in [Tabs -> [page : K!Pages, order : Nat, offers : BOOLEAN]]
    BY DEF K!Init, K!Pages
  <2>3. \A t \in Tabs : payTab[t].order <= Len(payments)
    BY <1>1 DEF K!Init
  <2>. QED  BY <1>1, <2>1, <2>2, <2>3 DEF K!Init, PayTyped
<1>3. Ordered /\ ToldIsSettled
  BY DEF K!Init, Ordered, ToldIsSettled
<1>4. ChargedAtMostOnce
  BY <1>1 DEF K!Init, ChargedAtMostOnce, K!Payments, K!Paying
<1>. QED  BY <1>2, <1>3, <1>4 DEF PayInv

(* What the ways to change a payment do.                                   *)
LEMMA BegunIs ==
    ASSUME PayTyped, NEW opened \in BOOLEAN, payments' = K!Begun(opened)
    PROVE  /\ payments' \in Seq(PaymentSet)
           /\ Len(payments') = Len(payments) + 1
           /\ payments'[Len(payments')] = [status |-> "PENDING", opened |-> opened, captured |-> FALSE]
           /\ \A p \in 1 .. Len(payments) : payments'[p] = payments[p]
<1>. DEFINE new == [status |-> "PENDING", opened |-> opened, captured |-> FALSE]
<1>1. new \in PaymentSet
  BY DEF PaymentSet
<1>. HIDE DEF new
<1>2. payments' = Append(payments, new)
  BY DEF K!Begun, new
<1>3. payments \in Seq(PaymentSet)
  BY DEF PayTyped
<1>. QED  BY <1>1, <1>2, <1>3 DEF new

LEMMA ReplacedIs ==
    ASSUME PayTyped, NEW p \in K!Payments, NEW r \in PaymentSet,
           payments' = [payments EXCEPT ![p] = r]
    PROVE  /\ payments' \in Seq(PaymentSet)
           /\ Len(payments') = Len(payments)
           /\ payments'[p] = r
           /\ \A q \in K!Payments : q # p => payments'[q] = payments[q]
<1>1. payments \in Seq(PaymentSet) /\ p \in 1 .. Len(payments)
  BY DEF PayTyped, K!Payments
<1>. QED  BY <1>1 DEF K!Payments

LEMMA SettleIs ==
    ASSUME PayTyped, NEW p \in K!Payments, K!Settle(p)
    PROVE  /\ payments' \in Seq(PaymentSet)
           /\ Len(payments') = Len(payments)
           /\ payments'[p].status = "SUCCESS" /\ payments'[p].captured
           /\ \A q \in K!Payments : q # p => payments'[q] = payments[q]
           /\ due' \in [kind : {"REGISTRATION", "COMMISSION"}, settled : BOOLEAN] /\ due'.settled
<1>1. payments[p] \in PaymentSet /\ payments \in Seq(PaymentSet)
  BY DEF PayTyped, K!Payments
<1>. DEFINE r == [payments[p] EXCEPT !.status = "SUCCESS", !.captured = TRUE]
<1>2. r \in PaymentSet /\ r.status = "SUCCESS" /\ r.captured
  BY <1>1 DEF PaymentSet
<1>3. payments' = [payments EXCEPT ![p] = r]
  BY <1>1 DEF K!Settle, K!Payments
<1>. HIDE DEF r
<1>4. due' \in [kind : {"REGISTRATION", "COMMISSION"}, settled : BOOLEAN] /\ due'.settled
  BY DEF K!Settle, PayTyped
<1>. QED  BY <1>2, <1>3, <1>4, ReplacedIs

(* The types.                                                              *)
LEMMA PayTypedStep ==
    ASSUME PayInv, K!Next
    PROVE  PayTyped'
<1>. DEFINE Tabbed == /\ payTab' \in [Tabs -> [page : K!Pages, order : Nat, offers : BOOLEAN]]
                      /\ \A t \in Tabs : payTab'[t].order <= Len(payments')
            Paid == /\ due' \in [kind : {"REGISTRATION", "COMMISSION"}, settled : BOOLEAN]
                    /\ payments' \in Seq(PaymentSet)
                    /\ Len(payments) <= Len(payments')
            Flags == mock' \in BOOLEAN /\ doubt' \in BOOLEAN
            Lists == list' \in [Tabs -> SUBSET BOOLEAN] /\ told' \subseteq Tabs
<1>1. PayTyped /\ Ordered
  BY DEF PayInv
<1>2. /\ payments \in Seq(PaymentSet) /\ Len(payments) \in Nat
      /\ due \in [kind : {"REGISTRATION", "COMMISSION"}, settled : BOOLEAN]
      /\ \A p \in K!Payments : payments[p] \in PaymentSet
  BY <1>1 DEF PayTyped, K!Payments
<1>3. ASSUME UNCHANGED <<due, payments>>  PROVE Paid
  BY <1>2, <1>3
<1>4. ASSUME NEW p \in K!Payments, K!Settle(p)  PROVE Paid
  BY <1>1, <1>2, <1>4, SettleIs
<1>5. ASSUME NEW opened \in BOOLEAN, payments' = K!Begun(opened), UNCHANGED due
      PROVE Paid /\ Len(payments') = Len(payments) + 1
  <2>1. payments' \in Seq(PaymentSet) /\ Len(payments') = Len(payments) + 1
    BY <1>1, <1>5, BegunIs
  <2>. QED  BY <1>2, <1>5, <2>1
<1>6. ASSUME NEW t \in Tabs, NEW target \in K!Pages, K!Show(t, target), Paid
      PROVE  Tabbed
  <2>1. payTab' \in [Tabs -> [page : K!Pages, order : Nat, offers : BOOLEAN]]
    BY <1>1, <1>6 DEF K!Show, PayTyped
  <2>2. \A u \in Tabs : payTab'[u].order = payTab[u].order /\ payTab[u].order \in Nat
    BY <1>1, <1>6 DEF K!Show, PayTyped
  <2>3. Len(payments') \in Nat
    BY <1>6
  <2>. QED  BY <1>1, <1>2, <1>6, <2>1, <2>2, <2>3 DEF PayTyped
<1>7. ASSUME NEW t \in Tabs, NEW target \in K!Pages, K!Tell(t, target)
      PROVE  Lists
  BY <1>1, <1>7 DEF K!Tell, PayTyped
<1>8. \A t \in Tabs : payTab[t].page \in {"dialog", "verifying", "completing"} =>
            payTab[t].order \in K!Payments
  BY <1>1, <1>2 DEF PayTyped, Ordered, K!Payments
<1>9. ASSUME NEW t \in Tabs, K!OpenList(t)  PROVE PayTyped'
  <2>. DEFINE open == IF list[t] # {} THEN list[t] = {TRUE} ELSE ~due.settled
  <2>1. /\ payTab' = [payTab EXCEPT ![t].page = "list", ![t].offers = open /\ due.kind = "COMMISSION"]
        /\ list' = [list EXCEPT ![t] = {open}]
    BY <1>9 DEF K!OpenList
  <2>2. open \in BOOLEAN
    BY <1>1 DEF PayTyped
  <2>. HIDE DEF open
  <2>3. Tabbed
    <3>1. payTab' \in [Tabs -> [page : K!Pages, order : Nat, offers : BOOLEAN]]
      <4>1. \A u \in Tabs : payTab[u] \in [page : K!Pages, order : Nat, offers : BOOLEAN]
        BY <1>1 DEF PayTyped
      <4>2. (open /\ due.kind = "COMMISSION") \in BOOLEAN
        OBVIOUS
      <4>3. [payTab[t] EXCEPT !.page = "list", !.offers = open /\ due.kind = "COMMISSION"]
               \in [page : K!Pages, order : Nat, offers : BOOLEAN]
        BY <4>1, <4>2 DEF K!Pages
      <4>. QED  BY <1>1, <2>1, <4>1, <4>3 DEF PayTyped
    <3>. QED  BY <1>1, <1>9, <2>1, <3>1 DEF PayTyped, K!OpenList
  <2>4. list' \in [Tabs -> SUBSET BOOLEAN]
    BY <1>1, <2>1, <2>2 DEF PayTyped
  <2>. QED  BY <1>1, <1>3, <1>9, <2>3, <2>4 DEF K!OpenList, PayTyped
<1>10. ASSUME NEW t \in Tabs, K!OpenCheckout(t)  PROVE PayTyped'
  BY <1>1, <1>3, <1>6, <1>10 DEF K!OpenCheckout, PayTyped, K!Pages
<1>11. ASSUME NEW t \in Tabs, K!Pay(t)  PROVE PayTyped'
  BY <1>1, <1>3, <1>6, <1>11 DEF K!Pay, PayTyped, K!Pages
<1>12. ASSUME NEW t \in Tabs, K!Initiated(t)  PROVE PayTyped'
  <2>1. Paid /\ Len(payments') = Len(payments) + 1
    BY <1>1, <1>5, <1>12 DEF K!Initiated, PayTyped
  <2>2. Tabbed
    BY <1>1, <1>2, <1>12, <2>1 DEF K!Initiated, PayTyped, K!Pages
  <2>. QED  BY <1>1, <1>12, <2>1, <2>2 DEF K!Initiated, PayTyped
<1>13. ASSUME NEW t \in Tabs, K!InitiateFails(t)  PROVE PayTyped'
  <2>1. Paid
    BY <1>3, <1>5, <1>13 DEF K!InitiateFails
  <2>2. Tabbed
    BY <1>6, <1>13, <2>1 DEF K!InitiateFails, K!Pages
  <2>. QED  BY <1>1, <1>13, <2>1, <2>2 DEF K!InitiateFails, PayTyped
<1>14. ASSUME NEW t \in Tabs, K!Captured(t)  PROVE PayTyped'
  <2>1. payTab[t].order \in K!Payments
    BY <1>8, <1>14 DEF K!Captured
  <2>. DEFINE r == [payments[payTab[t].order] EXCEPT !.captured = TRUE]
  <2>2. r \in PaymentSet /\ payments' = [payments EXCEPT ![payTab[t].order] = r]
    BY <1>2, <1>14, <2>1 DEF K!Captured, PaymentSet
  <2>. HIDE DEF r
  <2>3. Paid
    <3>1. payments' \in Seq(PaymentSet) /\ Len(payments') = Len(payments)
      BY <1>1, <2>1, <2>2, ReplacedIs
    <3>. QED  BY <1>2, <1>14, <3>1 DEF K!Captured
  <2>. QED  BY <1>1, <1>6, <1>14, <2>3 DEF K!Captured, PayTyped, K!Pages
<1>15. ASSUME NEW t \in Tabs, K!Dismissed(t)  PROVE PayTyped'
  <2>1. Paid /\ Lists
    BY <1>3, <1>7, <1>15 DEF K!Dismissed, K!Pages
  <2>. QED  BY <1>1, <1>6, <1>15, <2>1 DEF K!Dismissed, K!Tell, PayTyped, K!Pages
<1>16. ASSUME NEW t \in Tabs, K!Verified(t)  PROVE PayTyped'
  <2>1. Paid /\ Lists
    BY <1>4, <1>7, <1>8, <1>16 DEF K!Verified, K!Pages
  <2>. QED  BY <1>1, <1>6, <1>16, <2>1 DEF K!Verified, K!Tell, PayTyped, K!Pages
<1>17. ASSUME NEW t \in Tabs, K!VerifyFails(t)  PROVE PayTyped'
  <2>1. Paid
    BY <1>3, <1>4, <1>8, <1>17 DEF K!VerifyFails
  <2>2. Lists /\ doubt' \in BOOLEAN
    BY <1>1, <1>7, <1>17 DEF K!VerifyFails, K!Pages, PayTyped
  <2>3. Tabbed
    BY <1>6, <1>17, <2>1 DEF K!VerifyFails, K!Tell, K!Pages
  <2>. QED  BY <1>1, <1>17, <2>1, <2>2, <2>3 DEF K!VerifyFails, PayTyped
<1>18. ASSUME NEW t \in Tabs, K!Expire(t)  PROVE PayTyped'
  BY <1>1, <1>2, <1>18 DEF K!Expire, PayTyped
<1>19. ASSUME NEW p \in K!Payments, NEW r \in PaymentSet,
              payments' = [payments EXCEPT ![p] = r], UNCHANGED <<due, payTab>>
       PROVE  Paid /\ Tabbed
  <2>1. Paid /\ Len(payments') = Len(payments)
    <3>1. payments' \in Seq(PaymentSet) /\ Len(payments') = Len(payments)
      BY <1>1, <1>19, ReplacedIs
    <3>. QED  BY <1>2, <1>19, <3>1
  <2>. QED  BY <1>1, <1>2, <1>19, <2>1 DEF PayTyped
<1>20. ASSUME NEW p \in K!Payments, K!Declined(p)  PROVE PayTyped'
  <2>. DEFINE r == [payments[p] EXCEPT !.status = "FAILED"]
  <2>1. r \in PaymentSet /\ payments' = [payments EXCEPT ![p] = r]
    BY <1>2, <1>20 DEF K!Declined, PaymentSet
  <2>. HIDE DEF r
  <2>2. Paid /\ Tabbed
    BY <1>19, <1>20, <2>1 DEF K!Declined
  <2>. QED  BY <1>1, <1>20, <2>2 DEF K!Declined, PayTyped
<1>21. ASSUME NEW p \in K!Payments, K!CapturedLate(p)  PROVE PayTyped'
  <2>. DEFINE r == [payments[p] EXCEPT !.captured = TRUE]
  <2>1. r \in PaymentSet /\ payments' = [payments EXCEPT ![p] = r]
    BY <1>2, <1>21 DEF K!CapturedLate, PaymentSet
  <2>. HIDE DEF r
  <2>2. Paid /\ Tabbed
    BY <1>19, <1>21, <2>1 DEF K!CapturedLate
  <2>. QED  BY <1>1, <1>21, <2>2 DEF K!CapturedLate, PayTyped
<1>22. ASSUME NEW p \in K!Payments, K!Webhook(p)  PROVE PayTyped'
  <2>1. Paid
    BY <1>3, <1>4, <1>22 DEF K!Webhook
  <2>2. Tabbed
    BY <1>1, <1>2, <1>22, <2>1 DEF K!Webhook, PayTyped
  <2>. QED  BY <1>1, <1>22, <2>1, <2>2 DEF K!Webhook, PayTyped
<1>. HIDE DEF Tabbed, Paid, Flags, Lists
<1>. QED
  BY <1>9, <1>10, <1>11, <1>12, <1>13, <1>14, <1>15, <1>16, <1>17, <1>18, <1>20, <1>21,
     <1>22 DEF K!Next

(* What was captured, has succeeded or is settled stays so.                *)
PaymentsStand ==
    /\ \A p \in K!Payments :
           /\ p \in 1 .. Len(payments')
           /\ payments[p].captured => payments'[p].captured
           /\ payments[p].status = "SUCCESS" => payments'[p].status = "SUCCESS"
    /\ due.settled => due'.settled

LEMMA PaymentsStandStep ==
    ASSUME PayInv, K!Next
    PROVE  PaymentsStand
<1>1. PayTyped /\ Ordered
  BY DEF PayInv
<1>2. /\ Len(payments) \in Nat
      /\ \A p \in K!Payments : payments[p] \in PaymentSet
  BY <1>1 DEF PayTyped, K!Payments
<1>3. ASSUME UNCHANGED <<due, payments>>  PROVE PaymentsStand
  BY <1>3 DEF PaymentsStand, K!Payments
<1>4. ASSUME NEW p \in K!Payments, K!Settle(p)  PROVE PaymentsStand
  <2>1. /\ Len(payments') = Len(payments)
        /\ payments'[p].status = "SUCCESS" /\ payments'[p].captured
        /\ \A q \in K!Payments : q # p => payments'[q] = payments[q]
        /\ due'.settled
    BY <1>1, <1>4, SettleIs
  <2>. QED  BY <2>1 DEF PaymentsStand, K!Payments
<1>5. ASSUME NEW opened \in BOOLEAN, payments' = K!Begun(opened), UNCHANGED due
      PROVE PaymentsStand
  <2>1. /\ Len(payments') = Len(payments) + 1
        /\ \A p \in 1 .. Len(payments) : payments'[p] = payments[p]
    BY <1>1, <1>5, BegunIs
  <2>. QED  BY <1>2, <1>5, <2>1 DEF PaymentsStand, K!Payments
<1>6. ASSUME NEW p \in K!Payments, NEW r \in PaymentSet,
             payments' = [payments EXCEPT ![p] = r], UNCHANGED due,
             payments[p].captured => r.captured,
             payments[p].status = "SUCCESS" => r.status = "SUCCESS"
      PROVE  PaymentsStand
  <2>1. /\ Len(payments') = Len(payments) /\ payments'[p] = r
        /\ \A q \in K!Payments : q # p => payments'[q] = payments[q]
    BY <1>1, <1>6, ReplacedIs
  <2>. QED  BY <1>6, <2>1 DEF PaymentsStand, K!Payments
<1>7. \A t \in Tabs : payTab[t].page \in {"dialog", "verifying", "completing"} =>
            payTab[t].order \in K!Payments
  BY <1>1, <1>2 DEF PayTyped, Ordered, K!Payments
<1>8. ASSUME NEW t \in Tabs, K!OpenList(t) \/ K!OpenCheckout(t) \/ K!Pay(t) \/ K!Dismissed(t) \/ K!Expire(t)
      PROVE  PaymentsStand
  BY <1>3, <1>8 DEF K!OpenList, K!OpenCheckout, K!Pay, K!Dismissed, K!Expire
<1>9. ASSUME NEW t \in Tabs, K!Initiated(t) \/ K!InitiateFails(t)
      PROVE  PaymentsStand
  BY <1>1, <1>3, <1>5, <1>9 DEF K!Initiated, K!InitiateFails, PayTyped
<1>10. ASSUME NEW t \in Tabs, K!Captured(t)  PROVE PaymentsStand
  <2>1. payTab[t].order \in K!Payments
    BY <1>7, <1>10 DEF K!Captured
  <2>. DEFINE r == [payments[payTab[t].order] EXCEPT !.captured = TRUE]
  <2>2. /\ r \in PaymentSet /\ payments' = [payments EXCEPT ![payTab[t].order] = r]
        /\ r.captured /\ r.status = payments[payTab[t].order].status
    BY <1>2, <1>10, <2>1 DEF K!Captured, PaymentSet
  <2>. HIDE DEF r
  <2>. QED  BY <1>6, <1>10, <2>1, <2>2 DEF K!Captured
<1>11. ASSUME NEW t \in Tabs, K!Verified(t) \/ K!VerifyFails(t)  PROVE PaymentsStand
  BY <1>3, <1>4, <1>7, <1>11 DEF K!Verified, K!VerifyFails
<1>12. ASSUME NEW p \in K!Payments, K!Declined(p)  PROVE PaymentsStand
  <2>. DEFINE r == [payments[p] EXCEPT !.status = "FAILED"]
  <2>1. /\ r \in PaymentSet /\ payments' = [payments EXCEPT ![p] = r]
        /\ r.captured = payments[p].captured /\ payments[p].status # "SUCCESS"
    BY <1>2, <1>12 DEF K!Declined, PaymentSet
  <2>. HIDE DEF r
  <2>. QED  BY <1>6, <1>12, <2>1 DEF K!Declined
<1>13. ASSUME NEW p \in K!Payments, K!CapturedLate(p)  PROVE PaymentsStand
  <2>. DEFINE r == [payments[p] EXCEPT !.captured = TRUE]
  <2>1. /\ r \in PaymentSet /\ payments' = [payments EXCEPT ![p] = r]
        /\ r.captured /\ r.status = payments[p].status
    BY <1>2, <1>13 DEF K!CapturedLate, PaymentSet
  <2>. HIDE DEF r
  <2>. QED  BY <1>6, <1>13, <2>1 DEF K!CapturedLate
<1>14. ASSUME NEW p \in K!Payments, K!Webhook(p)  PROVE PaymentsStand
  BY <1>3, <1>4, <1>14 DEF K!Webhook
<1>. QED
  BY <1>8, <1>9, <1>10, <1>11, <1>12, <1>13, <1>14 DEF K!Next

(* A tab keeps its payment, its page and what it was told while another    *)
(* one moves.                                                              *)
LEMMA OrderedStep ==
    ASSUME PayInv, K!Next
    PROVE  Ordered'
<1>1. PayTyped /\ Ordered /\ PaymentsStand
  BY PaymentsStandStep DEF PayInv
<1>2. Len(payments) \in Nat /\ payTab \in [Tabs -> [page : K!Pages, order : Nat, offers : BOOLEAN]]
  BY <1>1 DEF PayTyped
<1>. DEFINE Good(u) ==
        /\ payTab[u].page \in {"dialog", "verifying", "completing", "success"} =>
               payTab[u].order # 0
        /\ payTab[u].page = "verifying" => payments[payTab[u].order].captured
        /\ payTab[u].page = "success" => payments[payTab[u].order].status = "SUCCESS"
<1>3. ASSUME NEW u \in Tabs, payTab'[u].order = payTab[u].order,
             \/ payTab'[u].page = payTab[u].page
             \/ payTab'[u].page \in {"list", "checkout", "asking", "fail"}
      PROVE  Good(u)'
  <2>1. Good(u) /\ payTab[u].order <= Len(payments)
    BY <1>1 DEF Ordered, PayTyped
  <2>2. payTab[u].order # 0 => payTab[u].order \in K!Payments
    BY <1>2, <2>1 DEF K!Payments
  <2>. QED  BY <1>1, <1>2, <1>3, <2>1, <2>2 DEF PaymentsStand
<1>4. ASSUME NEW t \in Tabs, \A u \in Tabs \ {t} : payTab'[u] = payTab[u], Good(t)'
      PROVE  Ordered'
  BY <1>3, <1>4 DEF Ordered
<1>5. ASSUME UNCHANGED payTab  PROVE Ordered'
  BY <1>3, <1>5 DEF Ordered
<1>6. ASSUME NEW t \in Tabs, NEW target \in K!Pages, K!Show(t, target)
      PROVE  /\ \A u \in Tabs \ {t} : payTab'[u] = payTab[u]
             /\ payTab'[t].page = target /\ payTab'[t].order = payTab[t].order
  BY <1>2, <1>6 DEF K!Show
<1>7. \A t \in Tabs : payTab[t].page \in {"dialog", "verifying", "completing"} =>
            payTab[t].order # 0 /\ payTab[t].order \in K!Payments
  BY <1>1, <1>2 DEF PayTyped, Ordered, K!Payments
<1>8. ASSUME NEW t \in Tabs, NEW target \in {"list", "checkout", "asking", "fail"}, K!Show(t, target)
      PROVE  Ordered'
  BY <1>3, <1>4, <1>6, <1>8 DEF K!Pages
<1>9. ASSUME NEW t \in Tabs, K!OpenList(t)  PROVE Ordered'
  <2>1. /\ \A u \in Tabs \ {t} : payTab'[u] = payTab[u]
        /\ payTab'[t].page = "list" /\ payTab'[t].order = payTab[t].order
    BY <1>2, <1>9 DEF K!OpenList
  <2>. QED  BY <1>3, <1>4, <2>1
<1>10. ASSUME NEW t \in Tabs, K!OpenCheckout(t) \/ K!Pay(t) \/ K!InitiateFails(t) \/ K!Dismissed(t)
       PROVE  Ordered'
  BY <1>8, <1>10 DEF K!OpenCheckout, K!Pay, K!InitiateFails, K!Dismissed, K!Tell
<1>11. ASSUME NEW t \in Tabs, K!Initiated(t)  PROVE Ordered'
  <2>1. mock \in BOOLEAN /\ Len(payments') = Len(payments) + 1
    BY <1>1, <1>11, BegunIs DEF K!Initiated, PayTyped
  <2>2. /\ \A u \in Tabs \ {t} : payTab'[u] = payTab[u]
        /\ payTab'[t].page \in {"completing", "dialog"} /\ payTab'[t].order = Len(payments')
    BY <1>2, <1>11, <2>1 DEF K!Initiated
  <2>3. Good(t)'
    BY <1>2, <2>1, <2>2
  <2>. QED  BY <1>4, <2>2, <2>3
<1>12. ASSUME NEW t \in Tabs, K!Captured(t)  PROVE Ordered'
  <2>1. /\ \A u \in Tabs \ {t} : payTab'[u] = payTab[u]
        /\ payTab'[t].page = "verifying" /\ payTab'[t].order = payTab[t].order
    BY <1>6, <1>12 DEF K!Captured, K!Pages
  <2>2. payTab[t].order # 0 /\ payTab[t].order \in 1 .. Len(payments)
    BY <1>7, <1>12 DEF K!Captured, K!Payments
  <2>3. payments'[payTab[t].order].captured
    <3>1. payments \in Seq(PaymentSet) /\ payments[payTab[t].order] \in PaymentSet
      BY <1>1, <2>2 DEF PayTyped
    <3>. QED  BY <1>12, <2>2, <3>1 DEF K!Captured, PaymentSet
  <2>. QED  BY <1>4, <2>1, <2>2, <2>3
<1>13. ASSUME NEW t \in Tabs, K!Verified(t)  PROVE Ordered'
  <2>1. payTab[t].order \in K!Payments /\ payTab[t].order # 0
    BY <1>7, <1>13 DEF K!Verified
  <2>2. payments'[payTab[t].order].status = "SUCCESS"
    BY <1>1, <1>13, <2>1, SettleIs DEF K!Verified
  <2>3. /\ \A u \in Tabs \ {t} : payTab'[u] = payTab[u]
        /\ payTab'[t].page = "success" /\ payTab'[t].order = payTab[t].order
    BY <1>6, <1>13 DEF K!Verified, K!Tell, K!Pages
  <2>. QED  BY <1>4, <2>1, <2>2, <2>3
<1>14. ASSUME NEW t \in Tabs, K!VerifyFails(t)  PROVE Ordered'
  BY <1>8, <1>14 DEF K!VerifyFails, K!Tell
<1>15. ASSUME NEW t \in Tabs, K!Expire(t)  PROVE Ordered'
  BY <1>5, <1>15 DEF K!Expire
<1>16. ASSUME NEW p \in K!Payments, K!Declined(p) \/ K!CapturedLate(p) \/ K!Webhook(p)
       PROVE  Ordered'
  BY <1>5, <1>16 DEF K!Declined, K!CapturedLate, K!Webhook
<1>. HIDE DEF Good
<1>. QED
  BY <1>9, <1>10, <1>11, <1>12, <1>13, <1>14, <1>15, <1>16 DEF K!Next

LEMMA ToldStep ==
    ASSUME PayInv, K!Next
    PROVE  ToldIsSettled'
<1>1. PayTyped /\ ToldIsSettled /\ PaymentsStand /\ Ordered
  BY PaymentsStandStep DEF PayInv
<1>2. /\ payTab \in [Tabs -> [page : K!Pages, order : Nat, offers : BOOLEAN]]
      /\ list \in [Tabs -> SUBSET BOOLEAN] /\ told \subseteq Tabs
      /\ due.settled \in BOOLEAN
  BY <1>1 DEF PayTyped
<1>3. ASSUME NEW u \in told,
             list'[u] \subseteq list[u],
             payTab'[u].page = "list" => payTab[u].page = "list" /\ payTab'[u].offers = payTab[u].offers
      PROVE  /\ due'.settled /\ list'[u] \subseteq {FALSE}
             /\ payTab'[u].page = "list" => ~payTab'[u].offers
  BY <1>1, <1>3 DEF ToldIsSettled, PaymentsStand
<1>4. ASSUME NEW t \in Tabs, NEW target \in K!Pages \ {"list"}, K!Show(t, target),
             told' = told, \A u \in Tabs : list'[u] \subseteq list[u]
      PROVE  ToldIsSettled'
  <2>1. ASSUME NEW u \in told
        PROVE  /\ list'[u] \subseteq list[u]
               /\ payTab'[u].page = "list" =>
                     payTab[u].page = "list" /\ payTab'[u].offers = payTab[u].offers
    BY <1>2, <1>4 DEF K!Show
  <2>. QED  BY <1>3, <1>4, <2>1 DEF ToldIsSettled
<1>5. ASSUME NEW t \in Tabs, K!OpenList(t)  PROVE ToldIsSettled'
  <2>. DEFINE open == IF list[t] # {} THEN list[t] = {TRUE} ELSE ~due.settled
  <2>1. /\ payTab' = [payTab EXCEPT ![t].page = "list", ![t].offers = open /\ due.kind = "COMMISSION"]
        /\ list' = [list EXCEPT ![t] = {open}] /\ told' = told
    BY <1>5 DEF K!OpenList
  <2>2. ASSUME t \in told  PROVE open = FALSE
    <3>1. due.settled /\ list[t] \subseteq {FALSE}
      BY <1>1, <2>2 DEF ToldIsSettled
    <3>2. list[t] # {TRUE}
      BY <3>1
    <3>. QED  BY <3>1, <3>2
  <2>. HIDE DEF open
  <2>3. \A u \in told : u # t => list'[u] = list[u] /\ payTab'[u] = payTab[u]
    BY <1>2, <2>1
  <2>4. list'[t] = {open} /\ payTab'[t].offers = (open /\ due.kind = "COMMISSION")
    BY <1>2, <2>1
  <2>5. ASSUME t \in told
        PROVE  due'.settled /\ list'[t] \subseteq {FALSE} /\ ~payTab'[t].offers
    BY <1>1, <2>2, <2>4, <2>5 DEF ToldIsSettled, PaymentsStand
  <2>. QED  BY <1>3, <2>1, <2>3, <2>5 DEF ToldIsSettled
<1>6. ASSUME NEW t \in Tabs, K!OpenCheckout(t) \/ K!Pay(t) \/ K!Captured(t) \/ K!InitiateFails(t)
      PROVE  ToldIsSettled'
  BY <1>4, <1>6 DEF K!OpenCheckout, K!Pay, K!Captured, K!InitiateFails, K!Pages
<1>7. ASSUME NEW t \in Tabs, K!Initiated(t)  PROVE ToldIsSettled'
  <2>1. ASSUME NEW u \in told
        PROVE  payTab'[u].page = "list" =>
                  payTab[u].page = "list" /\ payTab'[u].offers = payTab[u].offers
    BY <1>2, <1>7 DEF K!Initiated
  <2>. QED  BY <1>3, <1>7, <2>1 DEF K!Initiated, ToldIsSettled
<1>8. ASSUME NEW t \in Tabs, NEW target \in K!Pages \ {"list", "success"}, K!Tell(t, target)
      PROVE  ToldIsSettled'
  <2>1. K!Show(t, target) /\ told' = told /\ \A u \in Tabs : list'[u] \subseteq list[u]
    BY <1>2, <1>8 DEF K!Tell
  <2>. QED  BY <1>4, <1>8, <2>1
<1>9. ASSUME NEW t \in Tabs, K!Dismissed(t) \/ K!VerifyFails(t)  PROVE ToldIsSettled'
  BY <1>4, <1>8, <1>9 DEF K!Dismissed, K!VerifyFails, K!Pages
<1>10. ASSUME NEW t \in Tabs, K!Verified(t)  PROVE ToldIsSettled'
  <2>1. due'.settled
    BY <1>10 DEF K!Verified, K!Settle, PayTyped
  <2>2. told' = told \union {t} /\ list' = [list EXCEPT ![t] = {}]
        /\ payTab' = [payTab EXCEPT ![t].page = "success"]
    BY <1>10 DEF K!Verified, K!Tell, K!Show
  <2>3. list'[t] = {} /\ payTab'[t].page = "success"
    BY <1>2, <2>2
  <2>4. \A u \in told : u # t => list'[u] = list[u] /\ payTab'[u] = payTab[u]
    BY <1>2, <2>2
  <2>. QED  BY <1>3, <2>1, <2>2, <2>3, <2>4 DEF ToldIsSettled
<1>11. ASSUME UNCHANGED <<payTab, told>>, \A u \in Tabs : list'[u] \subseteq list[u]
       PROVE  ToldIsSettled'
  BY <1>2, <1>3, <1>11 DEF ToldIsSettled
<1>12. ASSUME NEW t \in Tabs, K!Expire(t)  PROVE ToldIsSettled'
  BY <1>2, <1>11, <1>12 DEF K!Expire
<1>13. ASSUME NEW p \in K!Payments, K!Declined(p) \/ K!CapturedLate(p) \/ K!Webhook(p)
       PROVE  ToldIsSettled'
  BY <1>11, <1>13 DEF K!Declined, K!CapturedLate, K!Webhook
<1>. QED
  BY <1>5, <1>6, <1>7, <1>9, <1>10, <1>12, <1>13 DEF K!Next

(* Steps that capture nothing keep a tutor charged once, as long as no tab *)
(* starts to pay beside another and none stops verifying unsettled.        *)
LEMMA ChargedStep ==
    ASSUME PayInv, K!Next
    PROVE  ChargedAtMostOnce'
<1>1. PayTyped /\ ChargedAtMostOnce /\ PaymentsStand /\ Ordered
  BY PaymentsStandStep DEF PayInv
<1>2. /\ payTab \in [Tabs -> [page : K!Pages, order : Nat, offers : BOOLEAN]]
      /\ due.settled \in BOOLEAN /\ mock \in BOOLEAN /\ doubt \in BOOLEAN
      /\ Len(payments) \in Nat /\ payments \in Seq(PaymentSet)
      /\ \A p \in K!Payments : payments[p] \in PaymentSet
  BY <1>1 DEF PayTyped, K!Payments
<1>. DEFINE OnePays == \A t, u \in Tabs :
                          payTab[t].page \in K!Paying /\ payTab[u].page \in K!Paying => t = u
            Uncharged == \A t \in Tabs : payTab[t].page \in {"dialog", "completing"} =>
                            \A p \in K!Payments : ~payments[p].captured
            OneCaptured == \A p, q \in K!Payments : payments[p].captured /\ payments[q].captured => p = q
            Known == \A p \in K!Payments : payments[p].captured =>
                        due.settled \/ \E t \in Tabs : payTab[t].page = "verifying"
<1>3. SUFFICES ASSUME ~doubt'  PROVE OnePays' /\ Uncharged' /\ OneCaptured' /\ Known'
  BY DEF ChargedAtMostOnce
<1>4. ~doubt
  BY <1>3 DEF K!Next, K!OpenList, K!OpenCheckout, K!Pay, K!Initiated, K!InitiateFails, K!Captured,
              K!Dismissed, K!Verified, K!VerifyFails, K!Expire, K!Declined, K!CapturedLate, K!Webhook
<1>5. OnePays /\ Uncharged /\ OneCaptured /\ Known
  BY <1>1, <1>4 DEF ChargedAtMostOnce
<1>6. \A t \in Tabs : payTab[t].page \in {"dialog", "verifying", "completing"} =>
            payTab[t].order \in K!Payments
  BY <1>1, <1>2 DEF PayTyped, Ordered, K!Payments
(* Nothing is captured by the step.                                        *)
<1>7. ASSUME \A p \in K!Payments' : payments'[p].captured =>
                 p \in K!Payments /\ payments[p].captured
      PROVE  OneCaptured'
  BY <1>5, <1>7
<1>8. ASSUME UNCHANGED payments
      PROVE  \A p \in K!Payments' : payments'[p].captured =>
                 p \in K!Payments /\ payments[p].captured
  BY <1>8 DEF K!Payments
<1>9. ASSUME NEW opened \in BOOLEAN, payments' = K!Begun(opened)
      PROVE  \A p \in K!Payments' : payments'[p].captured =>
                 p \in K!Payments /\ payments[p].captured
  <2>1. /\ Len(payments') = Len(payments) + 1
        /\ payments'[Len(payments')].captured = FALSE
        /\ \A p \in 1 .. Len(payments) : payments'[p] = payments[p]
    <3>1. /\ Len(payments') = Len(payments) + 1
          /\ payments'[Len(payments')] =
                [status |-> "PENDING", opened |-> opened, captured |-> FALSE]
          /\ \A p \in 1 .. Len(payments) : payments'[p] = payments[p]
      BY <1>1, <1>9, BegunIs
    <3>. QED  BY <3>1
  <2>2. \A p \in K!Payments' : p \in K!Payments \/ p = Len(payments')
    BY <1>2, <2>1 DEF K!Payments
  <2>. QED  BY <2>1, <2>2 DEF K!Payments
<1>10. ASSUME NEW p \in K!Payments, payments[p].captured, K!Settle(p)
       PROVE  /\ \A q \in K!Payments' : payments'[q].captured =>
                    q \in K!Payments /\ payments[q].captured
              /\ due'.settled
  <2>1. /\ Len(payments') = Len(payments)
        /\ \A q \in K!Payments : q # p => payments'[q] = payments[q]
        /\ due'.settled
    BY <1>1, <1>10, SettleIs
  <2>. QED  BY <1>10, <2>1 DEF K!Payments
(* One tab moves.                                                          *)
<1>11. ASSUME NEW t \in Tabs, \A u \in Tabs \ {t} : payTab'[u] = payTab[u],
              payTab'[t].page \in K!Paying => payTab[t].page \in K!Paying
       PROVE  OnePays'
  BY <1>5, <1>11
<1>12. ASSUME NEW t \in Tabs, \A u \in Tabs \ {t} : payTab'[u] = payTab[u],
              payTab'[t].page \notin {"dialog", "completing"} \/ payTab'[t].page = payTab[t].page,
              \A p \in K!Payments' : payments'[p].captured =>
                 p \in K!Payments /\ payments[p].captured
       PROVE  Uncharged'
  BY <1>5, <1>12
<1>13. ASSUME NEW t \in Tabs, \A u \in Tabs \ {t} : payTab'[u] = payTab[u],
              \A p \in K!Payments' : payments'[p].captured =>
                 p \in K!Payments /\ payments[p].captured,
              payTab[t].page = "verifying" => payTab'[t].page = "verifying" \/ due'.settled
       PROVE  Known'
  BY <1>1, <1>5, <1>13 DEF PaymentsStand
<1>14. ASSUME NEW t \in Tabs, NEW target \in K!Pages, K!Show(t, target)
       PROVE  /\ \A u \in Tabs \ {t} : payTab'[u] = payTab[u]
              /\ payTab'[t].page = target /\ payTab'[t].order = payTab[t].order
  BY <1>2, <1>14 DEF K!Show
<1>. HIDE DEF OnePays, Uncharged, OneCaptured, Known
<1>15. ASSUME UNCHANGED payTab,
              \A p \in K!Payments' : payments'[p].captured =>
                 p \in K!Payments /\ payments[p].captured
       PROVE  OnePays' /\ Uncharged' /\ OneCaptured' /\ Known'
  BY <1>1, <1>5, <1>7, <1>15 DEF OnePays, Uncharged, Known, PaymentsStand
<1>16. ASSUME NEW t \in Tabs, K!OpenList(t)
       PROVE  OnePays' /\ Uncharged' /\ OneCaptured' /\ Known'
  <2>1. /\ \A u \in Tabs \ {t} : payTab'[u] = payTab[u]
        /\ payTab[t].page # "verifying" /\ payTab'[t].page = "list"
    BY <1>2, <1>16 DEF K!OpenList
  <2>2. \A p \in K!Payments' : payments'[p].captured => p \in K!Payments /\ payments[p].captured
    BY <1>8, <1>16 DEF K!OpenList
  <2>. QED  BY <1>7, <1>11, <1>12, <1>13, <2>1, <2>2 DEF K!Paying
<1>17. ASSUME NEW t \in Tabs, K!OpenCheckout(t) \/ K!Dismissed(t) \/ K!InitiateFails(t)
       PROVE  OnePays' /\ Uncharged' /\ OneCaptured' /\ Known'
  <2>1. /\ \A u \in Tabs \ {t} : payTab'[u] = payTab[u]
        /\ payTab[t].page # "verifying" /\ payTab'[t].page \in {"checkout", "fail"}
    BY <1>14, <1>17 DEF K!OpenCheckout, K!Dismissed, K!InitiateFails, K!Tell, K!Pages
  <2>2. \A p \in K!Payments' : payments'[p].captured => p \in K!Payments /\ payments[p].captured
    BY <1>8, <1>9, <1>17 DEF K!OpenCheckout, K!Dismissed, K!InitiateFails
  <2>. QED  BY <1>7, <1>11, <1>12, <1>13, <2>1, <2>2 DEF K!Paying
<1>18. ASSUME NEW t \in Tabs, K!Pay(t)
       PROVE  OnePays' /\ Uncharged' /\ OneCaptured' /\ Known'
  <2>1. /\ \A u \in Tabs \ {t} : payTab'[u] = payTab[u]
        /\ payTab[t].page # "verifying" /\ payTab'[t].page = "asking"
    BY <1>14, <1>18 DEF K!Pay, K!Pages
  <2>2. \A p \in K!Payments' : payments'[p].captured => p \in K!Payments /\ payments[p].captured
    BY <1>8, <1>18 DEF K!Pay
  <2>3. \A u \in Tabs \ {t} : payTab[u].page \notin K!Paying
    BY <1>3, <1>4, <1>18 DEF K!Pay
  <2>4. OnePays'
    BY <2>1, <2>3 DEF OnePays
  <2>. QED  BY <1>7, <1>12, <1>13, <2>1, <2>2, <2>4
<1>19. ASSUME NEW t \in Tabs, K!Initiated(t)
       PROVE  OnePays' /\ Uncharged' /\ OneCaptured' /\ Known'
  <2>1. /\ \A u \in Tabs \ {t} : payTab'[u] = payTab[u]
        /\ payTab[t].page = "asking" /\ payTab'[t].page \in {"completing", "dialog"}
    BY <1>2, <1>19 DEF K!Initiated
  <2>2. \A p \in K!Payments' : payments'[p].captured => p \in K!Payments /\ payments[p].captured
    BY <1>2, <1>9, <1>19 DEF K!Initiated
  <2>3. \A u \in Tabs : payTab[u].page # "verifying"
    BY <1>5, <2>1 DEF OnePays, K!Paying
  <2>4. \A p \in K!Payments : ~payments[p].captured
    BY <1>5, <1>19, <2>3 DEF K!Initiated, K!Accepts, Known
  <2>5. Uncharged'
    BY <2>2, <2>4 DEF Uncharged
  <2>. QED  BY <1>7, <1>11, <1>13, <2>1, <2>2, <2>5 DEF K!Paying
<1>20. ASSUME NEW t \in Tabs, K!Captured(t)
       PROVE  OnePays' /\ Uncharged' /\ OneCaptured' /\ Known'
  <2>1. /\ \A u \in Tabs \ {t} : payTab'[u] = payTab[u]
        /\ payTab[t].page = "dialog" /\ payTab'[t].page = "verifying"
    BY <1>14, <1>20 DEF K!Captured, K!Pages
  <2>2. \A p \in K!Payments : ~payments[p].captured
    BY <1>5, <2>1 DEF Uncharged
  <2>3. K!Payments' = K!Payments
        /\ \A p \in K!Payments : p # payTab[t].order => payments'[p] = payments[p]
    BY <1>2, <1>20 DEF K!Captured, K!Payments
  <2>4. OneCaptured'
    BY <2>2, <2>3 DEF OneCaptured
  <2>5. Known'
    BY <2>1 DEF Known
  <2>6. \A u \in Tabs : payTab'[u].page \notin {"dialog", "completing"}
    BY <1>5, <2>1 DEF OnePays, K!Paying
  <2>. QED  BY <1>11, <2>1, <2>4, <2>5, <2>6 DEF K!Paying, Uncharged
<1>21. ASSUME NEW t \in Tabs, payTab[t].page \in {"verifying", "completing"},
              K!Settle(payTab[t].order), NEW target \in K!Pages \ K!Paying, K!Show(t, target)
       PROVE  OnePays' /\ Uncharged' /\ OneCaptured' /\ Known'
  <2>1. /\ \A u \in Tabs \ {t} : payTab'[u] = payTab[u]
        /\ payTab'[t].page \notin K!Paying
    BY <1>14, <1>21
  <2>2. \A u \in Tabs : payTab'[u].page \notin K!Paying
    BY <1>5, <1>21, <2>1 DEF OnePays, K!Paying
  <2>3. payTab[t].order \in K!Payments
    BY <1>6, <1>21
  <2>4. /\ Len(payments') = Len(payments)
        /\ \A q \in K!Payments : q # payTab[t].order => payments'[q] = payments[q]
        /\ due'.settled
    BY <1>1, <1>21, <2>3, SettleIs
  <2>5. \A q \in K!Payments : payments[q].captured => q = payTab[t].order
    <3>1. CASE payTab[t].page = "verifying"
      BY <1>1, <1>5, <2>3, <3>1 DEF Ordered, OneCaptured
    <3>2. CASE payTab[t].page = "completing"
      BY <1>5, <3>2 DEF Uncharged
    <3>. QED  BY <1>21, <3>1, <3>2
  <2>6. OneCaptured'
    BY <2>4, <2>5 DEF OneCaptured, K!Payments
  <2>. QED  BY <2>2, <2>4, <2>6 DEF OnePays, Uncharged, Known, K!Paying
<1>22. ASSUME NEW t \in Tabs, K!Verified(t)
       PROVE  OnePays' /\ Uncharged' /\ OneCaptured' /\ Known'
  BY <1>21, <1>22 DEF K!Verified, K!Tell, K!Pages, K!Paying
<1>23. ASSUME NEW t \in Tabs, K!VerifyFails(t)
       PROVE  OnePays' /\ Uncharged' /\ OneCaptured' /\ Known'
  <2>1. payTab[t].page = "completing" /\ K!Show(t, "checkout")
    BY <1>3, <1>23 DEF K!VerifyFails
  <2>2. CASE K!Settle(payTab[t].order)
    BY <1>21, <2>1, <2>2 DEF K!Pages, K!Paying
  <2>3. CASE UNCHANGED <<due, payments>>
    <3>1. /\ \A u \in Tabs \ {t} : payTab'[u] = payTab[u]
          /\ payTab'[t].page = "checkout"
      BY <1>14, <2>1 DEF K!Pages
    <3>2. \A p \in K!Payments' : payments'[p].captured => p \in K!Payments /\ payments[p].captured
      BY <1>8, <2>3
    <3>. QED  BY <1>7, <1>11, <1>12, <1>13, <2>1, <3>1, <3>2 DEF K!Paying
  <2>. QED  BY <1>23, <2>2, <2>3 DEF K!VerifyFails
<1>24. ASSUME NEW t \in Tabs, K!Expire(t)
       PROVE  OnePays' /\ Uncharged' /\ OneCaptured' /\ Known'
  BY <1>8, <1>15, <1>24 DEF K!Expire
<1>25. ASSUME NEW p \in K!Payments, K!Declined(p)
       PROVE  OnePays' /\ Uncharged' /\ OneCaptured' /\ Known'
  <2>1. \A q \in K!Payments' : payments'[q].captured => q \in K!Payments /\ payments[q].captured
    BY <1>2, <1>25 DEF K!Declined, K!Payments, PaymentSet
  <2>. QED  BY <1>15, <1>25, <2>1 DEF K!Declined
<1>26. ASSUME NEW p \in K!Payments, K!CapturedLate(p)  PROVE FALSE
  BY <1>3, <1>26 DEF K!CapturedLate
<1>27. ASSUME NEW p \in K!Payments, K!Webhook(p)
       PROVE  OnePays' /\ Uncharged' /\ OneCaptured' /\ Known'
  <2>1. \A q \in K!Payments' : payments'[q].captured => q \in K!Payments /\ payments[q].captured
    BY <1>8, <1>10, <1>27 DEF K!Webhook
  <2>. QED  BY <1>15, <1>27, <2>1 DEF K!Webhook
<1>. QED
  BY <1>16, <1>17, <1>18, <1>19, <1>20, <1>22, <1>23, <1>24, <1>25, <1>26, <1>27 DEF K!Next

LEMMA PayInvStep ==
    ASSUME PayInv, [K!Next]_payVars
    PROVE  PayInv'
<1>1. CASE K!Next
  BY <1>1, PayTypedStep, OrderedStep, ToldStep, ChargedStep DEF PayInv
<1>2. CASE UNCHANGED payVars
  BY <1>2 DEF payVars, PayInv, PayTyped, Ordered, ToldIsSettled, ChargedAtMostOnce, K!Payments
<1>. QED  BY <1>1, <1>2

(* Every part counts alike.                                                *)
LEMMA CountedAlike ==
    ASSUME NEW S
    PROVE  /\ K!Cardinality(S) = Cardinality(S)
           /\ P!Cardinality(S) = Cardinality(S)
           /\ W!Cardinality(S) = Cardinality(S)
           /\ D!Cardinality(S) = Cardinality(S)
BY DEF K!Cardinality, P!Cardinality, W!Cardinality, D!Cardinality, Cardinality

LEMMA PayInvIsEnough ==
    ASSUME PayInv
    PROVE  K!TypeOK /\ K!ChargedOnce /\ K!SuccessIsTrue /\ K!PaidIsNotOffered
<1>1. K!TypeOK
  <2>1. \A p \in K!Payments : payments[p] \in PaymentSet
    BY DEF PayInv, PayTyped, K!Payments
  <2>2. \A t \in Tabs : payTab[t].page \in K!Pages /\ payTab[t].order \in 0 .. Len(payments)
    BY DEF PayInv, PayTyped
  <2>. QED  BY <2>1, <2>2 DEF PayInv, PayTyped, PaymentSet, K!TypeOK
<1>2. K!ChargedOnce
  <2>. DEFINE charged == {p \in K!Payments : payments[p].captured}
  <2>1. ASSUME ~doubt  PROVE Cardinality(charged) <= 1
    <3>1. \A p, q \in charged : p = q
      BY <2>1 DEF PayInv, ChargedAtMostOnce
    <3>. HIDE DEF charged
    <3>2. CASE charged = {}
      BY <3>2, FS_EmptySet
    <3>3. CASE charged # {}
      <4>1. PICK p \in charged : TRUE
        BY <3>3
      <4>2. charged = {p}
        BY <3>1, <4>1
      <4>3. Cardinality({p}) = 1
        BY FS_Singleton
      <4>. QED  BY <4>2, <4>3
    <3>. QED  BY <3>2, <3>3
  <2>. QED  BY <2>1, CountedAlike DEF K!ChargedOnce, charged
<1>3. K!SuccessIsTrue
  BY DEF PayInv, PayTyped, Ordered, ToldIsSettled, K!SuccessIsTrue
<1>4. K!PaidIsNotOffered
  BY DEF PayInv, ToldIsSettled, K!PaidIsNotOffered
<1>. QED  BY <1>1, <1>2, <1>3, <1>4

(* In any number of tabs, with any number of payments: the tutor is        *)
(* charged once unless there was doubt, success is told only of what is    *)
(* settled, and what was told of as paid is not offered again.             *)
THEOREM PaymentStaysTrue == Spec => []PaymentIsTrue
<1>. DEFINE Inv == part = "pay" => PayInv
<1>1. Init => Inv
  BY PayInvInit DEF Init
<1>2. Inv /\ [Next]_<<part, parts>> => Inv'
  <2>. SUFFICES ASSUME Inv, [Next]_<<part, parts>>, part' = "pay"  PROVE PayInv'
    OBVIOUS
  <2>1. CASE PayNext
    BY <2>1, PayInvStep DEF PayNext
  <2>2. CASE UNCHANGED <<part, parts>>
    <3>1. part = "pay" /\ UNCHANGED payVars
      BY <2>2 DEF parts
    <3>. QED  BY <3>1, PayInvStep
  <2>. QED  BY <2>1, <2>2 DEF Next, ChatNext, FormNext, DealNext, AfterNext, WizardNext
<1>3. Inv => PaymentIsTrue
  BY PayInvIsEnough DEF PaymentIsTrue
<1>. QED  BY <1>1, <1>2, <1>3, PTL DEF Spec

-----------------------------------------------------------------------------
(* The pages of a deal. *)

(* A click on a page that shows the present.                               *)
Fresh(u, op, d) == \E p \in P!PageNames : op \in P!Offered(u, p, P!View(u, p, d))

(* What is finished is so in both rows.                                    *)
FinishedTogether(d) == d.req = "COMPLETED" => d.agreement = "COMPLETED"

(* What is in force was matched, and has its agreement.                    *)
InForceTogether(d) == d.req = "ACTIVE" => d.match = "MATCHED" /\ d.agreement = "ACTIVE"

LEMMA ActiveIs ==
    ASSUME NEW d \in P!Deals
    PROVE  /\ P!Active(d) \in P!Deals
           /\ P!Active(d).req = "ACTIVE" /\ P!Active(d).match = "MATCHED"
           /\ P!Active(d).agreement = "ACTIVE"
<1>. DEFINE d1 == [d EXCEPT !.req = "ACTIVE"]
            d2 == [d1 EXCEPT !.match = "MATCHED"]
            d3 == [d2 EXCEPT !.agreement = "ACTIVE"]
            d4 == [d3 EXCEPT !.slot = "OCCUPIED"]
<1>0. P!Active(d) = d4
  BY DEF P!Active
<1>1. d1 \in P!Deals /\ d1.req = "ACTIVE"
  BY DEF P!Deals, P!Requirements
<1>. HIDE DEF d1
<1>2. d2 \in P!Deals /\ d2.req = "ACTIVE" /\ d2.match = "MATCHED"
  BY <1>1 DEF P!Deals, P!Matches
<1>. HIDE DEF d2
<1>3. d3 \in P!Deals /\ d3.req = "ACTIVE" /\ d3.match = "MATCHED" /\ d3.agreement = "ACTIVE"
  BY <1>2 DEF P!Deals
<1>. HIDE DEF d3
<1>4. d4 \in P!Deals /\ d4.req = "ACTIVE" /\ d4.match = "MATCHED" /\ d4.agreement = "ACTIVE"
  BY <1>3 DEF P!Deals
<1>. HIDE DEF d4
<1>. QED  BY <1>0, <1>4

LEMMA RequirementMoves ==
    ASSUME NEW d \in P!Deals, NEW x \in P!Requirements
    PROVE  LET e == [d EXCEPT !.req = x]
           IN  /\ e \in P!Deals /\ e.req = x
               /\ e.match = d.match /\ e.agreement = d.agreement
BY DEF P!Deals

(* What an accepted operation does to a deal.                              *)

LEMMA ResultsAreSound ==
    ASSUME NEW d \in P!Deals, NEW u \in P!Users, NEW op, P!Accepts(u, op, d),
           NEW e \in P!Results(u, op, d)
    PROVE  /\ e \in P!Deals
           /\ FinishedTogether(d) =>
                 FinishedTogether(e) /\ (d.req = "COMPLETED" => e.req = "COMPLETED")
           /\ InForceTogether(d) /\ Fresh(u, op, d) => InForceTogether(e)
<1>. USE DEF P!Requirements, P!Matches, P!Outcomes, P!Pending, P!Accepting, P!Cancelable, P!Decidable
<1>1. CASE P!AcceptsOfRequirement(u, op, d)
  <2>1. CASE op = "publish"
    <3>1. e = [d EXCEPT !.req = "OPEN"] /\ d.req = "DRAFT"
      BY <1>1, <2>1 DEF P!Results, P!AcceptsOfRequirement
    <3>. QED  BY <3>1, RequirementMoves DEF FinishedTogether, InForceTogether
  <2>2. CASE op = "cancel"
    <3>1. e = [d EXCEPT !.req = "CANCELLED"] /\ d.req \in P!Cancelable
      BY <1>1, <2>2 DEF P!Results, P!AcceptsOfRequirement
    <3>. QED  BY <3>1, RequirementMoves DEF FinishedTogether, InForceTogether
  <2>3. CASE op = "complete"
    <3>1. e = [d EXCEPT !.req = "COMPLETED", !.agreement = "COMPLETED"]
      BY <1>1, <2>3 DEF P!Results, P!AcceptsOfRequirement
    <3>. QED  BY <3>1 DEF P!Deals, FinishedTogether, InForceTogether
  <2>. QED  BY <1>1, <2>1, <2>2, <2>3 DEF P!AcceptsOfRequirement
<1>2. CASE P!AcceptsOfMatch(u, op, d)
  <2>1. CASE op = "apply"
    <3>1. /\ e = [d EXCEPT !.match = "APPLIED", !.applied = TRUE, !.req =
                      IF d.req = "OPEN" THEN "APPLIED" ELSE d.req]
          /\ d.req \in P!Accepting
      BY <1>2, <2>1 DEF P!Results, P!AcceptsOfMatch
    <3>2. d.req \in P!Requirements /\ "APPLIED" \in P!Requirements /\ "APPLIED" \in P!Matches
      BY DEF P!Deals
    <3>3. e \in P!Deals /\ e.agreement = d.agreement
          /\ e.req = IF d.req = "OPEN" THEN "APPLIED" ELSE d.req
      <4>. DEFINE x == IF d.req = "OPEN" THEN "APPLIED" ELSE d.req
      <4>1. x \in P!Requirements
        BY <3>2
      <4>. HIDE DEF x, P!Requirements, P!Matches, P!Outcomes, P!Pending
      <4>2. e = [d EXCEPT !.match = "APPLIED", !.applied = TRUE, !.req = x]
        BY <3>1 DEF x
      <4>3. "APPLIED" \in P!Matches
        BY <3>2
      <4>4. e \in P!Deals /\ e.req = x /\ e.agreement = d.agreement
        BY <4>1, <4>2, <4>3 DEF P!Deals
      <4>. QED  BY <4>4 DEF x
    <3>4. d.req \in P!Accepting
      BY <3>1
    <3>5. e.req \notin {"ACTIVE", "COMPLETED"} /\ d.req # "COMPLETED"
      BY <3>3, <3>4
    <3>. QED  BY <3>3, <3>5 DEF FinishedTogether, InForceTogether
  <2>2. CASE op = "invite"
    <3>1. e = [d EXCEPT !.match = "INVITED"] /\ d.req \in P!Accepting
      BY <1>2, <2>2 DEF P!Results, P!AcceptsOfMatch
    <3>. QED  BY <3>1 DEF P!Deals, FinishedTogether, InForceTogether
  <2>3. CASE op = "shortlist"
    <3>1. /\ e = [d EXCEPT !.match = "SHORTLISTED", !.req =
                      IF d.req \in {"OPEN", "APPLIED"} THEN "SHORTLISTED" ELSE d.req]
          /\ d.match \in P!Decidable
      BY <1>2, <2>3 DEF P!Results, P!AcceptsOfMatch
    <3>2. d.req \in P!Requirements /\ "SHORTLISTED" \in P!Requirements
          /\ "SHORTLISTED" \in P!Matches
      BY DEF P!Deals
    <3>3. e \in P!Deals /\ e.agreement = d.agreement
          /\ e.req = IF d.req \in {"OPEN", "APPLIED"} THEN "SHORTLISTED" ELSE d.req
      <4>. DEFINE x == IF d.req \in {"OPEN", "APPLIED"} THEN "SHORTLISTED" ELSE d.req
      <4>1. x \in P!Requirements
        BY <3>2
      <4>. HIDE DEF x, P!Requirements, P!Matches, P!Outcomes, P!Pending
      <4>2. e = [d EXCEPT !.match = "SHORTLISTED", !.req = x]
        BY <3>1 DEF x
      <4>3. "SHORTLISTED" \in P!Matches
        BY <3>2
      <4>4. e \in P!Deals /\ e.req = x /\ e.agreement = d.agreement
        BY <4>1, <4>2, <4>3 DEF P!Deals
      <4>. QED  BY <4>4 DEF x
    <3>4. d.match # "MATCHED"
      BY <3>1
    <3>5. /\ e.req = "ACTIVE" => d.req = "ACTIVE"
          /\ e.req = "COMPLETED" <=> d.req = "COMPLETED"
      BY <3>3
    <3>. QED  BY <3>3, <3>4, <3>5 DEF FinishedTogether, InForceTogether
  <2>4. CASE op = "reject"
    <3>1. e = [d EXCEPT !.match = "REJECTED"]
      BY <1>2, <2>4 DEF P!Results, P!AcceptsOfMatch
    <3>2. Fresh(u, op, d) => d.match \in P!Decidable
      BY <2>4 DEF Fresh, P!Offered, P!View, P!PageNames, P!OfferedOnRequirement, P!OfferedInInbox,
            P!OfferedInMine, P!OfferedOnDemo, P!OfferedOnAgreement, P!OfferedWithRatings,
            P!OfferedOnCalendar, P!OfferedOnDisputes
    <3>. QED  BY <3>1, <3>2 DEF P!Deals, FinishedTogether, InForceTogether
  <2>5. CASE op = "withdraw"
    <3>1. e = [d EXCEPT !.match = "WITHDRAWN"] /\ d.match \in P!Decidable
      BY <1>2, <2>5 DEF P!Results, P!AcceptsOfMatch
    <3>. QED  BY <3>1 DEF P!Deals, FinishedTogether, InForceTogether
  <2>. QED  BY <1>2, <2>1, <2>2, <2>3, <2>4, <2>5 DEF P!AcceptsOfMatch
<1>3. CASE P!AcceptsOfDemo(u, op, d)
  <2>1. e = [d EXCEPT !.demo = "SCHEDULED"] \/ (op \in P!Outcomes /\ e = [d EXCEPT !.demo = op])
    BY <1>3 DEF P!Results, P!AcceptsOfDemo
  <2>. QED  BY <2>1 DEF P!Deals, FinishedTogether, InForceTogether
<1>4. CASE P!AcceptsOfAgreement(u, op, d)
  <2>1. CASE op = "generate"
    <3>1. e = [d EXCEPT !.agreement = IF d.agreement = "none"
                           THEN "PENDING_STUDENT_SIGN" ELSE d.agreement]
      BY <1>4, <2>1 DEF P!Results, P!AcceptsOfAgreement
    <3>. QED  BY <3>1 DEF P!Deals, FinishedTogether, InForceTogether
  <2>2. CASE op = "sign"
    <3>. DEFINE s == [d EXCEPT !.signed = @ \union {u}, !.agreement = "PENDING_TUTOR_SIGN"]
    <3>1. e = s \/ e = P!Active(s)
      BY <1>4, <2>2 DEF P!Results, P!Signed
    <3>2. d.agreement \in P!Pending /\ u \in {"student", "tutor"}
      BY <1>4, <2>2 DEF P!AcceptsOfAgreement
    <3>3. s \in P!Deals /\ s.req = d.req /\ (InForceTogether(d) => s.req # "ACTIVE")
      <4>1. s \in P!Deals /\ s.req = d.req
        BY <3>2 DEF P!Deals
      <4>. QED  BY <3>2, <4>1 DEF InForceTogether
    <3>4. FinishedTogether(d) => d.req # "COMPLETED"
      BY <3>2 DEF FinishedTogether
    <3>. HIDE DEF s
    <3>5. CASE e = s
      BY <3>3, <3>4, <3>5 DEF FinishedTogether, InForceTogether
    <3>6. CASE e = P!Active(s)
      <4>1. e \in P!Deals /\ e.req = "ACTIVE" /\ e.match = "MATCHED" /\ e.agreement = "ACTIVE"
        BY <3>3, <3>6, ActiveIs
      <4>. QED  BY <3>4, <4>1 DEF FinishedTogether, InForceTogether
    <3>. QED  BY <3>1, <3>5, <3>6
  <2>3. CASE op = "release"
    <3>1. e = [d EXCEPT !.slot = "RELEASED"]
      BY <1>4, <2>3 DEF P!Results, P!AcceptsOfAgreement
    <3>. QED  BY <3>1 DEF P!Deals, FinishedTogether, InForceTogether
  <2>. QED  BY <1>4, <2>1, <2>2, <2>3 DEF P!AcceptsOfAgreement
<1>5. CASE P!AcceptsOfAftercare(u, op, d)
  <2>1. CASE op = "rate"
    <3>1. e = [d EXCEPT !.rated = @ \union {u}] /\ u \in {"student", "tutor"}
      BY <1>5, <2>1 DEF P!Results, P!AcceptsOfAftercare
    <3>. QED  BY <3>1 DEF P!Deals, FinishedTogether, InForceTogether
  <2>2. CASE op \in {"dispute", "resolve"}
    <3>1. e = [d EXCEPT !.dispute = "OPEN"] \/ e = [d EXCEPT !.dispute = "RESOLVED"]
      BY <1>5, <2>2 DEF P!Results, P!AcceptsOfAftercare
    <3>. QED  BY <3>1 DEF P!Deals, FinishedTogether, InForceTogether
  <2>. QED  BY <1>5, <2>1, <2>2 DEF P!AcceptsOfAftercare
<1>. QED  BY <1>1, <1>2, <1>3, <1>4, <1>5 DEF P!Accepts

(* What a cache keeps of a page is at most one answer.                     *)
KeepsOne(c) ==
    /\ c = [p \in P!PageNames |-> c[p]]
    /\ \A p \in P!PageNames : c[p] = {} \/ \E v : c[p] = {v}

DealInv ==
    /\ deal \in P!Deals /\ user \in P!Users /\ tab.page \in P!PageNames
    /\ KeepsOne(cache)
    /\ stale \in BOOLEAN
    /\ FinishedTogether(deal)
    /\ ~stale => InForceTogether(deal)

LEMMA DealInvInit ==
    ASSUME P!Init
    PROVE  DealInv
<1>1. deal \in P!Deals /\ FinishedTogether(deal) /\ InForceTogether(deal)
  BY DEF P!Init, P!NewDeal, P!Deals, P!Requirements, P!Matches, P!Outcomes, P!Pending,
         FinishedTogether, InForceTogether
<1>2. KeepsOne(cache)
  BY DEF P!Init, KeepsOne
<1>. QED  BY <1>1, <1>2 DEF P!Init, DealInv, P!Users, P!PageNames

LEMMA LoadKeepsOne ==
    ASSUME NEW p \in P!PageNames, NEW c, KeepsOne(c), P!Load(p, c, deal) \/ P!Load(p, c, deal')
    PROVE  KeepsOne(cache') /\ tab'.page = p
<1>1. PICK view : tab' = [page |-> p, shown |-> view] /\ cache' = [c EXCEPT ![p] = {view}]
  BY DEF P!Load
<1>. QED  BY <1>1 DEF KeepsOne

LEMMA LandsOnPage ==
    ASSUME NEW op, NEW p \in P!PageNames
    PROVE  P!Lands(op, p) \in P!PageNames
BY DEF P!Lands, P!PageNames

(* A deal that was completed stays so.                                     *)
FinishedStaysSo ==
    deal.req = "COMPLETED" => deal'.req = "COMPLETED" /\ deal'.agreement = "COMPLETED"

LEMMA DealInvStep ==
    ASSUME DealInv, [P!Next]_dealVars
    PROVE  /\ DealInv'
           /\ deal.req = "COMPLETED" => deal'.req = "COMPLETED" /\ deal'.agreement = "COMPLETED"
<1>. DEFINE Stays == deal.req = "COMPLETED" =>
                        deal'.req = "COMPLETED" /\ deal'.agreement = "COMPLETED"
<1>1. ASSUME NEW p \in P!PageNames, P!Visit(p)  PROVE DealInv' /\ Stays
  <2>1. KeepsOne(cache') /\ tab'.page = p
    BY <1>1, LoadKeepsOne DEF DealInv, P!Visit
  <2>2. UNCHANGED <<deal, user, stale>>
    BY <1>1 DEF P!Visit
  <2>. QED  BY <2>1, <2>2 DEF DealInv, FinishedTogether
<1>2. ASSUME NEW p \in P!PageNames, P!Expire(p)  PROVE DealInv' /\ Stays
  <2>1. KeepsOne(cache')
    BY <1>2 DEF DealInv, P!Expire, KeepsOne
  <2>. QED  BY <1>2, <2>1 DEF DealInv, FinishedTogether, P!Expire
<1>3. ASSUME NEW u \in P!Users, NEW op, P!Accepts(u, op, deal), deal' \in P!Results(u, op, deal)
      PROVE  /\ deal' \in P!Deals /\ FinishedTogether(deal') /\ Stays
             /\ ~stale /\ Fresh(u, op, deal) => InForceTogether(deal')
  BY <1>3, ResultsAreSound DEF DealInv, FinishedTogether
<1>4. ASSUME NEW op \in P!Offered(user, tab.page, tab.shown), P!Click(op)
      PROVE  DealInv' /\ Stays
  <2>. DEFINE p == P!Lands(op, tab.page)
              left == [q \in P!PageNames |-> IF P!Invalidates(op, q) THEN {} ELSE cache[q]]
  <2>1. p \in P!PageNames
    BY LandsOnPage DEF DealInv
  <2>2. KeepsOne(left)
    BY DEF DealInv, KeepsOne
  <2>3. \/ tab' = [page |-> p, shown |-> P!View(user, p, deal')] /\ cache' = left
        \/ P!Load(p, left, deal')
    BY <1>4 DEF P!Click
  <2>. HIDE DEF p, left
  <2>4. KeepsOne(cache') /\ tab'.page = p
    BY <2>1, <2>2, <2>3, LoadKeepsOne
  <2>5. /\ user \in P!Users /\ P!Accepts(user, op, deal) /\ deal' \in P!Results(user, op, deal)
        /\ user' = user /\ stale' = (stale \/ tab.shown # P!View(user, tab.page, deal))
    BY <1>4 DEF DealInv, P!Click
  <2>6. ~stale' => ~stale /\ Fresh(user, op, deal)
    BY <1>4, <2>5 DEF Fresh, DealInv
  <2>7. stale' \in BOOLEAN
    BY <2>5 DEF DealInv
  <2>. QED  BY <1>3, <2>1, <2>4, <2>5, <2>6, <2>7 DEF DealInv
<1>5. ASSUME NEW u \in P!Users, NEW p \in P!PageNames,
             NEW op \in P!Offered(u, p, P!View(u, p, deal)), P!Elsewhere(u, op)
      PROVE  DealInv' /\ Stays
  <2>1. Fresh(u, op, deal)
    BY DEF Fresh
  <2>. QED  BY <1>3, <1>5, <2>1 DEF DealInv, P!Elsewhere
<1>6. CASE UNCHANGED dealVars
  BY <1>6 DEF dealVars, DealInv, FinishedTogether
<1>. QED  BY <1>1, <1>2, <1>4, <1>5, <1>6 DEF P!Next

LEMMA DealInvIsEnough ==
    ASSUME DealInv
    PROVE  P!TypeOK /\ P!OffersAreHonoured /\ P!DealCanEnd /\ P!RetryIsOffered
<1>. USE DEF P!Requirements, P!Matches, P!Outcomes, P!Pending, P!Accepting, P!Cancelable, P!Decidable
<1>1. P!TypeOK
  <2>1. ASSUME NEW p \in P!PageNames  PROVE P!Cardinality(cache[p]) <= 1
    <3>1. CASE cache[p] = {}
      BY <3>1, CountedAlike, FS_EmptySet
    <3>2. ASSUME NEW v, cache[p] = {v}  PROVE P!Cardinality(cache[p]) <= 1
      <4>1. Cardinality({v}) = 1
        BY FS_Singleton
      <4>. QED  BY <3>2, <4>1, CountedAlike
    <3>. QED  BY <3>1, <3>2 DEF DealInv, KeepsOne
  <2>. QED  BY <2>1 DEF DealInv, P!TypeOK
<1>2. P!OffersAreHonoured
  <2>. SUFFICES ASSUME ~stale, NEW u \in P!Users, NEW p \in P!PageNames,
                       NEW op \in P!Offered(u, p, P!View(u, p, deal)) \ P!Repeatable
                PROVE  P!Accepts(u, op, deal)
    BY DEF P!OffersAreHonoured
  <2>0. deal.req # "MATCHED" /\ InForceTogether(deal)
    BY DEF DealInv, P!Deals
  <2>1. CASE p = "requirement"
    <3>1. op \in P!OfferedOnRequirement(u, deal.req) \ P!Repeatable
      BY <2>1 DEF P!Offered, P!View
    <3>2. P!AcceptsOfRequirement(u, op, deal)
      BY <2>0, <3>1 DEF P!OfferedOnRequirement, P!Repeatable, P!AcceptsOfRequirement, InForceTogether
    <3>. QED  BY <3>2 DEF P!Accepts
  <2>2. CASE p = "inbox"
    <3>. DEFINE shows == IF deal.match \in {"REJECTED", "WITHDRAWN"} THEN "none" ELSE deal.match
    <3>1. u = "student" /\ op \in P!OfferedInInbox(shows) \ P!Repeatable
      BY <2>2 DEF P!Offered, P!View
    <3>2. P!AcceptsOfMatch(u, op, deal) \/ P!AcceptsOfAgreement(u, op, deal)
      BY <3>1 DEF P!OfferedInInbox, P!Repeatable, P!AcceptsOfMatch, P!AcceptsOfAgreement
    <3>. QED  BY <3>2 DEF P!Accepts
  <2>3. CASE p = "mine"
    BY <2>3 DEF P!Offered, P!View, P!OfferedInMine, P!Accepts, P!AcceptsOfMatch
  <2>4. CASE p = "demo"
    BY <2>4 DEF P!Offered, P!View, P!OfferedOnDemo, P!Accepts, P!AcceptsOfDemo, P!Users
  <2>5. CASE p = "agreement"
    <3>1. op \in P!OfferedOnAgreement(u, <<deal.agreement, deal.signed, deal.slot>>) \ P!Repeatable
      BY <2>5 DEF P!Offered, P!View
    <3>2. P!AcceptsOfAgreement(u, op, deal)
      BY <3>1 DEF P!OfferedOnAgreement, P!Repeatable, P!AcceptsOfAgreement
    <3>. QED  BY <3>2 DEF P!Accepts
  <2>6. CASE p = "ratings"
    <3>1. op \in P!OfferedWithRatings(u, <<deal.req, deal.rated \intersect {u}>>)
      BY <2>6 DEF P!Offered, P!View
    <3>2. /\ op = "rate" /\ u # "admin" /\ deal.req = "COMPLETED"
          /\ deal.rated \intersect {u} = {}
      BY <3>1 DEF P!OfferedWithRatings
    <3>3. P!AcceptsOfAftercare(u, op, deal)
      BY <3>2 DEF P!AcceptsOfAftercare, P!Users
    <3>. QED  BY <3>3 DEF P!Accepts
  <2>7. CASE p = "calendar"
    BY <2>7 DEF P!Offered, P!View, P!OfferedOnCalendar, P!Accepts, P!AcceptsOfAgreement
  <2>8. CASE p = "disputes"
    BY <2>8 DEF P!Offered, P!View, P!OfferedOnDisputes, P!Accepts, P!AcceptsOfAftercare
  <2>. QED  BY <2>1, <2>2, <2>3, <2>4, <2>5, <2>6, <2>7, <2>8 DEF P!PageNames
<1>3. P!DealCanEnd
  <2>. SUFFICES ASSUME ~stale, deal.req \notin {"COMPLETED", "CANCELLED"}
                PROVE  \E op \in P!Offered("student", "requirement", deal.req)
                              \intersect {"cancel", "complete"} :
                          P!Accepts("student", op, deal)
    BY DEF P!DealCanEnd
  <2>1. CASE deal.req = "ACTIVE"
    <3>1. "complete" \in P!Offered("student", "requirement", deal.req)
      BY <2>1 DEF P!Offered, P!OfferedOnRequirement
    <3>2. P!Accepts("student", "complete", deal)
      BY <2>1 DEF P!Accepts, P!AcceptsOfRequirement, DealInv, InForceTogether
    <3>. QED  BY <3>1, <3>2
  <2>2. CASE deal.req \in P!Cancelable
    <3>1. "cancel" \in P!Offered("student", "requirement", deal.req)
      BY <2>2 DEF P!Offered, P!OfferedOnRequirement
    <3>2. P!Accepts("student", "cancel", deal)
      BY <2>2 DEF P!Accepts, P!AcceptsOfRequirement
    <3>. QED  BY <3>1, <3>2
  <2>. QED  BY <2>1, <2>2 DEF DealInv, P!Deals
<1>4. P!RetryIsOffered
  BY DEF P!RetryIsOffered, P!Offered, P!View, P!OfferedOnAgreement, P!Accepts, P!AcceptsOfAgreement
<1>. QED  BY <1>1, <1>2, <1>3, <1>4

DealPart == part = "deal" => DealInv

LEMMA DealPartHolds ==
    /\ Init => DealPart
    /\ DealPart /\ [Next]_<<part, parts>> => DealPart' /\ [FinishedStaysSo]_dealVars
<1>1. Init => DealPart
  BY DealInvInit DEF Init, DealPart
<1>2. DealPart /\ [Next]_<<part, parts>> => DealPart' /\ [FinishedStaysSo]_dealVars
  <2>. SUFFICES ASSUME DealPart, [Next]_<<part, parts>>
                PROVE  DealPart' /\ [FinishedStaysSo]_dealVars
    OBVIOUS
  <2>1. CASE DealNext
    BY <2>1, DealInvStep DEF DealNext, DealPart, FinishedStaysSo
  <2>2. CASE UNCHANGED <<part, dealVars>>
    <3>1. part = "deal" => DealInv'
      BY <2>2, DealInvStep DEF DealPart
    <3>. QED  BY <2>2, <3>1 DEF DealPart
  <2>3. part' = part /\ (~DealNext => UNCHANGED dealVars)
    BY DEF Next, ChatNext, FormNext, DealNext, AfterNext, WizardNext, PayNext, parts
  <2>. QED  BY <2>1, <2>2, <2>3
<1>. QED  BY <1>1, <1>2

(* What a page offers of the present is accepted, and a deal can be ended, *)
(* whatever the tab kept and whoever acts elsewhere, as long as no page    *)
(* that was out of date was acted on.                                      *)
THEOREM OffersStayHonoured == Spec => []OffersAreHonoured
<1>1. DealPart => OffersAreHonoured
  BY DealInvIsEnough DEF DealPart, OffersAreHonoured
<1>2. DealPart /\ [Next]_<<part, parts>> => DealPart'
  BY DealPartHolds
<1>. QED  BY <1>1, <1>2, DealPartHolds, PTL DEF Spec

-----------------------------------------------------------------------------
(* The wizard of a profile. *)

RowSet == [section : [W!Sections -> W!Values], place : W!Places, settled : BOOLEAN]

WizardTyped ==
    /\ row \in RowSet
    /\ shown \in [W!Sections -> W!Values] /\ coords \in W!Places /\ known \in BOOLEAN
    /\ step \in W!Sections \union {W!Checkout, W!Dashboard} /\ loading \in BOOLEAN
    /\ saves \subseteq W!SaveSet
    /\ edited \subseteq W!Sections /\ edits \in 0 .. MaxEdits

(* A section that is stored as it is shown.                                *)
Passed(s) == row.section[s] = shown[s] \/ (s = W!Location /\ shown[s] = 0)

(* A section that is shown as it is stored, but for a suggestion.          *)
Faithful(s) == shown[s] = row.section[s] \/ (row.section[s] = 0 /\ shown[s] = W!Default(s))

(* A save that was sent from the page as it is now, from a step reached by *)
(* saving the ones before it.                                              *)
SaveIsOfPage(c) ==
    /\ ~c.orphan /\ c.value = shown[c.section]
    /\ \A s \in W!Sections : s < c.section => Passed(s)
    /\ c.section = W!Location => c.place \in {W!NoPlace, W!Device, c.value}
    /\ c.section # W!Basics => answer = {}

SavesAreOfPage ==
    /\ \A c \in saves : SaveIsOfPage(c)
    /\ step \in {W!Checkout, W!Dashboard} => saves = {}

PlacesMatch ==
    /\ coords \in {W!NoPlace, W!Device, shown[W!Location]}
    /\ row.place \in {W!NoPlace, W!Device, row.section[W!Location]}

(* What the client keeps has the sections that are stored, and past the    *)
(* first step it keeps nothing.                                            *)
KeptIsStored ==
    /\ answer = {} \/ \E r \in RowSet : answer = {r} /\ r.section = row.section
    /\ step \in W!Sections \ {W!Basics} => answer = {}

WizardInv ==
    /\ WizardTyped /\ SavesAreOfPage /\ PlacesMatch /\ KeptIsStored
    /\ step # W!Dashboard =>
          /\ \A s \in W!Sections : s < step => Passed(s)
          /\ \A s \in W!Sections \ edited : Faithful(s)

LEMMA SectionsAre ==
    /\ W!Sections = {0, 1, 2, 3, 4}
    /\ W!Basics = 0 /\ W!Subjects = 1 /\ W!Availability = 2 /\ W!Location = 3 /\ W!Fee = 4
    /\ W!Checkout = 5 /\ W!Dashboard = 6
    /\ W!NoPlace = 0 /\ W!Device \in Nat \ W!Values /\ {0, 1, 2} \subseteq W!Values
    /\ W!Values \subseteq Nat /\ W!Places = W!Values \union {W!Device}
BY PartsAssumption DEF W!Sections, W!Basics, W!Subjects, W!Availability, W!Location, W!Fee, W!Checkout,
   W!Dashboard, W!NoPlace, W!Device, W!Values, W!Places, W!MaxValueAssumption

LEMMA WizardInvInit ==
    ASSUME W!Init
    PROVE  WizardInv
<1>1. PICK v \in {0, 2} : row = [section |-> [s \in W!Sections |-> v], place |-> v, settled |-> FALSE]
  BY DEF W!Init
<1>2. row \in RowSet
  BY <1>1, SectionsAre DEF RowSet
<1>3. edits \in 0 .. MaxEdits
  BY PartsAssumption DEF W!Init, W!MaxEditsAssumption
<1>4. WizardTyped
  BY <1>2, <1>3, SectionsAre DEF W!Init, WizardTyped
<1>5. PlacesMatch
  BY <1>1, SectionsAre DEF W!Init, PlacesMatch
<1>. QED  BY <1>4, <1>5, SectionsAre DEF W!Init, WizardInv, SavesAreOfPage, KeptIsStored

LEMMA AnswerIs ==
    ASSUME WizardInv
    PROVE  W!Answer \in RowSet /\ W!Answer.section = row.section
<1>1. CASE answer = {}
  BY <1>1 DEF W!Answer, WizardInv, WizardTyped
<1>2. ASSUME NEW r \in RowSet, answer = {r}, r.section = row.section
      PROVE  W!Answer \in RowSet /\ W!Answer.section = row.section
  <2>1. W!Answer = r
    BY <1>2 DEF W!Answer
  <2>. QED  BY <1>2, <2>1
<1>. QED  BY <1>1, <1>2 DEF WizardInv, KeptIsStored

(* What a save stores is what the page shows.                              *)
LEMMA StoredIs ==
    ASSUME WizardInv, NEW c \in saves, ~W!Asks(c), W!Accepts(c)
    PROVE  LET r == W!Stored(c)
           IN  /\ r \in RowSet
               /\ \A s \in W!Sections \ {c.section} : r.section[s] = row.section[s]
               /\ \/ r.section[c.section] = shown[c.section]
                  \/ /\ c.section = W!Location /\ shown[c.section] = 0
                     /\ r.section[c.section] = row.section[c.section]
               /\ r.place \in {W!NoPlace, W!Device, r.section[W!Location]}
<1>1. /\ row \in RowSet /\ PlacesMatch /\ SaveIsOfPage(c)
      /\ c \in W!SaveSet /\ c.section \in W!Sections /\ c.value \in W!Values /\ c.place \in W!Places
  BY DEF WizardInv, WizardTyped, SavesAreOfPage, W!SaveSet
<1>2. CASE c.section = W!Location
  <2>. DEFINE v == IF c.value = 0 THEN row.section[W!Location] ELSE c.value
  <2>1. W!Stored(c) = [row EXCEPT !.section[W!Location] = v, !.place = c.place]
    BY <1>2 DEF W!Stored, W!StoredLocation
  <2>2. v \in W!Values /\ row.section \in [W!Sections -> W!Values] /\ W!Location \in W!Sections
    BY <1>1, SectionsAre DEF RowSet
  <2>. DEFINE new == [row.section EXCEPT ![W!Location] = v]
  <2>3. new \in [W!Sections -> W!Values] /\ new[W!Location] = v
        /\ \A s \in W!Sections \ {W!Location} : new[s] = row.section[s]
    <3>. HIDE DEF v
    <3>. QED  BY <2>2
  <2>4. W!Stored(c) = [section |-> new, place |-> c.place, settled |-> row.settled]
    BY <1>1, <2>1 DEF RowSet
  <2>5. c.place # W!NoPlace
    BY <1>2, SectionsAre DEF W!Accepts, W!AcceptsSection, W!AcceptsLocation, W!AcceptsFee
  <2>6. c.place \in {W!NoPlace, W!Device, v}
    BY <1>1, <1>2, <2>5, SectionsAre DEF SaveIsOfPage
  <2>. HIDE DEF new
  <2>7. W!Stored(c) \in RowSet
    BY <1>1, <2>3, <2>4 DEF RowSet
  <2>. QED  BY <1>1, <1>2, <2>3, <2>4, <2>6, <2>7 DEF SaveIsOfPage
<1>3. CASE c.section # W!Location
  <2>. DEFINE new == [row.section EXCEPT ![c.section] = c.value]
  <2>1. new \in [W!Sections -> W!Values] /\ new[c.section] = c.value
        /\ \A s \in W!Sections \ {c.section} : new[s] = row.section[s]
    BY <1>1 DEF RowSet
  <2>2. W!Stored(c) = [section |-> new, place |-> row.place, settled |-> row.settled]
    BY <1>1, <1>3 DEF RowSet, W!Stored
  <2>. HIDE DEF new
  <2>3. W!Stored(c) \in RowSet
    BY <1>1, <2>1, <2>2 DEF RowSet
  <2>4. new[W!Location] = row.section[W!Location]
    BY <1>3, <2>1, SectionsAre
  <2>. QED  BY <1>1, <2>1, <2>2, <2>3, <2>4 DEF SaveIsOfPage, PlacesMatch
<1>. QED  BY <1>2, <1>3

(* Nothing that was not edited is stored otherwise than it was.            *)
StoresOnlyEdits ==
    \A s \in W!Sections :
        row'.section[s] # row.section[s] =>
           s \in edited \/ (row.section[s] = 0 /\ row'.section[s] = W!Default(s))

(* A section of the page is changed, with nothing under way.               *)
LEMMA ChangeKeeps ==
    ASSUME WizardInv, NEW v \in W!Values, W!Change(v), step \in W!Sections, ~crossed'
    PROVE  WizardInv' /\ StoresOnlyEdits
<1>1. /\ saves = {} /\ saves' = {} /\ UNCHANGED <<row, known, step, loading, answer>>
      /\ shown' = [shown EXCEPT ![step] = v] /\ edited' = edited \union {step}
      /\ coords' = (IF step = W!Location THEN W!NoPlace ELSE coords)
      /\ edits < MaxEdits /\ edits' = edits + 1
  BY DEF W!Change, W!Reset
<1>. MaxEdits \in Nat /\ edits \in 0 .. MaxEdits
  BY PartsAssumption DEF W!MaxEditsAssumption, WizardInv, WizardTyped
<1>2. /\ shown' \in [W!Sections -> W!Values]
      /\ \A s \in W!Sections \ {step} : shown'[s] = shown[s]
  BY <1>1 DEF WizardInv, WizardTyped
<1>3. WizardTyped'
  BY <1>1, <1>2, SectionsAre DEF WizardInv, WizardTyped
<1>4. PlacesMatch'
  BY <1>1, <1>2, SectionsAre DEF WizardInv, PlacesMatch
<1>5. KeptIsStored' /\ SavesAreOfPage'
  BY <1>1 DEF WizardInv, KeptIsStored, SavesAreOfPage
<1>6. step # W!Dashboard
  BY SectionsAre
<1>7. \A s \in W!Sections : s < step => Passed(s)'
  BY <1>1, <1>2, <1>6, SectionsAre DEF WizardInv, Passed
<1>8. \A s \in W!Sections \ edited' : Faithful(s)'
  BY <1>1, <1>2, <1>6 DEF WizardInv, Faithful
<1>. QED  BY <1>1, <1>3, <1>4, <1>5, <1>7, <1>8 DEF WizardInv, StoresOnlyEdits

(* A section is sent.                                                      *)
LEMMA SendKeeps ==
    ASSUME WizardInv, step \in W!Sections, NEW place,
           place = W!NoPlace \/ (place = coords /\ step = W!Location), W!Send(place)
    PROVE  WizardInv' /\ StoresOnlyEdits
<1>. DEFINE new == [section |-> step, value |-> shown[step], place |-> place, orphan |-> FALSE]
<1>1. /\ saves' = saves \union {new} /\ loading' = TRUE
      /\ UNCHANGED <<row, shown, coords, known, step, answer, edits, edited, crossed>>
  BY DEF W!Send
<1>2. step # W!Dashboard /\ step # W!Checkout
  BY SectionsAre
<1>3. new \in W!SaveSet
  BY SectionsAre DEF WizardInv, WizardTyped, W!SaveSet
<1>4. SaveIsOfPage(new)
  BY <1>2, SectionsAre DEF WizardInv, SaveIsOfPage, PlacesMatch, KeptIsStored
<1>. HIDE DEF new
<1>5. ASSUME NEW c \in saves'  PROVE SaveIsOfPage(c)'
  <2>1. SaveIsOfPage(c)
    BY <1>1, <1>4, <1>5 DEF WizardInv, SavesAreOfPage
  <2>. QED  BY <1>1, <2>1 DEF SaveIsOfPage, Passed
<1>6. SavesAreOfPage'
  BY <1>1, <1>2, <1>5 DEF SavesAreOfPage
<1>7. WizardTyped'
  BY <1>1, <1>3 DEF WizardInv, WizardTyped
<1>. QED
  BY <1>1, <1>6, <1>7 DEF WizardInv, PlacesMatch, KeptIsStored, Passed, Faithful, StoresOnlyEdits

(* The page is left with nothing under way.                                *)
LEMMA LeaveKeeps ==
    ASSUME WizardInv, W!Leave, ~crossed'
    PROVE  WizardInv' /\ StoresOnlyEdits
<1>1. /\ saves = {} /\ saves' = {} /\ step' = W!Dashboard /\ answer' = {W!Answer}
      /\ UNCHANGED <<row, shown, coords, known, loading, edits, edited>>
  BY DEF W!Leave, W!Orphaned
<1>2. KeptIsStored'
  BY <1>1, AnswerIs, SectionsAre DEF KeptIsStored
<1>. QED
  BY <1>1, <1>2, SectionsAre DEF WizardInv, WizardTyped, SavesAreOfPage, PlacesMatch, StoresOnlyEdits

LEMMA OpenKeeps ==
    ASSUME WizardInv, W!Open
    PROVE  WizardInv' /\ StoresOnlyEdits
<1>1. /\ saves = {} /\ saves' = {} /\ step' = W!Basics /\ answer' = {W!Answer}
      /\ shown' = W!Loaded(W!Answer) /\ coords' = W!NoPlace /\ known' = W!Answer.settled
      /\ loading' = FALSE /\ edited' = {} /\ UNCHANGED <<row, edits, crossed>>
  BY DEF W!Open, WizardInv, SavesAreOfPage
<1>2. W!Answer \in RowSet /\ W!Answer.section = row.section
  BY AnswerIs
<1>3. \A s \in W!Sections : shown'[s] = IF row.section[s] = 0 THEN W!Default(s) ELSE row.section[s]
  BY <1>1, <1>2 DEF W!Loaded
<1>4. shown' \in [W!Sections -> W!Values]
  <2>1. \A s \in W!Sections : W!Default(s) \in W!Values /\ row.section[s] \in W!Values
    BY SectionsAre DEF W!Default, WizardInv, WizardTyped, RowSet
  <2>. QED  BY <1>1, <1>2, <2>1 DEF W!Loaded
<1>5. W!Answer.settled \in BOOLEAN
  BY <1>2 DEF RowSet
<1>6. WizardTyped'
  BY <1>1, <1>4, <1>5, SectionsAre DEF WizardInv, WizardTyped
<1>7. KeptIsStored'
  BY <1>1, <1>2, SectionsAre DEF KeptIsStored
<1>8. PlacesMatch' /\ SavesAreOfPage'
  BY <1>1, SectionsAre DEF WizardInv, PlacesMatch, SavesAreOfPage
<1>9. \A s \in W!Sections : Faithful(s)'
  BY <1>1, <1>3 DEF Faithful
<1>10. \A s \in W!Sections : ~(s < W!Basics)
  BY SectionsAre
<1>. QED  BY <1>1, <1>6, <1>7, <1>8, <1>9, <1>10 DEF WizardInv, StoresOnlyEdits

LEMMA ResolveKeeps ==
    ASSUME WizardInv, NEW c \in saves, W!Resolve(c)
    PROVE  WizardInv' /\ StoresOnlyEdits
<1>. DEFINE new == [c EXCEPT !.place = c.value]
<1>1. /\ SaveIsOfPage(c) /\ c \in W!SaveSet /\ c.section = W!Location
      /\ step # W!Dashboard /\ step # W!Checkout
  BY DEF WizardInv, WizardTyped, SavesAreOfPage, W!Resolve, W!Asks
<1>2. /\ new \in W!SaveSet /\ new.section = c.section /\ new.value = c.value /\ new.place = c.value
      /\ new.orphan = c.orphan
  BY <1>1, SectionsAre DEF W!SaveSet
<1>3. /\ saves' = (saves \ {c}) \union {new} /\ coords' = c.value
      /\ UNCHANGED <<row, shown, known, step, loading, answer, edits, edited, crossed>>
  BY <1>1 DEF W!Resolve, SaveIsOfPage
<1>4. SaveIsOfPage(new)
  BY <1>1, <1>2 DEF SaveIsOfPage
<1>. HIDE DEF new
<1>5. ASSUME NEW d \in saves'  PROVE SaveIsOfPage(d)'
  <2>1. SaveIsOfPage(d)
    BY <1>3, <1>4, <1>5 DEF WizardInv, SavesAreOfPage
  <2>. QED  BY <1>3, <2>1 DEF SaveIsOfPage, Passed
<1>6. SavesAreOfPage'
  BY <1>1, <1>3, <1>5 DEF SavesAreOfPage
<1>7. c.value \in W!Places /\ c.value = shown[W!Location]
  BY <1>1, SectionsAre DEF W!SaveSet, SaveIsOfPage
<1>8. WizardTyped'
  BY <1>2, <1>3, <1>7 DEF WizardInv, WizardTyped
<1>9. PlacesMatch'
  BY <1>3, <1>7 DEF WizardInv, PlacesMatch
<1>. QED
  BY <1>3, <1>6, <1>8, <1>9 DEF WizardInv, KeptIsStored, Passed, Faithful, StoresOnlyEdits

(* A save is carried out.                                                  *)
LEMMA SavedKeeps ==
    ASSUME WizardInv, NEW c \in saves, W!Saved(c), ~crossed'
    PROVE  WizardInv' /\ StoresOnlyEdits
<1>. DEFINE r == W!Stored(c)
<1>1. /\ SaveIsOfPage(c) /\ c \in W!SaveSet /\ c.section \in W!Sections
      /\ row \in RowSet /\ row.settled \in BOOLEAN
      /\ step # W!Dashboard /\ step # W!Checkout
  BY DEF WizardInv, WizardTyped, SavesAreOfPage, W!SaveSet, RowSet
<1>2. /\ r \in RowSet
      /\ \A s \in W!Sections \ {c.section} : r.section[s] = row.section[s]
      /\ \/ r.section[c.section] = shown[c.section]
         \/ /\ c.section = W!Location /\ shown[c.section] = 0
            /\ r.section[c.section] = row.section[c.section]
      /\ r.place \in {W!NoPlace, W!Device, r.section[W!Location]}
  BY StoredIs DEF W!Saved
<1>3. /\ row' = r /\ answer' = W!KeptAfter(c) /\ known' = row.settled /\ loading' = FALSE
      /\ step' = W!StepAfter(c)
      /\ saves' = IF c.section = W!Fee THEN W!Orphaned(saves \ {c}) ELSE saves \ {c}
      /\ crossed' = (crossed \/ (c.section = W!Fee /\ saves # {c}))
      /\ UNCHANGED <<shown, coords, edits, edited>>
  BY <1>1 DEF W!Saved, SaveIsOfPage
<1>. HIDE DEF r
<1>4. saves' \subseteq saves /\ (c.section = W!Fee => saves' = {})
  <2>1. CASE c.section = W!Fee
    <3>1. saves \ {c} = {}
      BY <1>3, <2>1
    <3>2. W!Orphaned({}) = {}
      BY DEF W!Orphaned
    <3>. QED  BY <1>3, <2>1, <3>1, <3>2
  <2>2. CASE c.section # W!Fee
    BY <1>3, <2>2
  <2>. QED  BY <2>1, <2>2
<1>5. /\ c.section # W!Fee => step' = c.section + 1
      /\ c.section = W!Fee => step' \in {W!Checkout, W!Dashboard}
  BY <1>3 DEF W!StepAfter
<1>6. WizardTyped'
  <2>1. step' \in W!Sections \union {W!Checkout, W!Dashboard}
    BY <1>1, <1>5, SectionsAre
  <2>. QED  BY <1>1, <1>2, <1>3, <1>4, <2>1 DEF WizardInv, WizardTyped
<1>7. \A s \in W!Sections : Passed(s) => Passed(s)'
  BY <1>1, <1>2, <1>3 DEF Passed
<1>8. Passed(c.section)'
  BY <1>2, <1>3 DEF Passed
<1>9. /\ c.section = W!Basics => answer' = {}
      /\ c.section = W!Fee => answer' = {r}
      /\ c.section \notin {W!Basics, W!Fee} => answer' = {}
  BY <1>1, <1>3, SectionsAre DEF W!KeptAfter, SaveIsOfPage, r
<1>10. KeptIsStored'
  BY <1>1, <1>2, <1>3, <1>5, <1>9, SectionsAre DEF KeptIsStored
<1>11. ASSUME NEW d \in saves'  PROVE SaveIsOfPage(d)'
  <2>1. SaveIsOfPage(d) /\ answer' = {}
    BY <1>1, <1>4, <1>9, <1>11, SectionsAre DEF WizardInv, SavesAreOfPage
  <2>. QED  BY <1>3, <1>7, <2>1 DEF SaveIsOfPage
<1>12. SavesAreOfPage'
  BY <1>1, <1>4, <1>5, <1>11, SectionsAre DEF SavesAreOfPage
<1>13. PlacesMatch'
  BY <1>2, <1>3 DEF WizardInv, PlacesMatch
<1>14. \A s \in W!Sections \ edited : Faithful(s)
  BY <1>1 DEF WizardInv
<1>15. \A s \in W!Sections \ edited' : Faithful(s)'
  BY <1>2, <1>3, <1>14 DEF Faithful
<1>16. StoresOnlyEdits
  BY <1>2, <1>3, <1>14 DEF StoresOnlyEdits, Faithful
<1>17. \A s \in W!Sections : s < step' => Passed(s)' \/ step' = W!Dashboard
  <2>1. \A s \in W!Sections : s < c.section => Passed(s)
    BY <1>1 DEF SaveIsOfPage
  <2>2. \A s \in W!Sections : s < step' /\ step' # W!Dashboard => s < c.section \/ s = c.section
    BY <1>1, <1>5, SectionsAre
  <2>. QED  BY <1>7, <1>8, <2>1, <2>2
<1>. QED  BY <1>6, <1>10, <1>12, <1>13, <1>15, <1>16, <1>17 DEF WizardInv

LEMMA WizardInvStep ==
    ASSUME WizardInv, [W!Next]_wizardVars, ~crossed'
    PROVE  WizardInv' /\ StoresOnlyEdits
<1>. DEFINE Kept == WizardInv' /\ StoresOnlyEdits
<1>1. CASE W!Open
  BY <1>1, OpenKeeps
<1>2. CASE W!CaptureMyLocation
  <2>1. /\ saves = {} /\ saves' = {} /\ coords' = W!Device /\ edits < MaxEdits /\ edits' = edits + 1
        /\ edited' = edited \union {W!Location}
        /\ UNCHANGED <<row, shown, known, step, loading, answer>>
    BY <1>2 DEF W!CaptureMyLocation
  <2>2. edits' \in 0 .. MaxEdits
    BY <2>1, PartsAssumption DEF W!MaxEditsAssumption, WizardInv, WizardTyped
  <2>3. WizardTyped'
    BY <2>1, <2>2, SectionsAre DEF WizardInv, WizardTyped
  <2>. QED
    BY <2>1, <2>3 DEF WizardInv, SavesAreOfPage, PlacesMatch, KeptIsStored, Passed, Faithful,
                      StoresOnlyEdits
<1>3. CASE W!Previous
  <2>1. /\ step \in W!Sections \ {W!Basics} /\ step' = step - 1
        /\ UNCHANGED <<row, shown, coords, known, loading, saves, answer, edits, edited, crossed>>
    BY <1>3 DEF W!Previous
  <2>2. /\ step' \in W!Sections /\ step' < step
        /\ step # W!Dashboard /\ step # W!Checkout /\ step' # W!Dashboard /\ step' # W!Checkout
    BY <2>1, SectionsAre
  <2>3. \A s \in W!Sections : s < step' => s < step
    BY <2>1, <2>2, SectionsAre
  <2>4. \A s \in W!Sections : s < step' => Passed(s)'
    BY <2>1, <2>2, <2>3 DEF WizardInv, Passed
  <2>5. \A s \in W!Sections \ edited' : Faithful(s)'
    BY <2>1, <2>2 DEF WizardInv, Faithful
  <2>6. \A c \in saves' : SaveIsOfPage(c)'
    BY <2>1 DEF WizardInv, SavesAreOfPage, SaveIsOfPage, Passed
  <2>. QED
    BY <2>1, <2>2, <2>4, <2>5, <2>6 DEF WizardInv, WizardTyped, SavesAreOfPage, PlacesMatch,
                                        KeptIsStored, StoresOnlyEdits
<1>4. CASE W!UploadPhoto
  <2>1. /\ known' = row.settled /\ loading' = FALSE
        /\ UNCHANGED <<row, shown, coords, step, saves, answer, edits, edited, crossed>>
    BY <1>4 DEF W!UploadPhoto
  <2>2. WizardTyped'
    BY <2>1 DEF WizardInv, WizardTyped, RowSet
  <2>. QED
    BY <2>1, <2>2 DEF WizardInv, SavesAreOfPage, SaveIsOfPage, PlacesMatch, KeptIsStored, Passed,
                      Faithful, StoresOnlyEdits
<1>5. CASE W!Leave
  BY <1>5, LeaveKeeps
<1>6. CASE \/ W!SaveBasics \/ W!SaveSubjects \/ W!SaveAvailability \/ W!SaveLocation
           \/ (step = W!Fee /\ W!Send(W!NoPlace))
  <2>1. \/ step \in W!Sections /\ W!Send(W!NoPlace)
        \/ step = W!Location /\ W!Send(coords)
    BY <1>6, SectionsAre DEF W!SaveBasics, W!SaveSubjects, W!SaveAvailability, W!SaveLocation
  <2>. QED  BY <2>1, SendKeeps, SectionsAre
<1>7. CASE W!SaveFee
  BY <1>5, <1>6, <1>7 DEF W!SaveFee
<1>8. CASE W!Settle
  <2>1. /\ row' = [row EXCEPT !.settled = TRUE]
        /\ UNCHANGED <<shown, coords, known, step, loading, saves, answer, edits, edited, crossed>>
    BY <1>8 DEF W!Settle, W!pageVars
  <2>2. row' \in RowSet /\ row'.section = row.section /\ row'.place = row.place
    BY <2>1 DEF WizardInv, WizardTyped, RowSet
  <2>3. WizardTyped'
    BY <2>1, <2>2 DEF WizardInv, WizardTyped
  <2>. QED
    BY <2>1, <2>2, <2>3 DEF WizardInv, SavesAreOfPage, SaveIsOfPage, PlacesMatch, KeptIsStored,
                            Passed, Faithful, StoresOnlyEdits
<1>9. CASE W!Expire
  <2>1. /\ answer' = {}
        /\ UNCHANGED <<row, shown, coords, known, step, loading, saves, edits, edited, crossed>>
    BY <1>9 DEF W!Expire, W!pageVars
  <2>. QED
    BY <2>1 DEF WizardInv, WizardTyped, SavesAreOfPage, SaveIsOfPage, PlacesMatch, KeptIsStored,
                Passed, Faithful, StoresOnlyEdits
<1>10. ASSUME NEW v \in W!Values,
              \/ W!EditBasics(v) \/ W!EditSubjects(v) \/ W!EditAvailability(v)
              \/ W!EditPincode(v) \/ W!EditFee(v)
       PROVE  Kept
  <2>1. step \in W!Sections /\ W!Change(v)
    BY <1>10, SectionsAre DEF W!EditBasics, W!EditSubjects, W!EditAvailability, W!EditPincode, W!EditFee
  <2>. QED  BY <2>1, ChangeKeeps
<1>11. ASSUME NEW c \in saves, W!Fail(c)  PROVE Kept
  <2>1. /\ saves' \subseteq saves
        /\ UNCHANGED <<row, shown, coords, known, step, answer, edits, edited>>
        /\ loading' \in {loading, FALSE}
    BY <1>11 DEF W!Fail
  <2>. QED
    BY <2>1 DEF WizardInv, WizardTyped, SavesAreOfPage, SaveIsOfPage, PlacesMatch, KeptIsStored,
                Passed, Faithful, StoresOnlyEdits
<1>12. CASE UNCHANGED wizardVars
  BY <1>12 DEF wizardVars, WizardInv, WizardTyped, SavesAreOfPage, SaveIsOfPage, PlacesMatch,
               KeptIsStored, Passed, Faithful, StoresOnlyEdits
<1>. QED
  BY <1>1, <1>2, <1>3, <1>4, <1>5, <1>6, <1>7, <1>8, <1>9, <1>10, <1>11, <1>12, ResolveKeeps,
     SavedKeeps DEF W!Next

LEMMA WizardInvIsEnough ==
    ASSUME WizardInv, crossed = FALSE
    PROVE  W!TypeOK /\ W!PassedIsSaved /\ W!PlaceIsOfPincode
<1>1. W!TypeOK
  <2>1. W!Cardinality(answer) <= 1
    <3>1. CASE answer = {}
      BY <3>1, CountedAlike, FS_EmptySet
    <3>2. ASSUME NEW r, answer = {r}  PROVE W!Cardinality(answer) <= 1
      <4>1. Cardinality({r}) = 1
        BY FS_Singleton
      <4>. QED  BY <3>2, <4>1, CountedAlike
    <3>. QED  BY <3>1, <3>2 DEF WizardInv, KeptIsStored
  <2>. QED  BY <2>1 DEF WizardInv, WizardTyped, RowSet, W!TypeOK
<1>2. W!PassedIsSaved
  BY DEF WizardInv, Passed, W!PassedIsSaved
<1>3. W!PlaceIsOfPincode
  BY DEF WizardInv, PlacesMatch, W!PlaceIsOfPincode
<1>. QED  BY <1>1, <1>2, <1>3

LEMMA CrossedTyped ==
    ASSUME crossed \in BOOLEAN, [W!Next]_wizardVars
    PROVE  crossed' \in BOOLEAN
<1>. USE DEF W!Open, W!CaptureMyLocation, W!Previous, W!UploadPhoto, W!Leave, W!Send, W!Settle,
             W!Expire, W!Change, W!Resolve, W!Fail
<1>1. ASSUME NEW c \in saves, W!Saved(c)  PROVE crossed' \in BOOLEAN
  BY <1>1 DEF W!Saved
<1>2. CASE W!SaveBasics \/ W!SaveSubjects \/ W!SaveAvailability \/ W!SaveLocation \/ W!SaveFee
  BY <1>2 DEF W!SaveBasics, W!SaveSubjects, W!SaveAvailability, W!SaveLocation, W!SaveFee
<1>3. ASSUME NEW v, W!Change(v)  PROVE crossed' \in BOOLEAN
  BY <1>3
<1>4. CASE UNCHANGED wizardVars
  BY <1>4 DEF wizardVars
<1>. QED
  BY <1>1, <1>2, <1>3, <1>4 DEF W!Next, W!EditBasics, W!EditSubjects, W!EditAvailability,
     W!EditPincode, W!EditFee

WizardPart == part = "wizard" => WizardInv /\ crossed = FALSE

LEMMA WizardPartHolds ==
    /\ Init => WizardPart
    /\ WizardPart /\ [Next]_<<part, parts>> => WizardPart'
<1>1. Init => WizardPart
  BY WizardInvInit DEF Init, WizardPart, W!Init
<1>2. WizardPart /\ [Next]_<<part, parts>> => WizardPart'
  <2>. SUFFICES ASSUME WizardPart, [Next]_<<part, parts>>, part' = "wizard"
                PROVE  WizardInv' /\ crossed' = FALSE
    BY DEF WizardPart
  <2>1. CASE WizardNext
    BY <2>1, WizardInvStep, CrossedTyped DEF WizardNext, WizardPart
  <2>2. CASE UNCHANGED <<part, parts>>
    <3>1. part = "wizard" /\ UNCHANGED wizardVars /\ crossed' = crossed
      BY <2>2 DEF parts, wizardVars
    <3>. QED  BY <3>1, WizardInvStep DEF WizardPart
  <2>. QED  BY <2>1, <2>2 DEF Next, ChatNext, FormNext, PayNext, AfterNext, DealNext
<1>. QED  BY <1>1, <1>2

(* A section that the wizard has passed is stored as shown, and the place  *)
(* goes with the pincode, however saves, uploads, answers that were kept   *)
(* and steps back interleave, as long as nothing crosses a save.           *)
THEOREM ProfileStaysAsShown == Spec => []ProfileIsAsShown
<1>1. WizardPart => ProfileIsAsShown
  BY WizardInvIsEnough DEF WizardPart, ProfileIsAsShown
<1>. QED  BY <1>1, WizardPartHolds, PTL DEF Spec

-----------------------------------------------------------------------------
(* The form of a requirement. *)

SaveSteps == {"idle", "sent", "saved", "read", "updated", "failed"}

FormTyped ==
    /\ rows = <<>> \/ rows \in [{1} -> D!Forms]
    /\ form \in D!Forms /\ reqId \in {0, 1}
    /\ timer \in [on : BOOLEAN, form : D!Forms, id : {0, 1}]
    /\ save \in [Saves -> [step : SaveSteps, id : {0, 1}, form : D!Forms, base : D!Forms,
                           leave : BOOLEAN]]
    /\ load \in [step : {"none", "asked", "read"}, id : {0, 1}, form : D!Forms]
    /\ locating \in [on : BOOLEAN, form : D!Forms]
    /\ saving \in BOOLEAN /\ error \in BOOLEAN /\ mounted \in BOOLEAN
    /\ rows = <<>> =>
          reqId = 0 /\ timer.id = 0 /\ load.id = 0 /\ \A s \in Saves : save[s].id = 0

(* One thing is under way at a time, and no timer runs beside it.          *)
OneAtATime ==
    /\ \A s, t \in Saves : save[s].step # "idle" /\ save[t].step # "idle" => s = t
    /\ \A s \in Saves : save[s].step # "idle" => load = D!NoLoad
    /\ \A s \in Saves : save[s].step # "idle" => ~timer.on
    /\ load # D!NoLoad => ~timer.on

(* A row has what a form shows, but for a pincode or a note that was       *)
(* deleted.                                                                *)
Has(r, f) ==
    /\ r.text = f.text
    /\ f.pin # D!NoPin => r.pin = f.pin
    /\ f.note # D!NoNote => r.note = f.note

(* What a timer or a save will store is what the page shows, and the page, *)
(* or the answer that is on its way to it, knows of the draft there is.    *)
SaveKnows(s) ==
    /\ save[s].step \in {"sent", "read"} => save[s].form = form /\ save[s].id = reqId
    /\ save[s].step = "read" => reqId = 1
    /\ save[s].step = "saved" => reqId = 0 /\ save[s].id = 1
    /\ save[s].step \in {"updated", "saved"} => rows # <<>> /\ Has(rows[1], form)
    /\ save[s].leave => reqId # 0

PageKnows ==
    /\ ~mounted => reqId # 0
    /\ timer.on => timer.form = form /\ timer.id = reqId
    /\ \A s \in Saves : SaveKnows(s)
    /\ rows # <<>> => reqId = 1 \/ \E s \in Saves : save[s].step = "saved"
    /\ load # D!NoLoad => load.id = 1 /\ reqId = 1
    /\ load.step = "read" => load.form = rows[1]

Idle == \A s \in Saves : save[s].step = "idle"

(* With nothing to be sent or under way, the draft has what is shown.      *)
SavedWhenIdle ==
    Idle /\ ~timer.on /\ ~error /\ reqId # 0 /\ form # D!Blank => Has(rows[1], form)

FormInv == FormTyped /\ OneAtATime /\ PageKnows /\ SavedWhenIdle

LEMMA BlankTyped ==
    /\ D!Blank \in D!Forms
    /\ D!NoSave \in [step : SaveSteps, id : {0, 1}, form : D!Forms, base : D!Forms, leave : BOOLEAN]
    /\ D!NoLoad \in [step : {"none", "asked", "read"}, id : {0, 1}, form : D!Forms]
    /\ D!NoTimer \in [on : BOOLEAN, form : D!Forms, id : {0, 1}]
    /\ D!Nowhere \in [on : BOOLEAN, form : D!Forms]
<1>1. D!Blank \in D!Forms
  BY PartsAssumption DEF D!Blank, D!Forms, D!Places, D!MaxTextAssumption
<1>. QED  BY <1>1 DEF D!NoSave, D!NoLoad, D!NoTimer, D!Nowhere, SaveSteps

LEMMA FormInvInit ==
    ASSUME D!Init
    PROVE  FormInv
<1>1. /\ form = D!Blank /\ timer = D!NoTimer /\ save = [s \in Saves |-> D!NoSave]
      /\ saving = FALSE /\ error = FALSE /\ locating = D!Nowhere /\ mounted = TRUE
  BY DEF D!Init
<1>2. D!NoTimer.on = FALSE /\ D!NoTimer.id = 0 /\ D!NoSave.step = "idle" /\ D!NoSave.id = 0
      /\ D!NoSave.leave = FALSE
      /\ D!NoLoad.step = "none" /\ D!NoLoad.id = 0
  BY DEF D!NoTimer, D!NoSave, D!NoLoad
<1>3. CASE rows = <<>> /\ reqId = 0 /\ load = D!NoLoad
  <2>1. FormTyped
    BY <1>1, <1>2, <1>3, BlankTyped DEF FormTyped
  <2>. QED
    BY <1>1, <1>2, <1>3, <2>1 DEF FormInv, OneAtATime, PageKnows, SaveKnows, SavedWhenIdle
<1>4. ASSUME NEW f \in D!Forms, rows = <<f>>, reqId = 1,
             load = [D!NoLoad EXCEPT !.step = "asked", !.id = 1]
      PROVE  FormInv
  <2>1. rows \in [{1} -> D!Forms] /\ rows # <<>>
    BY <1>4
  <2>2. /\ load \in [step : {"none", "asked", "read"}, id : {0, 1}, form : D!Forms]
        /\ load.step = "asked" /\ load.id = 1
    BY <1>4, BlankTyped DEF D!NoLoad
  <2>3. FormTyped
    BY <1>1, <1>2, <1>4, <2>1, <2>2, BlankTyped DEF FormTyped
  <2>. QED
    BY <1>1, <1>2, <1>4, <2>2, <2>3 DEF FormInv, OneAtATime, PageKnows, SaveKnows, SavedWhenIdle
<1>. QED  BY <1>3, <1>4 DEF D!Init

(* A change of what is shown, with nothing under way, starts the timer.    *)
LEMMA ScheduleKeeps ==
    ASSUME FormInv, NEW next \in D!Forms, D!ScheduleSave(next), ~D!Busy,
           UNCHANGED <<rows, reqId, save, saving, error, load, mounted>>,
           locating' \in {locating, D!Nowhere}
    PROVE  FormInv'
<1>1. load = D!NoLoad /\ \A s \in Saves : save[s].step = "idle"
  BY DEF D!Busy, D!InFlight
<1>2. form' = next /\ timer' = [on |-> TRUE, form |-> next, id |-> reqId]
  BY DEF D!ScheduleSave
<1>3. timer' \in [on : BOOLEAN, form : D!Forms, id : {0, 1}]
  BY <1>2 DEF FormInv, FormTyped
<1>4. FormTyped'
  BY <1>2, <1>3, BlankTyped DEF FormInv, FormTyped
<1>5. D!NoLoad.step = "none"
  BY DEF D!NoLoad
<1>. QED
  BY <1>1, <1>2, <1>4, <1>5 DEF FormInv, OneAtATime, PageKnows, SaveKnows, SavedWhenIdle

(* A save is sent, with nothing under way and no timer left.               *)
LEMMA SendingKeeps ==
    ASSUME FormInv, NEW s \in Saves, NEW leave \in BOOLEAN, leave => reqId # 0, ~D!Busy, ~timer'.on,
           timer' \in {timer, D!NoTimer},
           save' = [save EXCEPT ![s] = [D!NoSave EXCEPT !.step = "sent", !.id = reqId,
                                                       !.form = form, !.leave = leave]],
           saving' = TRUE, error' = FALSE,
           UNCHANGED <<rows, form, reqId, load, locating, mounted>>
    PROVE  FormInv'
<1>. DEFINE new == [D!NoSave EXCEPT !.step = "sent", !.id = reqId, !.form = form, !.leave = leave]
<1>1. load = D!NoLoad /\ \A t \in Saves : save[t].step = "idle"
  BY DEF D!Busy, D!InFlight
<1>2. /\ new \in [step : SaveSteps, id : {0, 1}, form : D!Forms, base : D!Forms, leave : BOOLEAN]
      /\ new.step = "sent" /\ new.id = reqId /\ new.form = form /\ new.leave = leave
  BY BlankTyped DEF D!NoSave, SaveSteps, FormInv, FormTyped
<1>. HIDE DEF new
<1>3. save'[s] = new /\ \A t \in Saves : t # s => save'[t] = save[t]
  BY DEF FormInv, FormTyped, new
<1>4. save' \in [Saves -> [step : SaveSteps, id : {0, 1}, form : D!Forms, base : D!Forms,
                          leave : BOOLEAN]]
  BY <1>2 DEF FormInv, FormTyped, new
<1>5. timer' \in [on : BOOLEAN, form : D!Forms, id : {0, 1}]
      /\ (rows = <<>> => timer'.id = 0)
  BY BlankTyped DEF FormInv, FormTyped, D!NoTimer
<1>6. FormTyped'
  BY <1>2, <1>3, <1>4, <1>5 DEF FormInv, FormTyped
<1>7. OneAtATime'
  BY <1>1, <1>3 DEF OneAtATime
<1>8. D!NoLoad.step = "none"
  BY DEF D!NoLoad
<1>9. PageKnows'
  BY <1>1, <1>2, <1>3, <1>8 DEF FormInv, PageKnows, SaveKnows
<1>10. ~Idle'
  BY <1>2, <1>3 DEF Idle
<1>. QED  BY <1>6, <1>7, <1>9, <1>10 DEF FormInv, SavedWhenIdle

(* A save moves on: the row is created, read, written, or not.             *)
LEMMA MovingKeeps ==
    ASSUME FormInv, NEW s \in Saves, save[s].step # "idle",
           NEW new \in [step : SaveSteps \ {"idle"}, id : {0, 1}, form : D!Forms, base : D!Forms,
                        leave : BOOLEAN],
           save' = [save EXCEPT ![s] = new],
           rows' = rows \/ rows' \in [{1} -> D!Forms],
           new.id = 1 => rows' # <<>>,
           SaveKnows(s)',
           rows' # <<>> => reqId = 1 \/ new.step = "saved",
           UNCHANGED <<form, reqId, timer, saving, error, load, locating, mounted>>
    PROVE  FormInv'
<1>1. save'[s] = new /\ \A t \in Saves : t # s => save'[t] = save[t]
  BY DEF FormInv, FormTyped
<1>2. save' \in [Saves -> [step : SaveSteps, id : {0, 1}, form : D!Forms, base : D!Forms,
                          leave : BOOLEAN]]
  <2>1. new \in [step : SaveSteps, id : {0, 1}, form : D!Forms, base : D!Forms, leave : BOOLEAN]
    OBVIOUS
  <2>. QED  BY <2>1 DEF FormInv, FormTyped
<1>3. load = D!NoLoad /\ ~timer.on /\ \A t \in Saves : t # s => save[t].step = "idle"
  BY DEF FormInv, OneAtATime
<1>4. rows' = <<>> => rows = <<>>
  <2>1. \A r \in [{1} -> D!Forms] : r # <<>>
    <3>1. \A r \in [{1} -> D!Forms] : DOMAIN r = {1}
      OBVIOUS
    <3>2. 1 \notin DOMAIN <<>>
      OBVIOUS
    <3>. QED  BY <3>1, <3>2
  <2>. QED  BY <2>1
<1>5. FormTyped'
  BY <1>1, <1>2, <1>4 DEF FormInv, FormTyped
<1>6. OneAtATime'
  BY <1>1, <1>3 DEF OneAtATime
<1>7. \A t \in Saves : SaveKnows(t)'
  BY <1>1, <1>3 DEF SaveKnows, FormInv, PageKnows
<1>8. D!NoLoad.step = "none"
  BY DEF D!NoLoad
<1>9. PageKnows'
  BY <1>1, <1>3, <1>7, <1>8 DEF FormInv, PageKnows
<1>10. ~Idle'
  BY <1>1 DEF Idle
<1>. QED  BY <1>5, <1>6, <1>9, <1>10 DEF FormInv, SavedWhenIdle

LEMMA UpdatedIs ==
    ASSUME NEW base \in D!Forms, NEW f \in D!Forms
    PROVE  D!Updated(base, f) \in D!Forms /\ Has(D!Updated(base, f), f)
<1>. DEFINE pin == IF f.pin = D!NoPin THEN base.pin ELSE f.pin
            place == IF f.place = D!NoPin THEN base.place ELSE f.place
            note == IF f.note = D!NoNote THEN base.note ELSE f.note
<1>1. pin \in Pins \union {D!NoPin} /\ place \in D!Places /\ f.text \in 0 .. MaxText
      /\ note \in Notes \union {D!NoNote}
  BY DEF D!Forms
<1>2. D!Location(pin, place) \in D!Places
  BY <1>1 DEF D!Location, D!Places
<1>3. D!Updated(base, f) = [pin |-> pin, text |-> f.text, note |-> note,
                          place |-> D!Location(pin, place)]
  BY DEF D!Updated
<1>. HIDE DEF place
<1>4. D!Updated(base, f) \in D!Forms
  BY <1>1, <1>2, <1>3 DEF D!Forms
<1>. QED  BY <1>3, <1>4 DEF Has

LEMMA CreateKeeps ==
    ASSUME FormInv, NEW s \in Saves, D!Create(s)
    PROVE  FormInv'
<1>. DEFINE f == save[s].form
            n == [f EXCEPT !.place = D!Location(f.pin, f.place)]
            new == [save[s] EXCEPT !.step = "saved", !.id = 1, !.base = n]
<1>1. /\ save[s].step = "sent" /\ save[s].id = 0 /\ f = form /\ reqId = 0
      /\ \A t \in Saves : save[t].step # "idle" => s = t
      /\ UNCHANGED <<form, reqId, timer, saving, error, load, locating, mounted>>
  BY DEF D!Create, D!page, FormInv, PageKnows, SaveKnows, OneAtATime
<1>2. rows = <<>>
  BY <1>1 DEF FormInv, PageKnows
<1>3. D!Cardinality(DOMAIN rows) = 0
  <2>1. DOMAIN rows = {}
    BY <1>2
  <2>. QED  BY <2>1, CountedAlike, FS_EmptySet
<1>4. n \in D!Forms /\ n.text = f.text /\ n.pin = f.pin /\ n.note = f.note
  BY <1>1 DEF FormInv, FormTyped, D!Forms, D!Location, D!Places
<1>. HIDE DEF n
<1>5. rows' = [i \in 1 .. 1 |-> IF i = 1 THEN n ELSE rows[i]]
  BY <1>3 DEF D!Create, n
<1>6. rows' \in [{1} -> D!Forms] /\ rows'[1] = n /\ rows' # <<>>
  BY <1>4, <1>5
<1>7. save' = [save EXCEPT ![s] = new]
  <2>. DEFINE id == D!Cardinality(DOMAIN rows) + 1
  <2>1. id = 1
    BY <1>3
  <2>2. save' = [save EXCEPT ![s].step = "saved", ![s].id = id, ![s].base = rows'[id]]
    BY DEF D!Create
  <2>. HIDE DEF id
  <2>. QED  BY <1>6, <2>1, <2>2 DEF FormInv, FormTyped
<1>8. /\ new \in [step : SaveSteps \ {"idle"}, id : {0, 1}, form : D!Forms, base : D!Forms,
                  leave : BOOLEAN]
      /\ new.step = "saved" /\ new.id = 1 /\ new.leave = save[s].leave
  <2>1. save[s] \in [step : SaveSteps, id : {0, 1}, form : D!Forms, base : D!Forms, leave : BOOLEAN]
    BY DEF FormInv, FormTyped
  <2>. QED  BY <1>4, <2>1 DEF SaveSteps
<1>. HIDE DEF new
<1>9. save'[s] = new
  BY <1>7 DEF FormInv, FormTyped
<1>10. SaveKnows(s)'
  <2>1. ~save[s].leave
    BY <1>1 DEF FormInv, PageKnows, SaveKnows
  <2>. QED  BY <1>1, <1>4, <1>6, <1>8, <1>9, <2>1 DEF SaveKnows, Has
<1>. QED  BY <1>1, <1>6, <1>7, <1>8, <1>10, MovingKeeps

LEMMA UpdateReadKeeps ==
    ASSUME FormInv, NEW s \in Saves, D!UpdateRead(s)
    PROVE  FormInv'
<1>. DEFINE new == [save[s] EXCEPT !.step = "read", !.base = rows[save[s].id]]
<1>1. /\ save[s].step = "sent" /\ save[s].id = 1 /\ save[s].form = form /\ reqId = 1
      /\ UNCHANGED <<rows, form, reqId, timer, saving, error, load, locating, mounted>>
      /\ save' = [save EXCEPT ![s] = new]
  BY DEF D!UpdateRead, D!page, FormInv, FormTyped, PageKnows, SaveKnows
<1>2. rows # <<>> /\ rows[1] \in D!Forms
  BY <1>1 DEF FormInv, FormTyped
<1>3. /\ new \in [step : SaveSteps \ {"idle"}, id : {0, 1}, form : D!Forms, base : D!Forms,
                  leave : BOOLEAN]
      /\ new.step = "read" /\ new.id = 1 /\ new.form = form /\ new.leave = save[s].leave
  BY <1>1, <1>2 DEF FormInv, FormTyped, SaveSteps
<1>. HIDE DEF new
<1>4. save'[s] = new
  BY <1>1 DEF FormInv, FormTyped
<1>5. SaveKnows(s)'
  BY <1>1, <1>3, <1>4 DEF SaveKnows
<1>. QED  BY <1>1, <1>2, <1>3, <1>5, MovingKeeps

LEMMA UpdateWriteKeeps ==
    ASSUME FormInv, NEW s \in Saves, D!UpdateWrite(s)
    PROVE  FormInv'
<1>. DEFINE new == [save[s] EXCEPT !.step = "updated", !.base = D!Blank]
            r == D!Updated(save[s].base, save[s].form)
<1>1. /\ save[s].step = "read" /\ save[s].id = 1 /\ save[s].form = form /\ reqId = 1
      /\ UNCHANGED <<form, reqId, timer, saving, error, load, locating, mounted>>
      /\ save' = [save EXCEPT ![s] = new] /\ rows' = [rows EXCEPT ![1] = r]
  BY DEF D!UpdateWrite, D!page, FormInv, FormTyped, PageKnows, SaveKnows
<1>2. rows \in [{1} -> D!Forms]
  BY <1>1 DEF FormInv, FormTyped
<1>3. r \in D!Forms /\ Has(r, form)
  BY <1>1, UpdatedIs DEF FormInv, FormTyped
<1>. HIDE DEF r
<1>4. rows' \in [{1} -> D!Forms] /\ rows'[1] = r /\ rows' # <<>>
  BY <1>1, <1>2, <1>3
<1>5. /\ new \in [step : SaveSteps \ {"idle"}, id : {0, 1}, form : D!Forms, base : D!Forms,
                  leave : BOOLEAN]
      /\ new.step = "updated" /\ new.id = 1 /\ new.leave = save[s].leave
  BY <1>1, BlankTyped DEF FormInv, FormTyped, SaveSteps
<1>. HIDE DEF new
<1>6. save'[s] = new
  BY <1>1 DEF FormInv, FormTyped
<1>7. SaveKnows(s)'
  BY <1>1, <1>3, <1>4, <1>5, <1>6 DEF SaveKnows
<1>. QED  BY <1>1, <1>4, <1>5, <1>7, MovingKeeps

LEMMA FailKeeps ==
    ASSUME FormInv, NEW s \in Saves, D!Fail(s), ~raced'
    PROVE  FormInv'
<1>. DEFINE new == [D!NoSave EXCEPT !.step = "failed", !.leave = save[s].leave]
<1>1. /\ save[s].step \in {"sent", "updated"}
      /\ UNCHANGED <<rows, form, reqId, timer, saving, error, load, locating, mounted>>
      /\ save' = [save EXCEPT ![s] = new]
  BY DEF D!Fail, D!page
<1>2. /\ new \in [step : SaveSteps \ {"idle"}, id : {0, 1}, form : D!Forms, base : D!Forms,
                  leave : BOOLEAN]
      /\ new.step = "failed" /\ new.id = 0 /\ new.leave = save[s].leave
  BY BlankTyped DEF FormInv, FormTyped, SaveSteps, D!NoSave
<1>. HIDE DEF new
<1>3. save'[s] = new
  BY <1>1 DEF FormInv, FormTyped
<1>4. SaveKnows(s)'
  BY <1>1, <1>2, <1>3 DEF SaveKnows, FormInv, PageKnows
<1>5. \A t \in Saves : save[t].step = "saved" => t = s
  BY <1>1 DEF FormInv, OneAtATime
<1>6. rows # <<>> => reqId = 1
  BY <1>1, <1>5 DEF FormInv, PageKnows
<1>7. save[s].step # "idle" /\ rows' = rows /\ new.id # 1
  BY <1>1, <1>2
<1>. QED  BY <1>1, <1>2, <1>4, <1>6, <1>7, MovingKeeps

LEMMA ReturnKeeps ==
    ASSUME FormInv, NEW s \in Saves, D!Return(s)
    PROVE  FormInv'
<1>. DEFINE asked == [D!NoLoad EXCEPT !.step = "asked", !.id = save[s].id]
<1>1. /\ save[s].step \in {"saved", "updated", "failed"}
      /\ saving' = FALSE /\ error' = (error \/ save[s].step = "failed")
      /\ mounted' = (mounted /\ ~save[s].leave)
      /\ save' = [save EXCEPT ![s] = D!NoSave]
      /\ UNCHANGED <<rows, form, timer, locating>>
      /\ IF save[s].step = "saved" /\ mounted THEN reqId' = save[s].id /\ load' = asked
         ELSE UNCHANGED <<reqId, load>>
  BY DEF D!Return
<1>2. /\ save'[s] = D!NoSave /\ D!NoSave.step = "idle" /\ D!NoSave.id = 0 /\ ~D!NoSave.leave
      /\ \A t \in Saves : t # s => save'[t] = save[t] /\ save[t].step = "idle"
  BY <1>1 DEF D!NoSave, FormInv, FormTyped, OneAtATime
<1>3. SaveKnows(s) /\ load = D!NoLoad /\ ~timer.on /\ (~mounted => reqId # 0)
  BY <1>1 DEF FormInv, PageKnows, OneAtATime
<1>4. /\ asked \in [step : {"none", "asked", "read"}, id : {0, 1}, form : D!Forms]
      /\ asked.step = "asked" /\ asked.id = save[s].id
  BY BlankTyped DEF D!NoLoad, FormInv, FormTyped
<1>. HIDE DEF asked
<1>5. save' \in [Saves -> [step : SaveSteps, id : {0, 1}, form : D!Forms, base : D!Forms,
                          leave : BOOLEAN]]
  BY <1>1, BlankTyped DEF FormInv, FormTyped
<1>6. /\ save[s].step = "saved" => mounted /\ reqId' = 1 /\ load' = asked /\ asked.id = 1
      /\ save[s].step # "saved" => reqId' = reqId /\ load' = load
  BY <1>1, <1>3, <1>4 DEF SaveKnows
<1>7. save[s].leave \in BOOLEAN /\ error \in BOOLEAN /\ mounted \in BOOLEAN
  BY DEF FormInv, FormTyped
<1>8. FormTyped'
  BY <1>1, <1>2, <1>3, <1>4, <1>5, <1>6, <1>7 DEF FormInv, FormTyped, SaveKnows
<1>9. OneAtATime'
  BY <1>1, <1>2, <1>3 DEF OneAtATime
<1>10. D!NoLoad.step = "none"
  BY DEF D!NoLoad
<1>11. rows # <<>> => reqId' = 1
  BY <1>1, <1>2, <1>6 DEF FormInv, PageKnows
<1>12. ~mounted' => reqId' # 0
  BY <1>1, <1>3, <1>6 DEF SaveKnows
<1>13. \A t \in Saves : SaveKnows(t)'
  <2>1. \A t \in Saves : save[t].leave => reqId' # 0
    BY <1>6 DEF FormInv, PageKnows, SaveKnows
  <2>. QED  BY <1>2, <2>1 DEF SaveKnows
<1>15. PageKnows'
  BY <1>1, <1>2, <1>3, <1>4, <1>6, <1>10, <1>11, <1>12, <1>13 DEF PageKnows
<1>14. SavedWhenIdle'
  BY <1>1, <1>2, <1>3 DEF SavedWhenIdle, SaveKnows
<1>. QED  BY <1>8, <1>9, <1>15, <1>14 DEF FormInv

(* The draft is read back, with no save under way.                         *)
LEMMA LoadKeeps ==
    ASSUME FormInv, D!LoadRead \/ D!LoadReturn \/ D!LoadFails
    PROVE  FormInv'
<1>1. load.step \in {"asked", "read"} /\ load # D!NoLoad /\ D!NoLoad.step = "none" /\ D!NoLoad.id = 0
  BY DEF D!LoadRead, D!LoadReturn, D!LoadFails, D!NoLoad
<1>2. load.id = 1 /\ reqId = 1 /\ ~timer.on /\ Idle
  BY <1>1 DEF FormInv, PageKnows, OneAtATime, Idle
<1>3. rows \in [{1} -> D!Forms] /\ rows[1] \in D!Forms
  BY <1>2 DEF FormInv, FormTyped
<1>4. CASE D!LoadRead
  <2>1. load' = [load EXCEPT !.step = "read", !.form = rows[1]]
        /\ UNCHANGED <<rows, form, reqId, timer, save, saving, error, locating, mounted>>
    BY <1>2, <1>4 DEF D!LoadRead, D!page
  <2>2. /\ load' \in [step : {"none", "asked", "read"}, id : {0, 1}, form : D!Forms]
        /\ load'.step = "read" /\ load'.id = 1 /\ load'.form = rows[1]
    BY <1>2, <1>3, <2>1 DEF FormInv, FormTyped
  <2>3. FormTyped'
    BY <1>2, <2>1, <2>2 DEF FormInv, FormTyped
  <2>4. OneAtATime'
    BY <1>2, <2>1 DEF OneAtATime, Idle
  <2>5. PageKnows'
    BY <1>2, <2>1, <2>2 DEF FormInv, PageKnows, SaveKnows
  <2>6. SavedWhenIdle'
    BY <2>1 DEF FormInv, SavedWhenIdle, Idle
  <2>. QED  BY <2>3, <2>4, <2>5, <2>6 DEF FormInv
<1>5. CASE D!LoadReturn
  <2>1. /\ form' = rows[1] /\ reqId' = 1 /\ load' = D!NoLoad
        /\ UNCHANGED <<rows, timer, save, saving, error, locating, mounted>>
    BY <1>1, <1>2, <1>5 DEF D!LoadReturn, FormInv, PageKnows
  <2>2. FormTyped'
    BY <1>2, <1>3, <2>1, BlankTyped DEF FormInv, FormTyped
  <2>3. OneAtATime'
    BY <1>2, <2>1 DEF OneAtATime, Idle
  <2>4. PageKnows'
    BY <1>1, <1>2, <2>1 DEF FormInv, PageKnows, SaveKnows, Idle
  <2>5. SavedWhenIdle'
    BY <1>3, <2>1 DEF SavedWhenIdle, Has
  <2>. QED  BY <2>2, <2>3, <2>4, <2>5 DEF FormInv
<1>6. CASE D!LoadFails
  <2>1. /\ load' = D!NoLoad
        /\ UNCHANGED <<rows, form, reqId, timer, save, saving, error, locating, mounted>>
    BY <1>6 DEF D!LoadFails, D!page
  <2>2. FormTyped'
    BY <1>1, <2>1, BlankTyped DEF FormInv, FormTyped
  <2>3. OneAtATime'
    BY <1>2, <2>1 DEF OneAtATime, Idle
  <2>4. PageKnows'
    BY <1>1, <1>2, <2>1 DEF FormInv, PageKnows, SaveKnows, Idle
  <2>5. SavedWhenIdle'
    BY <2>1 DEF FormInv, SavedWhenIdle, Idle
  <2>. QED  BY <2>2, <2>3, <2>4, <2>5 DEF FormInv
<1>. QED  BY <1>4, <1>5, <1>6

LEMMA RacedTyped ==
    ASSUME raced \in BOOLEAN, [D!Next]_draftVars
    PROVE  raced' \in BOOLEAN
<1>1. ASSUME NEW s \in Saves, \/ D!TimerFires(s) \/ D!Submit(s) \/ D!Create(s) \/ D!UpdateRead(s)
                              \/ D!UpdateWrite(s) \/ D!Fail(s) \/ D!Return(s)
      PROVE  raced' \in BOOLEAN
  BY <1>1 DEF D!TimerFires, D!Persist, D!Submit, D!Create, D!UpdateRead, D!UpdateWrite, D!Fail, D!Return
<1>2. /\ \A pin : D!EditPin(pin) => raced' \in BOOLEAN
      /\ \A note : D!EditNote(note) => raced' \in BOOLEAN
  BY DEF D!EditPin, D!EditNote
<1>3. CASE D!EditText \/ D!Locate \/ D!Located \/ D!LoadRead \/ D!LoadReturn \/ D!LoadFails
  BY <1>3 DEF D!EditText, D!Locate, D!Located, D!LoadRead, D!LoadReturn, D!LoadFails
<1>4. CASE UNCHANGED draftVars
  BY <1>4 DEF draftVars
<1>. QED  BY <1>1, <1>2, <1>3, <1>4 DEF D!Next

LEMMA FormInvStep ==
    ASSUME FormInv, [D!Next]_draftVars, ~raced'
    PROVE  FormInv'
<1>1. CASE D!EditText
  <2>1. ~D!Busy /\ form.text < MaxText /\ D!ScheduleSave([form EXCEPT !.text = @ + 1])
        /\ UNCHANGED <<rows, reqId, save, saving, error, load, mounted, locating>>
    BY <1>1 DEF D!EditText
  <2>2. form \in D!Forms /\ form.text \in 0 .. MaxText /\ MaxText \in Nat
    BY PartsAssumption DEF D!MaxTextAssumption, FormInv, FormTyped, D!Forms
  <2>3. form.text + 1 \in 0 .. MaxText
    BY <2>1, <2>2
  <2>4. [form EXCEPT !.text = @ + 1] \in D!Forms
    BY <2>2, <2>3 DEF D!Forms
  <2>. QED  BY <2>1, <2>4, ScheduleKeeps
<1>2. ASSUME NEW pin \in Pins \union {D!NoPin}, D!EditPin(pin)  PROVE FormInv'
  <2>1. ~D!Busy /\ D!ScheduleSave([form EXCEPT !.pin = pin, !.place = D!NoPin])
        /\ UNCHANGED <<rows, reqId, save, saving, error, load, mounted, locating>>
    BY <1>2 DEF D!EditPin
  <2>2. [form EXCEPT !.pin = pin, !.place = D!NoPin] \in D!Forms
    BY DEF FormInv, FormTyped, D!Forms, D!Places
  <2>. QED  BY <2>1, <2>2, ScheduleKeeps
<1>10. ASSUME NEW note \in Notes \union {D!NoNote}, D!EditNote(note)  PROVE FormInv'
  <2>1. ~D!Busy /\ D!ScheduleSave([form EXCEPT !.note = note])
        /\ UNCHANGED <<rows, reqId, save, saving, error, load, mounted, locating>>
    BY <1>10 DEF D!EditNote
  <2>2. [form EXCEPT !.note = note] \in D!Forms
    BY DEF FormInv, FormTyped, D!Forms
  <2>. QED  BY <2>1, <2>2, ScheduleKeeps
<1>3. CASE D!Locate
  <2>1. locating' = [on |-> TRUE, form |-> form]
        /\ UNCHANGED <<rows, form, reqId, timer, save, saving, error, load, mounted>>
    BY <1>3 DEF D!Locate
  <2>2. FormTyped'
    BY <2>1 DEF FormInv, FormTyped
  <2>. QED
    BY <2>1, <2>2 DEF FormInv, OneAtATime, PageKnows, SaveKnows, SavedWhenIdle, Idle
<1>4. CASE D!Located
  <2>1. locating' = D!Nowhere /\ UNCHANGED <<rows, reqId, save, saving, error, load, mounted>>
    BY <1>4 DEF D!Located
  <2>2. CASE UNCHANGED <<form, timer>>
    <3>1. FormTyped'
      BY <2>1, <2>2, BlankTyped DEF FormInv, FormTyped
    <3>. QED
      BY <2>1, <2>2, <3>1 DEF FormInv, OneAtATime, PageKnows, SaveKnows, SavedWhenIdle, Idle
  <2>3. ASSUME NEW place \in {D!Device, locating.form.pin} \ {D!NoPin},
               D!ScheduleSave([locating.form EXCEPT !.place = place]), ~D!Busy
        PROVE  FormInv'
    <3>1. [locating.form EXCEPT !.place = place] \in D!Forms
      BY DEF FormInv, FormTyped, D!Forms, D!Places
    <3>. QED  BY <2>1, <2>3, <3>1, ScheduleKeeps
  <2>. QED  BY <1>4, <2>2, <2>3 DEF D!Located
<1>5. CASE D!LoadRead \/ D!LoadReturn \/ D!LoadFails
  BY <1>5, LoadKeeps
<1>6. D!NoTimer.on = FALSE
  BY DEF D!NoTimer
<1>7. ASSUME NEW s \in Saves, D!TimerFires(s)  PROVE FormInv'
  <2>1. /\ ~D!Busy /\ timer.on /\ timer' = D!NoTimer
        /\ save' = [save EXCEPT ![s] = [D!NoSave EXCEPT !.step = "sent", !.id = timer.id,
                                                        !.form = timer.form, !.leave = FALSE]]
        /\ saving' = TRUE /\ error' = FALSE
        /\ UNCHANGED <<rows, form, reqId, load, locating, mounted>>
    BY <1>7 DEF D!TimerFires, D!Persist
  <2>2. timer.id = reqId /\ timer.form = form
    BY <2>1 DEF FormInv, PageKnows
  <2>. QED  BY <1>6, <2>1, <2>2, SendingKeeps
<1>8. ASSUME NEW s \in Saves, D!Submit(s)  PROVE FormInv'
  <2>. DEFINE leave == reqId # 0
  <2>1. /\ ~D!Busy /\ ~timer.on /\ timer' = timer
        /\ save' = [save EXCEPT ![s] = [D!NoSave EXCEPT !.step = "sent", !.id = reqId,
                                                        !.form = form, !.leave = leave]]
        /\ saving' = TRUE /\ error' = FALSE
        /\ UNCHANGED <<rows, form, reqId, load, locating, mounted>>
    BY <1>8 DEF D!Submit
  <2>2. leave \in BOOLEAN /\ (leave => reqId # 0)
    OBVIOUS
  <2>. HIDE DEF leave
  <2>. QED  BY <2>1, <2>2, SendingKeeps
<1>9. CASE UNCHANGED draftVars
  BY <1>9 DEF draftVars, FormInv, FormTyped, OneAtATime, PageKnows, SaveKnows, SavedWhenIdle, Idle
<1>. QED
  BY <1>1, <1>2, <1>10, <1>3, <1>4, <1>5, <1>7, <1>8, <1>9, CreateKeeps, UpdateReadKeeps,
     UpdateWriteKeeps, FailKeeps, ReturnKeeps DEF D!Next

LEMMA FormInvIsEnough ==
    ASSUME FormInv, raced = FALSE
    PROVE  D!TypeOK /\ D!OneDraft /\ D!SavedAsShown
<1>. DEFINE n == D!Cardinality(DOMAIN rows)
<1>1. \/ rows = <<>> /\ n = 0
      \/ rows \in [{1} -> D!Forms] /\ n = 1 /\ DOMAIN rows = {1}
  <2>1. CASE rows = <<>>
    <3>1. DOMAIN rows = {}
      BY <2>1
    <3>. QED  BY <2>1, <3>1, CountedAlike, FS_EmptySet
  <2>2. CASE rows \in [{1} -> D!Forms]
    <3>1. DOMAIN rows = {1}
      BY <2>2
    <3>2. Cardinality({1}) = 1
      BY FS_Singleton
    <3>. QED  BY <2>2, <3>1, <3>2, CountedAlike
  <2>. QED  BY <2>1, <2>2 DEF FormInv, FormTyped
<1>2. D!TypeOK
  <2>1. n <= MaxDrafts
    BY <1>1, PartsAssumption DEF D!MaxDraftsAssumption
  <2>2. rows \in [1 .. n -> D!Forms]
    <3>. HIDE DEF n
    <3>1. CASE rows = <<>> /\ n = 0
      <4>1. 1 .. n = {}
        BY <3>1
      <4>2. rows = [i \in {} |-> i]
        BY <3>1
      <4>. QED  BY <4>1, <4>2
    <3>2. CASE rows \in [{1} -> D!Forms] /\ n = 1
      <4>1. 1 .. n = {1}
        BY <3>2
      <4>. QED  BY <3>2, <4>1
    <3>. QED  BY <1>1, <3>1, <3>2
  <2>3. /\ reqId \in {0} \union DOMAIN rows /\ timer.id \in {0} \union DOMAIN rows
        /\ load.id \in {0} \union DOMAIN rows
        /\ \A s \in Saves : save[s].id \in {0} \union DOMAIN rows
    BY <1>1 DEF FormInv, FormTyped
  <2>. QED  BY <2>1, <2>2, <2>3 DEF FormInv, FormTyped, D!TypeOK
<1>3. D!OneDraft
  BY <1>1 DEF D!OneDraft
<1>4. D!SavedAsShown
  <2>. SUFFICES ASSUME D!Quiet, ~error, reqId # 0, form # D!Blank
                PROVE  /\ rows[reqId].text = form.text
                       /\ form.pin # D!NoPin => rows[reqId].pin = form.pin
                       /\ form.note # D!NoNote => rows[reqId].note = form.note
    BY DEF D!SavedAsShown
  <2>1. Idle /\ ~timer.on
    BY DEF D!Quiet, D!Busy, D!InFlight, Idle
  <2>2. reqId = 1
    BY DEF FormInv, FormTyped
  <2>. QED  BY <2>1, <2>2 DEF FormInv, SavedWhenIdle, Has
<1>. QED  BY <1>2, <1>3, <1>4

(* The page of a requirement creates one draft, and with nothing under way *)
(* the draft is what the page shows, but for the pincode or the note that  *)
(* was emptied there, whatever timers, saves, loads and the location       *)
(* button do, as long as no save races another change.                     *)
THEOREM DraftStaysAsShown == Spec => []DraftIsAsShown
<1>. DEFINE Inv == part = "form" => FormInv /\ raced = FALSE
<1>1. Init => Inv
  BY FormInvInit DEF Init, D!Init
<1>2. Inv /\ [Next]_<<part, parts>> => Inv'
  <2>. SUFFICES ASSUME Inv, [Next]_<<part, parts>>, part' = "form"
                PROVE  FormInv' /\ raced' = FALSE
    OBVIOUS
  <2>1. CASE FormNext
    BY <2>1, FormInvStep, RacedTyped DEF FormNext
  <2>2. CASE UNCHANGED <<part, parts>>
    <3>1. part = "form" /\ UNCHANGED draftVars /\ raced' = raced
      BY <2>2 DEF parts, draftVars
    <3>. QED  BY <3>1, FormInvStep
  <2>. QED  BY <2>1, <2>2 DEF Next, ChatNext, WizardNext, PayNext, AfterNext, DealNext
<1>3. Inv => DraftIsAsShown
  BY FormInvIsEnough DEF DraftIsAsShown
<1>. QED  BY <1>1, <1>2, <1>3, PTL DEF Spec
-----------------------------------------------------------------------------
(* Induction, on a set of numbers.                                         *)

Below == {p \in Nat \X Nat : p[1] < p[2]}

LEMMA LeastOf ==
    ASSUME NEW S, S \subseteq Nat, S # {}
    PROVE  \E n \in S : \A m \in S : n <= m
<1>. DEFINE R == Below
<1>0. OpToRel(<, Nat) = Below
  BY DEF OpToRel, Below
<1>. HIDE DEF R
<1>1. IsWellFoundedOn(R, Nat)
  BY <1>0, NatLessThanWellFounded DEF R
<1>2. PICK x \in S : \A y \in S : ~(<<y, x>> \in R)
  BY <1>1, WFMin
<1>3. ASSUME NEW y \in S, y < x  PROVE FALSE
  <2>1. <<y, x>> \in Nat \X Nat /\ <<y, x>>[1] < <<y, x>>[2]
    BY <1>3
  <2>2. <<y, x>> \in R
    BY <2>1 DEF R, Below
  <2>. QED  BY <1>2, <2>2
<1>. QED  BY <1>3

LEMMA InductionOn ==
    ASSUME NEW S, S \subseteq Nat, 0 \in S, \A n \in S : n + 1 \in S
    PROVE  \A n \in Nat : n \in S
<1>. SUFFICES ASSUME Nat \ S # {}  PROVE FALSE
  OBVIOUS
<1>1. PICK n \in Nat \ S : \A m \in Nat \ S : n <= m
  BY LeastOf
<1>2. n # 0 /\ n - 1 \in Nat /\ ~(n <= n - 1)
  BY <1>1
<1>3. n - 1 \in S
  BY <1>1, <1>2
<1>. QED  BY <1>3, <1>1

-----------------------------------------------------------------------------
(* The chat. *)

MessageSeq == Seq(1 .. MaxMessages)

(* What a load of the messages after c, up to m, makes of those that are   *)
(* shown: they stay where they are, and those that are missing follow, in  *)
(* order; so what was complete stays complete.                             *)
Continues(old, c, m, new) ==
    /\ new \in MessageSeq
    /\ Len(old) <= Len(new)
    /\ \A i \in 1 .. Len(old) : new[i] = old[i]
    /\ \A i \in 1 .. Len(new) : i > Len(old) =>
          new[i] \in c + 1 .. m /\ \A j \in 1 .. Len(old) : new[i] # old[j]
    /\ \A i, j \in 1 .. Len(new) : i > Len(old) /\ i < j => new[i] < new[j]
    /\ c <= Len(old) /\ (\A i \in 1 .. Len(old) : old[i] = i) =>
          /\ Len(new) = IF m <= Len(old) THEN Len(old) ELSE m
          /\ \A i \in 1 .. Len(new) : new[i] = i

(* What Merged goes through, one message of the answer after another, T    *)
(* being shown already.                                                    *)
MergeSteps(f, c, n, old, T) ==
    [m \in c .. n |-> IF m = c THEN old
                      ELSE IF m \in T THEN f[m - 1] ELSE Append(f[m - 1], m)]

LEMMA StepsExist ==
    ASSUME NEW c \in Nat, NEW n \in Nat, c <= n, NEW old, NEW T
    PROVE  \E f : f = MergeSteps(f, c, n, old, T)
<1>. DEFINE Steps(f, k) == [m \in c .. c + k |->
                               IF m = c THEN old
                               ELSE IF m \in T THEN f[m - 1] ELSE Append(f[m - 1], m)]
            S == {k \in Nat : \E f : f = Steps(f, k)}
<1>1. 0 \in S
  <2>. DEFINE g == [m \in c .. c + 0 |-> old]
  <2>1. g = Steps(g, 0)
    OBVIOUS
  <2>. QED  BY <2>1
<1>2. ASSUME NEW k \in S  PROVE k + 1 \in S
  <2>1. PICK f : f = Steps(f, k)
    BY <1>2
  <2>. DEFINE last == c + k + 1
              g == [m \in c .. last |->
                       IF m = last THEN IF last \in T THEN f[last - 1] ELSE Append(f[last - 1], last)
                       ELSE f[m]]
  <2>2. \A m \in c .. last : g[m] = IF m = c THEN old
                                   ELSE IF m \in T THEN g[m - 1] ELSE Append(g[m - 1], m)
    <3>. TAKE m \in c .. last
    <3>1. CASE m = last
      <4>1. last - 1 \in c .. last /\ last - 1 # last /\ last # c
        OBVIOUS
      <4>2. g[last - 1] = f[last - 1]
        BY <4>1
      <4>. QED  BY <3>1, <4>1, <4>2
    <3>2. CASE m = c
      <4>1. c # last /\ c \in c .. c + k
        OBVIOUS
      <4>2. f[c] = old
        BY <2>1, <4>1
      <4>. QED  BY <3>2, <4>1, <4>2
    <3>3. CASE m # c /\ m # last
      <4>1. m \in c .. c + k /\ m - 1 \in c .. last /\ m - 1 # last
        BY <3>3
      <4>2. f[m] = IF m \in T THEN f[m - 1] ELSE Append(f[m - 1], m)
        BY <2>1, <3>3, <4>1
      <4>. QED  BY <3>3, <4>1, <4>2
    <3>. QED  BY <3>1, <3>2, <3>3
  <2>3. g = Steps(g, k + 1)
    <3>1. last = c + (k + 1)
      OBVIOUS
    <3>2. g = [m \in c .. last |-> g[m]]
      OBVIOUS
    <3>. HIDE DEF g, last
    <3>3. [m \in c .. last |-> g[m]] =
          [m \in c .. last |-> IF m = c THEN old
                               ELSE IF m \in T THEN g[m - 1] ELSE Append(g[m - 1], m)]
      BY <2>2
    <3>. QED  BY <3>1, <3>2, <3>3
  <2>4. \E h : h = Steps(h, k + 1)
    <3>. HIDE DEF Steps, g
    <3>. QED  BY <2>3
  <2>5. k + 1 \in Nat
    OBVIOUS
  <2>. HIDE DEF Steps
  <2>. QED  BY <2>4, <2>5
<1>3. n - c \in S
  <2>1. S \subseteq Nat /\ n - c \in Nat
    OBVIOUS
  <2>. HIDE DEF S
  <2>. QED  BY <1>1, <1>2, <2>1, InductionOn
<1>4. c + (n - c) = n
  OBVIOUS
<1>. QED  BY <1>3, <1>4 DEF MergeSteps

LEMMA AppendContinues ==
    ASSUME NEW c \in Nat, NEW m \in 1 .. MaxMessages, c < m, NEW old \in MessageSeq, NEW seq,
           Continues(old, c, m - 1, seq), \A j \in 1 .. Len(old) : old[j] # m
    PROVE  Continues(old, c, m, Append(seq, m))
<1>. DEFINE new == Append(seq, m)
            n == Len(seq)
<1>0. MaxMessages \in Nat /\ m \in Nat /\ m - 1 \in Nat
  BY PartsAssumption DEF C!MaxMessagesAssumption
<1>1. seq \in MessageSeq /\ n \in Nat /\ Len(old) \in Nat /\ Len(old) <= n
  BY DEF Continues, MessageSeq
<1>2. /\ new \in MessageSeq /\ Len(new) = n + 1
      /\ new[n + 1] = m /\ \A i \in 1 .. n : new[i] = seq[i]
  BY <1>1 DEF MessageSeq
<1>. HIDE DEF new, n
<1>3. \A i \in 1 .. Len(old) : new[i] = old[i]
  BY <1>1, <1>2 DEF Continues
<1>4. \A i \in 1 .. n : i > Len(old) =>
         seq[i] \in c + 1 .. m - 1 /\ \A j \in 1 .. Len(old) : seq[i] # old[j]
  BY DEF Continues, n
<1>5. \A i \in 1 .. Len(new) : i > Len(old) =>
         new[i] \in c + 1 .. m /\ \A j \in 1 .. Len(old) : new[i] # old[j]
  <2>. TAKE i \in 1 .. Len(new)
  <2>1. CASE i = n + 1
    BY <1>0, <1>2, <2>1
  <2>2. CASE i \in 1 .. n
    BY <1>0, <1>2, <1>4, <2>2
  <2>. QED  BY <1>1, <1>2, <2>1, <2>2
<1>6. ASSUME NEW i \in 1 .. Len(new), NEW j \in 1 .. Len(new), i > Len(old), i < j
      PROVE  new[i] < new[j]
  <2>1. i \in 1 .. n /\ new[i] = seq[i] /\ seq[i] \in c + 1 .. m - 1
    BY <1>1, <1>2, <1>4, <1>6
  <2>2. CASE j = n + 1
    BY <1>0, <1>2, <2>1, <2>2
  <2>3. CASE j \in 1 .. n
    BY <1>2, <1>6, <2>1, <2>3 DEF Continues, n
  <2>. QED  BY <1>1, <1>2, <2>2, <2>3
<1>7. ASSUME c <= Len(old), \A i \in 1 .. Len(old) : old[i] = i
      PROVE  /\ Len(new) = IF m <= Len(old) THEN Len(old) ELSE m
             /\ \A i \in 1 .. Len(new) : new[i] = i
  <2>1. ~(m <= Len(old))
    BY <1>0, <1>1, <1>7
  <2>2. n = (IF m - 1 <= Len(old) THEN Len(old) ELSE m - 1) /\ \A i \in 1 .. n : seq[i] = i
    BY <1>7 DEF Continues, n
  <2>3. n = m - 1
    BY <1>0, <1>1, <2>1, <2>2
  <2>4. \A i \in 1 .. Len(new) : i = n + 1 \/ i \in 1 .. n
    BY <1>1, <1>2
  <2>. QED  BY <1>0, <1>2, <2>1, <2>2, <2>3, <2>4
<1>8. Len(old) <= Len(new)
  BY <1>1, <1>2
<1>. QED  BY <1>2, <1>3, <1>5, <1>6, <1>7, <1>8 DEF Continues, new

LEMMA StepsContinue ==
    ASSUME NEW c \in Nat, NEW n \in Nat, c <= n, n <= MaxMessages, NEW old \in MessageSeq,
           NEW f, f = MergeSteps(f, c, n, old, C!Range(old))
    PROVE  Continues(old, c, n, f[n])
<1>. DEFINE S == {k \in Nat : c + k <= n => Continues(old, c, c + k, f[c + k])}
<1>0. MaxMessages \in Nat
  BY PartsAssumption DEF C!MaxMessagesAssumption
<1>1. 0 \in S
  <2>1. f[c] = old
    BY DEF MergeSteps
  <2>2. Continues(old, c, c, old)
    BY DEF Continues, MessageSeq
  <2>3. c + 0 = c
    OBVIOUS
  <2>. QED  BY <2>1, <2>2, <2>3
<1>2. ASSUME NEW k \in S  PROVE k + 1 \in S
  <2>. DEFINE m == c + k + 1
              seq == f[m - 1]
  <2>. SUFFICES ASSUME m <= n  PROVE Continues(old, c, m, f[m])
    BY c + (k + 1) = m
  <2>1. m - 1 = c + k /\ m \in c .. n /\ c < m /\ m \in 1 .. MaxMessages /\ k \in Nat /\ m \in Nat
    BY <1>0
  <2>2. Continues(old, c, m - 1, seq)
    BY <1>2, <2>1
  <2>3. f[m] = IF m \in C!Range(old) THEN seq ELSE Append(seq, m)
    <3>1. \A i \in c .. n :
             f[i] = IF i = c THEN old
                    ELSE IF i \in C!Range(old) THEN f[i - 1] ELSE Append(f[i - 1], i)
      BY DEF MergeSteps
    <3>2. m \in c .. n /\ m # c
      BY <2>1
    <3>. HIDE DEF m
    <3>. QED  BY <3>1, <3>2
  <2>. HIDE DEF m, seq
  <2>4. seq \in MessageSeq /\ Len(seq) \in Nat /\ Len(old) \in Nat
    BY <2>2 DEF Continues, MessageSeq
  <2>5. CASE m \in C!Range(old)
    <3>1. PICK i \in 1 .. Len(old) : old[i] = m
      BY <2>5 DEF C!Range, MessageSeq
    <3>2. (\A j \in 1 .. Len(old) : old[j] = j) => m <= Len(old)
      BY <3>1
    <3>. QED  BY <2>1, <2>2, <2>3, <2>4, <2>5, <3>2 DEF Continues
  <2>6. CASE m \notin C!Range(old)
    <3>1. \A j \in 1 .. Len(old) : old[j] # m
      BY <2>6 DEF C!Range, MessageSeq
    <3>. QED  BY <2>1, <2>2, <2>3, <2>6, <3>1, AppendContinues
  <2>. QED  BY <2>5, <2>6
<1>3. n - c \in S
  <2>1. S \subseteq Nat /\ n - c \in Nat
    OBVIOUS
  <2>. HIDE DEF S
  <2>. QED  BY <1>1, <1>2, <2>1, InductionOn
<1>4. c + (n - c) = n
  OBVIOUS
<1>. QED  BY <1>3, <1>4

LEMMA MergedContinues ==
    ASSUME NEW seen \in MessageSeq, NEW c \in C!Cursors, NEW reply,
           reply.upto \in C!Cursors, c <= reply.upto
    PROVE  Continues(IF c = 0 THEN <<>> ELSE seen, c, reply.upto, C!Merged(seen, c, reply))
<1>. DEFINE old == IF c = 0 THEN <<>> ELSE seen
            n == reply.upto
            F == CHOOSE g : g = MergeSteps(g, c, n, old, C!Range(old))
<1>0. MaxMessages \in Nat /\ c \in Nat /\ n \in Nat /\ n <= MaxMessages /\ old \in MessageSeq
  <2>1. old \in Seq(1 .. MaxMessages)
    BY <<>> \in Seq(1 .. MaxMessages) DEF MessageSeq
  <2>. HIDE DEF old
  <2>. QED  BY <2>1, PartsAssumption DEF C!MaxMessagesAssumption, C!Cursors, MessageSeq
<1>1. C!Merged(seen, c, reply) = F[n]
  BY DEF C!Merged, MergeSteps
<1>. HIDE DEF old, n
<1>2. c <= n
  BY DEF n
<1>3. F = MergeSteps(F, c, n, old, C!Range(old))
  <2>1. \E g : g = MergeSteps(g, c, n, old, C!Range(old))
    BY <1>0, <1>2, StepsExist
  <2>. QED  BY <2>1
<1>4. Continues(old, c, n, F[n])
  <2>. HIDE DEF F
  <2>. QED  BY <1>0, <1>2, <1>3, StepsContinue
<1>. QED  BY <1>1, <1>4 DEF old, n

(* A load asks for what comes after a message that there is, and once at a *)
(* time; what it answers, now or out of the cache, there is too.           *)
LoadsAreOfLog ==
    /\ \A c \in C!Cursors : flight[c] # C!None => c <= Len(log) /\ kept[c] = C!None
    /\ \A c \in C!Cursors : flight[c].state = "read" =>
          c <= flight[c].upto /\ flight[c].upto <= Len(log)
    /\ \A c \in C!Cursors : kept[c] # C!None =>
          c <= kept[c].upto /\ kept[c].upto <= Len(log)

(* What is shown there is, and what is posted is the page's own.           *)
ShownIsOfLog ==
    /\ \A i \in 1 .. Len(page.shown) : page.shown[i] <= Len(log)
    /\ page.posting = "stored" => page.posted \in 1 .. Len(log) /\ log[page.posted] = "me"

(* Until it sends a message a page shows the oldest ones, and its loads    *)
(* are of what comes after one of those; the first load is alone.          *)
ReaderIsComplete ==
    ~page.sent => /\ \A i \in 1 .. Len(page.shown) : page.shown[i] = i
                  /\ \A c \in C!Cursors : flight[c] # C!None =>
                        c <= Len(page.shown) /\ (c = 0 => page.shown = <<>>)

(* Between its two queries the list has the row of the first.              *)
ListIsUnderWay ==
    page.at = "listing" => /\ page.row = "no" => ~page.had
                           /\ page.row = "COMPLETED" => status = "COMPLETED"

ChatInv == /\ C!TypeOK /\ LoadsAreOfLog /\ ShownIsOfLog /\ ReaderIsComplete
           /\ C!OthersShownOnce /\ ListIsUnderWay

LEMMA PageIs ==
    ASSUME C!TypeOK
    PROVE  /\ MaxMessages \in Nat /\ page.shown \in MessageSeq /\ Len(page.shown) \in Nat
           /\ DOMAIN page.shown = 1 .. Len(page.shown)
           /\ log \in Seq(C!Senders) /\ Len(log) \in 0 .. MaxMessages
           /\ page.at \in {"closed", "listing", "list", "opening", "creating", "open", "refused"}
           /\ page.posting \in {"no", "checked", "stored"} /\ page.sent \in BOOLEAN
           /\ page.had \in BOOLEAN /\ page.row \in C!Rows /\ page.posted \in C!Cursors
BY PartsAssumption DEF C!TypeOK, C!Pages, MessageSeq, C!MaxMessagesAssumption

LEMMA ClosedIs ==
    /\ C!Closed \in C!Pages /\ C!Closed.shown = <<>> /\ Len(C!Closed.shown) = 0 /\ ~C!Closed.sent
    /\ C!Closed.posting = "no" /\ C!Closed.at = "closed" /\ C!Closed.row = "no"
BY PartsAssumption DEF C!Closed, C!Pages, C!Rows, C!Cursors, C!MaxMessagesAssumption

LEMMA NoneIs ==
    /\ C!None \in C!Answers /\ C!Asked \in C!Answers
    /\ C!None.state = "none" /\ C!Asked.state = "asked"
<1>1. 0 \in C!Cursors
  BY PartsAssumption DEF C!Cursors, C!MaxMessagesAssumption
<1>2. C!None \in C!Answers /\ C!None.state = "none"
  BY <1>1 DEF C!None, C!Answers
<1>. QED  BY <1>2 DEF C!Asked, C!Answers

LEMMA ChatInvInit ==
    ASSUME C!Init
    PROVE  ChatInv
<1>. USE DEF C!Init
<1>1. log = <<>> /\ Len(log) = 0 /\ log \in Seq(C!Senders)
  OBVIOUS
<1>2. C!TypeOK
  <2>1. flight \in [C!Cursors -> C!Answers] /\ kept \in [C!Cursors -> C!Answers]
    BY NoneIs
  <2>2. page \in C!Pages /\ page.at # "open" /\ page.posting = "no"
    BY ClosedIs
  <2>3. Len(log) <= MaxMessages
    BY <1>1, PartsAssumption DEF C!MaxMessagesAssumption
  <2>4. \A c \in C!Cursors : flight[c] = C!None
    OBVIOUS
  <2>. QED  BY <1>1, <2>1, <2>2, <2>3, <2>4 DEF C!TypeOK
<1>3. page.shown = <<>> /\ Len(page.shown) = 0 /\ DOMAIN page.shown = {}
  BY ClosedIs
<1>. QED
  BY <1>2, <1>3, ClosedIs, NoneIs DEF ChatInv, LoadsAreOfLog, ShownIsOfLog, ReaderIsComplete,
     C!OthersShownOnce, ListIsUnderWay

(* A step that starts the page anew, with no load under way.               *)
LEMMA AfreshKeeps ==
    ASSUME ChatInv, UNCHANGED <<status, thread, log, kept>>,
           flight' = flight \/ flight' = [c \in C!Cursors |-> C!None],
           flight' = flight => page.at # "open",
           page' \in C!Pages, page'.at # "open", page'.shown = <<>>, ~page'.sent, page'.posting = "no",
           page'.at = "listing" => /\ page'.row = "no" => ~page'.had
                                   /\ page'.row = "COMPLETED" => status = "COMPLETED"
    PROVE  ChatInv'
<1>1. flight' = [c \in C!Cursors |-> C!None]
  BY DEF ChatInv, C!TypeOK
<1>2. C!TypeOK'
  BY <1>1, NoneIs DEF ChatInv, C!TypeOK
<1>3. Len(page'.shown) = 0 /\ DOMAIN page'.shown = {}
  OBVIOUS
<1>. QED
  BY <1>1, <1>2, <1>3, NoneIs DEF ChatInv, LoadsAreOfLog, ShownIsOfLog, ReaderIsComplete,
     C!OthersShownOnce, ListIsUnderWay

LEMMA OthersKept ==
    ASSUME C!OthersShownOnce, page'.shown = page.shown, DOMAIN page.shown = 1 .. Len(page.shown),
           \A i \in 1 .. Len(page.shown) : log'[page.shown[i]] = log[page.shown[i]]
    PROVE  C!OthersShownOnce'
BY DEF C!OthersShownOnce

(* A message is stored by the other party, or by the page.                 *)
LEMMA StoreKeeps ==
    ASSUME ChatInv, NEW who \in C!Senders, log' = Append(log, who), Len(log) < MaxMessages,
           UNCHANGED <<status, thread, flight, kept>>,
           \/ page' = page
           \/ who = "me" /\ page.at = "open"
              /\ page' = [page EXCEPT !.posting = "stored", !.posted = Len(log')]
    PROVE  ChatInv'
<1>. USE PageIs DEF ChatInv
<1>1. /\ log' \in Seq(C!Senders) /\ Len(log') = Len(log) + 1 /\ Len(log') \in C!Cursors
      /\ log'[Len(log')] = who /\ \A i \in 1 .. Len(log) : log'[i] = log[i]
  BY DEF C!Cursors
<1>2. /\ page' \in C!Pages /\ page'.at = page.at /\ page'.shown = page.shown
      /\ page'.sent = page.sent /\ page'.row = page.row /\ page'.had = page.had
      /\ \/ page'.posting = page.posting /\ page'.posted = page.posted
         \/ page.at = "open" /\ page'.posting = "stored" /\ page'.posted = Len(log') /\ who = "me"
  <2>. DEFINE n == Len(log')
  <2>. HIDE DEF n
  <2>1. n \in C!Cursors
    BY <1>1 DEF n
  <2>2. CASE page' = page
    BY <2>2 DEF C!TypeOK
  <2>3. CASE who = "me" /\ page.at = "open"
             /\ page' = [page EXCEPT !.posting = "stored", !.posted = n]
    <3>1. page' \in C!Pages
      BY <2>1, <2>3 DEF C!TypeOK, C!Pages
    <3>2. DOMAIN page = {"at", "row", "had", "shown", "canSend", "sent", "posting", "posted"}
      BY DEF C!TypeOK, C!Pages
    <3>. QED  BY <2>3, <3>1, <3>2 DEF n
  <2>. QED  BY <2>2, <2>3 DEF n
<1>3. C!TypeOK'
  BY <1>1, <1>2 DEF C!TypeOK
<1>4. LoadsAreOfLog'
  BY <1>1 DEF LoadsAreOfLog, C!TypeOK, C!Answers, C!Cursors
<1>5. ShownIsOfLog'
  BY <1>1, <1>2 DEF ShownIsOfLog, MessageSeq
<1>6. C!OthersShownOnce'
  <2>1. \A i \in 1 .. Len(page.shown) : page.shown[i] \in 1 .. Len(log)
    BY DEF ShownIsOfLog, MessageSeq
  <2>2. \A i \in 1 .. Len(page.shown) : log'[page.shown[i]] = log[page.shown[i]]
    BY <1>1, <2>1
  <2>3. page'.shown = page.shown /\ DOMAIN page.shown = 1 .. Len(page.shown)
    BY <1>2, PageIs
  <2>4. C!OthersShownOnce
    OBVIOUS
  <2>. QED  BY <2>2, <2>3, <2>4, OthersKept
<1>. QED  BY <1>2, <1>3, <1>4, <1>5, <1>6 DEF ReaderIsComplete, ListIsUnderWay

(* A step of the server, or of the page, that leaves the messages alone.   *)
LEMMA TurnKeeps ==
    ASSUME ChatInv, UNCHANGED <<log, flight, kept>>,
           status' \in {"ACTIVE", "COMPLETED"}, status = "COMPLETED" => status' = "COMPLETED",
           thread' \in BOOLEAN, thread => thread',
           page' # page => page' \in C!Pages /\ page'.posting # "stored" /\ page'.at # "listing",
           page'.shown = page.shown, page'.sent = page.sent,
           page'.at = "open" => thread',
           page'.at # "open" => page.at # "open" /\ page'.posting = "no"
    PROVE  ChatInv'
<1>1. C!TypeOK'
  BY DEF ChatInv, C!TypeOK
<1>2. ListIsUnderWay'
  BY DEF ChatInv, ListIsUnderWay
<1>. QED
  BY <1>1, <1>2 DEF ChatInv, LoadsAreOfLog, ShownIsOfLog, ReaderIsComplete, C!OthersShownOnce

(* What an answer makes of what is shown.                                  *)
LEMMA ApplyIs ==
    ASSUME ChatInv, NEW c \in C!Cursors, NEW reply \in C!Answers, C!Apply(c, reply),
           c <= reply.upto, reply.upto <= Len(log), ~page.sent => c <= Len(page.shown),
           UNCHANGED log
    PROVE  /\ page' \in C!Pages
           /\ page'.at = page.at /\ page'.sent = page.sent /\ page'.row = page.row
           /\ page'.had = page.had /\ page'.posting = page.posting /\ page'.posted = page.posted
           /\ ShownIsOfLog' /\ C!OthersShownOnce'
           /\ ~page.sent => /\ \A i \in 1 .. Len(page'.shown) : page'.shown[i] = i
                            /\ c # 0 => Len(page.shown) <= Len(page'.shown)
<1>. USE PageIs DEF ChatInv
<1>. DEFINE old == IF c = 0 THEN <<>> ELSE page.shown
            new == C!Merged(page.shown, c, reply)
<1>0. c \in Nat /\ Len(page.shown) \in Nat
  BY DEF C!Cursors
<1>1. reply.upto \in C!Cursors /\ reply.active \in BOOLEAN
  BY DEF C!Answers
<1>2. Continues(old, c, reply.upto, new)
  BY <1>1, MergedContinues
<1>3. /\ new \in MessageSeq /\ Len(new) \in Nat /\ DOMAIN new = 1 .. Len(new)
      /\ old \in MessageSeq /\ Len(old) \in Nat
  <2>1. new \in MessageSeq
    BY <1>2 DEF Continues
  <2>2. old \in MessageSeq
    BY <<>> \in MessageSeq DEF MessageSeq
  <2>. HIDE DEF new, old
  <2>. QED  BY <2>1, <2>2 DEF MessageSeq
<1>4. page' = [page EXCEPT !.shown = new, !.canSend = reply.active]
  BY DEF C!Apply
<1>5. /\ \A i \in 1 .. Len(old) : old[i] = page.shown[i] /\ old[i] <= Len(log)
      /\ Len(old) <= Len(page.shown)
      /\ c # 0 => Len(old) = Len(page.shown)
  <2>1. CASE c = 0
    <3>1. Len(old) = 0
      BY <2>1
    <3>. HIDE DEF old
    <3>. QED  BY <2>1, <3>1
  <2>2. CASE c # 0
    BY <2>2 DEF ShownIsOfLog
  <2>. QED  BY <2>1, <2>2
<1>. HIDE DEF old, new
<1>6. page' \in C!Pages
  BY <1>1, <1>3, <1>4 DEF C!TypeOK, C!Pages, MessageSeq
<1>7. /\ page'.at = page.at /\ page'.sent = page.sent /\ page'.row = page.row
      /\ page'.had = page.had /\ page'.posting = page.posting /\ page'.posted = page.posted
      /\ page'.shown = new
  BY <1>4 DEF C!TypeOK, C!Pages
<1>8. ShownIsOfLog'
  <2>1. ASSUME NEW i \in 1 .. Len(new)  PROVE new[i] <= Len(log)
    <3>1. CASE i \in 1 .. Len(old)
      BY <1>2, <1>5, <3>1 DEF Continues
    <3>2. CASE i > Len(old)
      <4>1. new[i] \in c + 1 .. reply.upto
        BY <1>2, <3>2 DEF Continues
      <4>. QED  BY <1>1, <4>1 DEF C!Cursors
    <3>. QED  BY <1>3, <3>1, <3>2
  <2>. QED  BY <1>7, <2>1 DEF ShownIsOfLog
<1>9. C!OthersShownOnce'
  <2>. SUFFICES ASSUME NEW i \in 1 .. Len(new), NEW j \in 1 .. Len(new), i < j,
                       new[i] = new[j], log[new[i]] = "them"
                PROVE  FALSE
    <3>1. ASSUME NEW i \in 1 .. Len(new), NEW j \in 1 .. Len(new),
                 new[i] = new[j], log[new[i]] = "them", i # j  PROVE FALSE
      BY <1>3, <3>1
    <3>. QED  BY <1>3, <1>7, <3>1 DEF C!OthersShownOnce
  <2>1. \A k \in 1 .. Len(new) : new[k] \in Nat
    BY <1>3 DEF MessageSeq
  <2>2. CASE j \in 1 .. Len(old)
    <3>1. i \in 1 .. Len(old) /\ new[i] = page.shown[i] /\ new[j] = page.shown[j]
      BY <1>2, <1>3, <1>5, <2>2 DEF Continues
    <3>2. i \in 1 .. Len(page.shown) /\ j \in 1 .. Len(page.shown)
      BY <1>0, <1>3, <1>5, <2>2, <3>1
    <3>3. i = j
      BY <3>1, <3>2 DEF C!OthersShownOnce
    <3>. QED  BY <3>3
  <2>3. CASE j > Len(old) /\ i \in 1 .. Len(old)
    BY <1>2, <2>3 DEF Continues
  <2>4. CASE i > Len(old)
    BY <1>2, <2>1, <2>4 DEF Continues
  <2>. QED  BY <1>3, <2>2, <2>3, <2>4
<1>10. ASSUME ~page.sent
       PROVE  /\ \A i \in 1 .. Len(new) : new[i] = i
              /\ c # 0 => Len(page.shown) <= Len(new)
  <2>1. c <= Len(old)
    <3>1. CASE c = 0
      BY <1>0, <1>3, <3>1
    <3>2. CASE c # 0
      BY <1>0, <1>5, <1>10, <3>2
    <3>. QED  BY <3>1, <3>2
  <2>2. \A i \in 1 .. Len(old) : old[i] = i
    BY <1>3, <1>5, <1>10 DEF ReaderIsComplete
  <2>. QED  BY <1>2, <1>5, <2>1, <2>2 DEF Continues
<1>. QED  BY <1>6, <1>7, <1>8, <1>9, <1>10

(* The cursor is the last message shown; until the page sends one itself,  *)
(* that is their number.                                                   *)
LEMMA CursorIs ==
    ASSUME ChatInv
    PROVE  /\ C!Cursor \in C!Cursors /\ C!Cursor <= Len(log)
           /\ C!Cursor = 0 <=> page.shown = <<>>
           /\ ~page.sent => C!Cursor = Len(page.shown)
<1>. USE PageIs DEF ChatInv
<1>1. CASE page.shown = <<>>
  <2>1. C!Cursor = 0 /\ Len(page.shown) = 0
    BY <1>1 DEF C!Cursor
  <2>. QED  BY <1>1, <2>1 DEF C!Cursors
<1>2. CASE page.shown # <<>>
  <2>. DEFINE n == Len(page.shown)
  <2>1. n \in 1 .. n
    BY <1>2 DEF MessageSeq
  <2>2. C!Cursor = page.shown[n]
    BY <1>2 DEF C!Cursor, C!Last
  <2>3. page.shown[n] \in 1 .. MaxMessages /\ page.shown[n] <= Len(log)
    BY <2>1 DEF MessageSeq, ShownIsOfLog
  <2>4. ~page.sent => page.shown[n] = n
    BY <2>1 DEF ReaderIsComplete
  <2>. QED  BY <1>2, <2>2, <2>3, <2>4 DEF C!Cursors
<1>. QED  BY <1>1, <1>2

LEMMA PollKeeps ==
    ASSUME ChatInv, C!Poll
    PROVE  ChatInv'
<1>. USE DEF ChatInv
<1>. DEFINE c == C!Cursor
<1>1. /\ c \in C!Cursors /\ c <= Len(log) /\ (c = 0 <=> page.shown = <<>>)
      /\ ~page.sent => c = Len(page.shown)
  BY CursorIs
<1>2. page.at = "open" /\ UNCHANGED <<status, thread, log, kept>>
  BY DEF C!Poll, C!server
<1>3. CASE kept[c] # C!None /\ C!Apply(c, kept[c]) /\ UNCHANGED flight
  <2>. HIDE DEF c
  <2>1. kept[c] \in C!Answers /\ c <= kept[c].upto /\ kept[c].upto <= Len(log)
        /\ (~page.sent => c <= Len(page.shown))
    BY <1>1, <1>3, PageIs DEF C!TypeOK, LoadsAreOfLog
  <2>2. /\ page' \in C!Pages
        /\ page'.at = page.at /\ page'.sent = page.sent /\ page'.row = page.row
        /\ page'.had = page.had /\ page'.posting = page.posting /\ page'.posted = page.posted
        /\ ShownIsOfLog' /\ C!OthersShownOnce'
        /\ ~page.sent => /\ \A i \in 1 .. Len(page'.shown) : page'.shown[i] = i
                         /\ c # 0 => Len(page.shown) <= Len(page'.shown)
    BY <1>1, <1>2, <1>3, <2>1, ApplyIs
  <2>3. C!TypeOK'
    BY <1>2, <1>3, <2>2 DEF C!TypeOK
  <2>4. LoadsAreOfLog'
    BY <1>2, <1>3 DEF LoadsAreOfLog
  <2>5. ReaderIsComplete'
    <3>. SUFFICES ASSUME ~page.sent, NEW d \in C!Cursors, flight[d] # C!None
                  PROVE  d <= Len(page'.shown) /\ (d = 0 => page'.shown = <<>>)
      BY <1>3, <2>2 DEF ReaderIsComplete
    <3>1. d <= Len(page.shown) /\ (d = 0 => page.shown = <<>>)
      BY DEF ReaderIsComplete
    <3>2. d # c
      BY <1>3 DEF LoadsAreOfLog
    <3>3. d \in Nat /\ c \in Nat
      BY <1>1 DEF C!Cursors
    <3>4. c # 0 /\ d # 0
      BY <1>1, <3>1, <3>2, <3>3
    <3>5. Len(page'.shown) \in Nat /\ Len(page.shown) \in Nat
      BY <2>2, PageIs DEF C!Pages
    <3>. QED  BY <2>2, <3>1, <3>3, <3>4, <3>5
  <2>. QED  BY <1>2, <2>2, <2>3, <2>4, <2>5 DEF ListIsUnderWay
<1>4. CASE kept[c] = C!None /\ flight[c] = C!None
           /\ flight' = [flight EXCEPT ![c] = C!Asked] /\ UNCHANGED page
  <2>. HIDE DEF c
  <2>1. flight' \in [C!Cursors -> C!Answers] /\ flight'[c].state = "asked"
        /\ \A d \in C!Cursors \ {c} : flight'[d] = flight[d]
    BY <1>1, <1>4, NoneIs DEF C!TypeOK
  <2>2. C!TypeOK'
    BY <1>2, <1>4, <2>1 DEF C!TypeOK
  <2>3. LoadsAreOfLog'
    BY <1>1, <1>2, <1>4, <2>1 DEF LoadsAreOfLog
  <2>4. ReaderIsComplete'
    BY <1>1, <1>4, <2>1, PageIs DEF ReaderIsComplete
  <2>. QED  BY <1>2, <1>4, <2>2, <2>3, <2>4 DEF ShownIsOfLog, C!OthersShownOnce, ListIsUnderWay
<1>. QED  BY <1>3, <1>4 DEF C!Poll

LEMMA ListMessagesKeeps ==
    ASSUME ChatInv, NEW c \in C!Cursors, C!ListMessages(c)
    PROVE  ChatInv'
<1>. USE PageIs DEF ChatInv
<1>. DEFINE reply == [state |-> "read", upto |-> C!PageEnd(c, Len(log)), active |-> C!Active]
<1>1. /\ flight[c] = C!Asked /\ flight' = [flight EXCEPT ![c] = reply]
      /\ UNCHANGED <<status, thread, log, page, kept>>
  BY DEF C!ListMessages, C!server
<1>2. flight[c] # C!None
  BY <1>1, NoneIs
<1>3. c <= Len(log)
  BY <1>2 DEF LoadsAreOfLog
<1>4. C!PageEnd(c, Len(log)) \in c .. Len(log) /\ c \in Nat
  BY <1>3, PartsAssumption DEF C!PageEnd, C!Cursors, C!LimitsAssumption
<1>5. reply \in C!Answers /\ reply.state = "read"
      /\ c <= reply.upto /\ reply.upto <= Len(log)
  BY <1>4 DEF C!Answers, C!Cursors, C!Active
<1>. HIDE DEF reply
<1>6. flight' \in [C!Cursors -> C!Answers] /\ flight'[c] = reply
      /\ \A d \in C!Cursors \ {c} : flight'[d] = flight[d]
  BY <1>1, <1>5 DEF C!TypeOK
<1>7. page.at = "open"
  BY <1>2 DEF C!TypeOK
<1>8. C!TypeOK'
  BY <1>1, <1>6, <1>7 DEF C!TypeOK
<1>9. LoadsAreOfLog'
  BY <1>1, <1>2, <1>5, <1>6 DEF LoadsAreOfLog
<1>10. ReaderIsComplete'
  BY <1>1, <1>2, <1>6 DEF ReaderIsComplete
<1>. QED  BY <1>1, <1>8, <1>9, <1>10 DEF ShownIsOfLog, C!OthersShownOnce, ListIsUnderWay

LEMMA ArriveKeeps ==
    ASSUME ChatInv, NEW c \in C!Cursors, C!Arrive(c)
    PROVE  ChatInv'
<1>. USE DEF ChatInv
<1>1. /\ flight[c].state = "read" /\ C!Apply(c, flight[c])
      /\ kept' = [kept EXCEPT ![c] = flight[c]] /\ flight' = [flight EXCEPT ![c] = C!None]
      /\ UNCHANGED <<status, thread, log>>
  BY DEF C!Arrive, C!server
<1>2. flight[c] # C!None /\ page.at = "open"
  BY <1>1, NoneIs DEF C!TypeOK
<1>3. flight[c] \in C!Answers /\ c <= flight[c].upto /\ flight[c].upto <= Len(log)
      /\ (~page.sent => c <= Len(page.shown) /\ (c = 0 => page.shown = <<>>))
  BY <1>1, <1>2 DEF C!TypeOK, LoadsAreOfLog, ReaderIsComplete
<1>4. /\ page' \in C!Pages
      /\ page'.at = page.at /\ page'.sent = page.sent /\ page'.row = page.row
      /\ page'.had = page.had /\ page'.posting = page.posting /\ page'.posted = page.posted
      /\ ShownIsOfLog' /\ C!OthersShownOnce'
      /\ ~page.sent => /\ \A i \in 1 .. Len(page'.shown) : page'.shown[i] = i
                       /\ c # 0 => Len(page.shown) <= Len(page'.shown)
  BY <1>1, <1>3, ApplyIs
<1>5. /\ kept' \in [C!Cursors -> C!Answers] /\ kept'[c] = flight[c]
      /\ flight' \in [C!Cursors -> C!Answers] /\ flight'[c] = C!None
      /\ \A d \in C!Cursors \ {c} : flight'[d] = flight[d] /\ kept'[d] = kept[d]
  BY <1>1, <1>3, NoneIs DEF C!TypeOK
<1>6. C!TypeOK'
  BY <1>1, <1>2, <1>4, <1>5 DEF C!TypeOK
<1>7. LoadsAreOfLog'
  BY <1>1, <1>3, <1>5, NoneIs DEF LoadsAreOfLog
<1>8. ReaderIsComplete'
  <2>. SUFFICES ASSUME ~page.sent, NEW d \in C!Cursors, d # c, flight[d] # C!None
                PROVE  d <= Len(page'.shown) /\ (d = 0 => page'.shown = <<>>)
    BY <1>4, <1>5 DEF ReaderIsComplete
  <2>1. d <= Len(page.shown) /\ (d = 0 => page.shown = <<>>)
    BY DEF ReaderIsComplete
  <2>2. d \in Nat /\ c \in Nat /\ Len(page'.shown) \in Nat /\ Len(page.shown) \in Nat
        /\ (page.shown = <<>> => Len(page.shown) = 0)
    BY <1>4, PageIs DEF C!Pages, C!Cursors
  <2>3. c # 0 /\ d # 0
    BY <1>3, <2>1, <2>2
  <2>. QED  BY <1>4, <2>1, <2>2, <2>3
<1>. QED  BY <1>1, <1>2, <1>4, <1>6, <1>7, <1>8 DEF ListIsUnderWay

LEMMA ExpireKeeps ==
    ASSUME ChatInv, NEW c \in C!Cursors, C!Expire(c)
    PROVE  ChatInv'
<1>1. /\ UNCHANGED <<status, thread, log, page, flight>> /\ kept' = [kept EXCEPT ![c] = C!None]
  BY DEF C!Expire, C!server
<1>2. /\ kept' \in [C!Cursors -> C!Answers] /\ kept'[c] = C!None
      /\ \A d \in C!Cursors \ {c} : kept'[d] = kept[d]
  BY <1>1, NoneIs DEF ChatInv, C!TypeOK
<1>3. C!TypeOK'
  BY <1>1, <1>2 DEF ChatInv, C!TypeOK
<1>4. LoadsAreOfLog'
  BY <1>1, <1>2 DEF ChatInv, LoadsAreOfLog
<1>. QED
  BY <1>1, <1>3, <1>4 DEF ChatInv, ShownIsOfLog, ReaderIsComplete, C!OthersShownOnce, ListIsUnderWay

(* The page shows the message that it sent, which is its own.              *)
LEMMA PostReturnKeeps ==
    ASSUME ChatInv, C!PostReturn
    PROVE  ChatInv'
<1>. USE PageIs DEF ChatInv
<1>. DEFINE m == page.posted
            new == Append(page.shown, m)
<1>1. /\ page.posting = "stored" /\ UNCHANGED <<status, thread, log, flight, kept>>
      /\ page' = [page EXCEPT !.shown = new, !.sent = TRUE, !.posting = "no", !.posted = 0]
  BY DEF C!PostReturn, C!server
<1>2. m \in 1 .. Len(log) /\ log[m] = "me" /\ m \in 1 .. MaxMessages /\ page.at = "open"
  BY <1>1 DEF ShownIsOfLog, C!TypeOK
<1>3. /\ new \in MessageSeq /\ Len(new) = Len(page.shown) + 1 /\ DOMAIN new = 1 .. Len(new)
      /\ new[Len(new)] = m /\ \A i \in 1 .. Len(page.shown) : new[i] = page.shown[i]
  <2>. HIDE DEF m
  <2>. QED  BY <1>2 DEF MessageSeq
<1>. HIDE DEF m, new
<1>4. /\ page' \in C!Pages /\ page'.at = "open" /\ page'.shown = new /\ page'.sent = TRUE
      /\ page'.posting = "no"
  <2>1. 0 \in C!Cursors
    BY DEF C!Cursors
  <2>. QED  BY <1>1, <1>2, <1>3, <2>1 DEF C!TypeOK, C!Pages, MessageSeq
<1>5. C!TypeOK'
  BY <1>1, <1>2, <1>4 DEF C!TypeOK
<1>6. ShownIsOfLog'
  <2>1. \A i \in 1 .. Len(new) : i = Len(new) \/ i \in 1 .. Len(page.shown)
    BY <1>3
  <2>. QED  BY <1>1, <1>2, <1>3, <1>4, <2>1 DEF ShownIsOfLog
<1>7. C!OthersShownOnce'
  <2>. SUFFICES ASSUME NEW i \in 1 .. Len(new), NEW j \in 1 .. Len(new),
                       new[i] = new[j], log[new[i]] = "them"
                PROVE  i = j
    BY <1>1, <1>3, <1>4 DEF C!OthersShownOnce
  <2>1. i # Len(new) /\ j # Len(new)
    BY <1>2, <1>3
  <2>2. i \in 1 .. Len(page.shown) /\ j \in 1 .. Len(page.shown)
    BY <1>3, <2>1
  <2>. QED  BY <1>3, <2>2 DEF C!OthersShownOnce
<1>. QED  BY <1>1, <1>4, <1>5, <1>6, <1>7 DEF LoadsAreOfLog, ReaderIsComplete, ListIsUnderWay

(* A step of the page between the two queries of the list says the truth.  *)
ListedTruly ==
    page.at = "listing" /\ page'.at = "list" =>
        /\ page'.row = "no" => thread # page.had \/ (~thread /\ ~C!Active)
        /\ page'.row = "COMPLETED" => ~C!Active

LEMMA ChatInvStep ==
    ASSUME ChatInv, [C!Next]_chatVars
    PROVE  ChatInv' /\ ListedTruly
<1>. USE PageIs DEF C!server
<1>t. C!TypeOK /\ ShownIsOfLog /\ ListIsUnderWay
  BY DEF ChatInv
<1>d. DOMAIN page = {"at", "row", "had", "shown", "canSend", "sent", "posting", "posted"}
  BY <1>t DEF C!TypeOK, C!Pages
<1>0. 0 \in C!Cursors
  BY <1>t DEF C!Cursors
<1>1. CASE C!Complete \/ C!TheirOpen
  <2>1. page' = page /\ UNCHANGED <<log, flight, kept>>
    BY <1>1 DEF C!Complete, C!TheirOpen
  <2>2. /\ status' \in {"ACTIVE", "COMPLETED"} /\ (status = "COMPLETED" => status' = "COMPLETED")
        /\ thread' \in BOOLEAN /\ (thread => thread')
    BY <1>1, <1>t DEF C!Complete, C!TheirOpen, C!TypeOK, C!Active
  <2>3. page'.shown = page.shown /\ page'.sent = page.sent
        /\ (page'.at = "open" => thread')
        /\ (page'.at # "open" => page.at # "open" /\ page'.posting = "no")
    BY <1>t, <2>1, <2>2 DEF C!TypeOK
  <2>4. ChatInv'
    BY <2>1, <2>2, <2>3, TurnKeeps
  <2>. QED  BY <2>1, <2>4 DEF ListedTruly
<1>2. CASE C!TheirPost
  BY <1>2, StoreKeeps DEF C!TheirPost, C!Senders, ListedTruly
<1>3. CASE C!PostInsert
  <2>1. page.at = "open"
    BY <1>3, <1>t DEF C!PostInsert, C!TypeOK
  <2>. QED  BY <1>3, <2>1, StoreKeeps DEF C!PostInsert, C!Senders, ListedTruly
<1>4. CASE C!ListThreads
  <2>1. page' = [C!Closed EXCEPT !.at = "listing", !.row = C!RowOf, !.had = thread]
    BY <1>4 DEF C!ListThreads
  <2>2. C!RowOf \in C!Rows /\ thread \in BOOLEAN
        /\ (C!RowOf = "no" => ~thread) /\ (C!RowOf = "COMPLETED" => status = "COMPLETED")
    BY <1>t DEF C!RowOf, C!Rows, C!TypeOK
  <2>3. /\ page' \in C!Pages /\ page'.at = "listing" /\ page'.row = C!RowOf /\ page'.had = thread
        /\ page'.shown = <<>> /\ ~page'.sent /\ page'.posting = "no"
    <3>. QED  BY <2>1, <2>2, ClosedIs DEF C!Pages
  <2>4. page.at # "open" /\ page.at # "listing" /\ UNCHANGED <<status, thread, log, flight, kept>>
    BY <1>4 DEF C!ListThreads
  <2>. QED  BY <2>2, <2>3, <2>4, AfreshKeeps DEF ListedTruly
<1>5. CASE C!ListUnopened
  <2>. DEFINE row1 == IF page.row = "no" /\ C!Active /\ ~thread THEN "ACTIVE" ELSE page.row
  <2>1. page.at = "listing" /\ page' = [page EXCEPT !.at = "list", !.row = row1]
        /\ UNCHANGED <<status, thread, log, flight, kept>>
    BY <1>5 DEF C!ListUnopened
  <2>2. row1 \in C!Rows
    BY <1>t DEF C!Rows
  <2>3. page.posting = "no"
    BY <1>t, <2>1 DEF C!TypeOK
  <2>4. /\ page' \in C!Pages /\ page'.at = "list" /\ page'.row = row1 /\ page'.shown = page.shown
        /\ page'.sent = page.sent /\ page'.posting = "no"
    <3>. HIDE DEF row1
    <3>. QED  BY <1>t, <1>d, <2>1, <2>2, <2>3 DEF C!TypeOK, C!Pages
  <2>5. ListedTruly
    BY <1>t, <2>1, <2>4 DEF ListedTruly, ListIsUnderWay, C!Active, C!TypeOK
  <2>. QED  BY <1>t, <2>1, <2>4, <2>5, TurnKeeps DEF C!TypeOK
<1>6. CASE C!Open
  <2>1. page' = [C!Closed EXCEPT !.at = "opening"] /\ UNCHANGED <<status, thread, log, flight, kept>>
        /\ page.at \in {"closed", "refused", "list"}
    BY <1>6 DEF C!Open
  <2>2. /\ page' \in C!Pages /\ page'.at = "opening"
        /\ page'.shown = <<>> /\ ~page'.sent /\ page'.posting = "no"
    BY <2>1, ClosedIs DEF C!Pages
  <2>. QED  BY <2>1, <2>2, AfreshKeeps DEF ListedTruly
<1>7. CASE C!OpenRead
  <2>. DEFINE at1 == IF thread THEN "open" ELSE IF C!Active THEN "creating" ELSE "refused"
  <2>1. page.at = "opening" /\ page' = [page EXCEPT !.at = at1, !.canSend = thread /\ C!Active]
        /\ UNCHANGED <<status, thread, log, flight, kept>>
    BY <1>7 DEF C!OpenRead
  <2>2. page.posting = "no" /\ (thread /\ C!Active) \in BOOLEAN
        /\ at1 \in {"open", "creating", "refused"} /\ (at1 = "open" => thread)
    BY <1>t, <2>1 DEF C!TypeOK
  <2>3. /\ page' \in C!Pages /\ page'.at = at1 /\ page'.shown = page.shown
        /\ page'.sent = page.sent /\ page'.posting = "no"
    <3>. HIDE DEF at1
    <3>. QED  BY <1>t, <1>d, <2>1, <2>2 DEF C!TypeOK, C!Pages
  <2>. HIDE DEF at1
  <2>. QED  BY <1>t, <2>1, <2>2, <2>3, TurnKeeps DEF C!TypeOK, ListedTruly
<1>8. CASE C!OpenCreate
  <2>1. page.at = "creating" /\ UNCHANGED <<status, log, flight, kept>>
        /\ \/ thread' = TRUE /\ page' = [page EXCEPT !.at = "open", !.canSend = TRUE]
           \/ thread' = thread /\ page' = [page EXCEPT !.at = "opening"]
    BY <1>8 DEF C!OpenCreate
  <2>2. page.posting = "no"
    BY <1>t, <2>1 DEF C!TypeOK
  <2>3. /\ page' \in C!Pages /\ page'.at \in {"open", "opening"} /\ page'.shown = page.shown
        /\ page'.sent = page.sent /\ page'.posting = "no"
        /\ page'.at = "open" => thread'
    BY <1>t, <1>d, <2>1, <2>2 DEF C!TypeOK, C!Pages
  <2>4. thread' \in BOOLEAN /\ (thread => thread')
    BY <1>t, <2>1 DEF C!TypeOK
  <2>. QED  BY <1>t, <2>1, <2>3, <2>4, TurnKeeps DEF C!TypeOK, ListedTruly
<1>9. CASE C!Leave
  <2>1. page' = C!Closed /\ flight' = [c \in C!Cursors |-> C!None] /\ page.at = "open"
        /\ UNCHANGED <<status, thread, log, kept>>
    BY <1>9 DEF C!Leave
  <2>2. C!TypeOK' /\ page'.at = "closed"
    BY <1>t, <2>1, ClosedIs, NoneIs DEF C!TypeOK
  <2>3. Len(page'.shown) = 0 /\ DOMAIN page'.shown = {} /\ page'.posting = "no"
    BY <2>1, ClosedIs
  <2>. QED
    BY <2>1, <2>2, <2>3, NoneIs DEF ChatInv, LoadsAreOfLog, ShownIsOfLog, ReaderIsComplete,
       C!OthersShownOnce, ListIsUnderWay, ListedTruly
<1>10. CASE C!Poll
  <2>1. page.at = "open"
    BY <1>10 DEF C!Poll
  <2>. QED  BY <1>10, <2>1, PollKeeps DEF ListedTruly
<1>11. CASE C!PostCheck \/ C!PostLost
  <2>1. page.at = "open" /\ UNCHANGED <<status, thread, log, flight, kept>>
        /\ \/ page' = [page EXCEPT !.posting = "checked"]
           \/ page' = [page EXCEPT !.posting = "no", !.posted = 0]
    BY <1>11, <1>t DEF C!PostCheck, C!PostLost, C!TypeOK
  <2>2. /\ page' \in C!Pages /\ page'.at = "open" /\ page'.shown = page.shown
        /\ page'.sent = page.sent /\ page'.posting # "stored"
    <3>1. CASE page' = [page EXCEPT !.posting = "checked"]
      BY <1>t, <1>d, <2>1, <3>1 DEF C!TypeOK, C!Pages
    <3>2. CASE page' = [page EXCEPT !.posting = "no", !.posted = 0]
      BY <1>t, <1>d, <1>0, <2>1, <3>2 DEF C!TypeOK, C!Pages
    <3>. QED  BY <2>1, <3>1, <3>2
  <2>. QED  BY <1>t, <2>1, <2>2, TurnKeeps DEF C!TypeOK, ListedTruly
<1>12. CASE C!PostReturn
  <2>1. page.at = "open"
    BY <1>12, <1>t DEF C!PostReturn, C!TypeOK
  <2>. QED  BY <1>12, <2>1, PostReturnKeeps DEF ListedTruly
<1>13. ASSUME NEW c \in C!Cursors, C!ListMessages(c)  PROVE ChatInv' /\ ListedTruly
  BY <1>13, ListMessagesKeeps DEF ListedTruly, C!ListMessages
<1>14. ASSUME NEW c \in C!Cursors, C!Arrive(c)  PROVE ChatInv' /\ ListedTruly
  <2>1. page.at = "open"
    BY <1>14, <1>t, NoneIs DEF C!Arrive, C!TypeOK
  <2>. QED  BY <1>14, <2>1, ArriveKeeps DEF ListedTruly
<1>15. ASSUME NEW c \in C!Cursors, C!Expire(c)  PROVE ChatInv' /\ ListedTruly
  BY <1>15, ExpireKeeps DEF ListedTruly, C!Expire
<1>16. CASE UNCHANGED chatVars
  BY <1>16 DEF chatVars, ChatInv, C!TypeOK, LoadsAreOfLog, ShownIsOfLog, ReaderIsComplete,
     C!OthersShownOnce, ListIsUnderWay, ListedTruly
<1>. QED
  BY <1>1, <1>2, <1>3, <1>4, <1>5, <1>6, <1>7, <1>8, <1>9, <1>10, <1>11, <1>12, <1>13, <1>14,
     <1>15, <1>16 DEF C!Next

ChatPart == part = "chat" => ChatInv

LEMMA ChatPartHolds ==
    /\ Init => ChatPart
    /\ ChatPart /\ [Next]_<<part, parts>> => ChatPart' /\ [ListedTruly]_chatVars
<1>1. Init => ChatPart
  BY ChatInvInit DEF Init, ChatPart
<1>2. ChatPart /\ [Next]_<<part, parts>> => ChatPart' /\ [ListedTruly]_chatVars
  <2>. SUFFICES ASSUME ChatPart, [Next]_<<part, parts>>
                PROVE  ChatPart' /\ [ListedTruly]_chatVars
    OBVIOUS
  <2>1. CASE ChatNext
    BY <2>1, ChatInvStep DEF ChatNext, ChatPart
  <2>2. CASE UNCHANGED <<part, chatVars>>
    <3>1. part = "chat" => ChatInv'
      BY <2>2, ChatInvStep DEF ChatPart
    <3>. QED  BY <2>2, <3>1 DEF ChatPart
  <2>3. part' = part /\ (~ChatNext => UNCHANGED chatVars)
    BY DEF Next, ChatNext, FormNext, DealNext, AfterNext, WizardNext, PayNext, parts
  <2>. QED  BY <2>1, <2>2, <2>3
<1>. QED  BY <1>1, <1>2

(* Until it sends a message itself a page shows the oldest messages, in    *)
(* order, none twice and none left out, and it shows a message of the      *)
(* other party once, whatever loads, kept answers and posts interleave.    *)
THEOREM ReaderStaysComplete == Spec => []ReaderMissesNothing
<1>1. ChatPart => ReaderMissesNothing
  <2>. SUFFICES ASSUME ChatInv  PROVE C!TypeOK /\ C!ReaderMissesNothing /\ C!OthersShownOnce
    BY DEF ChatPart, ReaderMissesNothing
  <2>1. DOMAIN page.shown = 1 .. Len(page.shown)
    BY PageIs DEF ChatInv
  <2>. QED  BY <2>1 DEF ChatInv, ReaderIsComplete, C!ReaderMissesNothing
<1>2. ChatPart /\ [Next]_<<part, parts>> => ChatPart'
  BY ChatPartHolds
<1>. QED  BY <1>1, <1>2, ChatPartHolds, PTL DEF Spec

-----------------------------------------------------------------------------
(* The ratings, and the disputes. *)

(* What the sum of the scores goes through, one set of ratings after       *)
(* another.                                                                *)
Picked(s) == CHOOSE entry \in s : TRUE

SumSteps(f, sets) ==
    [s \in sets |-> IF s = {} THEN 0 ELSE Picked(s).score + f[s \ {Picked(s)}]]

UpTo(entries, k) == {s \in SUBSET entries : Cardinality(s) <= k}

LEMMA PickedLeaves ==
    ASSUME NEW s, IsFiniteSet(s), s # {}
    PROVE  /\ Picked(s) \in s
           /\ s \ {Picked(s)} \subseteq s
           /\ Cardinality(s \ {Picked(s)}) = Cardinality(s) - 1
           /\ Cardinality(s) \in Nat \ {0}
<1>1. Picked(s) \in s
  BY DEF Picked
<1>2. Cardinality(s) \in Nat /\ Cardinality(s) # 0
  BY FS_CardinalityType, FS_EmptySet
<1>3. Cardinality(s \ {Picked(s)}) = Cardinality(s) - 1
  BY <1>1, FS_RemoveElement
<1>. QED  BY <1>1, <1>2, <1>3

LEMMA SumStepsExist ==
    ASSUME NEW entries, IsFiniteSet(entries)
    PROVE  \E f : f = SumSteps(f, SUBSET entries)
<1>. DEFINE S == {k \in Nat : \E f : f = SumSteps(f, UpTo(entries, k))}
<1>0. \A s \in SUBSET entries : IsFiniteSet(s) /\ Cardinality(s) \in Nat /\ Cardinality(s) <= Cardinality(entries)
  BY FS_Subset, FS_CardinalityType
<1>1. 0 \in S
  <2>. DEFINE f == [s \in UpTo(entries, 0) |-> 0]
  <2>1. \A s \in UpTo(entries, 0) : s = {}
    BY <1>0, FS_EmptySet DEF UpTo
  <2>2. f = SumSteps(f, UpTo(entries, 0))
    BY <2>1 DEF SumSteps
  <2>. HIDE DEF f
  <2>. QED  BY <2>2
<1>2. ASSUME NEW k \in S  PROVE k + 1 \in S
  <2>1. PICK f : f = SumSteps(f, UpTo(entries, k))
    BY <1>2
  <2>. DEFINE g == [s \in UpTo(entries, k + 1) |->
                       IF Cardinality(s) = k + 1
                       THEN Picked(s).score + f[s \ {Picked(s)}] ELSE f[s]]
  <2>2. \A s \in UpTo(entries, k) : f[s] = IF s = {} THEN 0 ELSE Picked(s).score + f[s \ {Picked(s)}]
    BY <2>1 DEF SumSteps
  <2>3. \A s \in UpTo(entries, k + 1) :
           g[s] = IF s = {} THEN 0 ELSE Picked(s).score + g[s \ {Picked(s)}]
    <3>. TAKE s \in UpTo(entries, k + 1)
    <3>1. k \in Nat /\ Cardinality(s) \in Nat /\ Cardinality(s) <= k + 1 /\ IsFiniteSet(s) /\ s \in SUBSET entries
      BY <1>0, <1>2 DEF UpTo
    <3>2. CASE s = {}
      <4>1. Cardinality(s) = 0
        BY <3>2, FS_EmptySet
      <4>2. Cardinality(s) # k + 1 /\ s \in UpTo(entries, k)
        BY <3>1, <4>1 DEF UpTo
      <4>3. g[s] = f[s]
        BY <4>2
      <4>. QED  BY <2>2, <3>2, <4>2, <4>3
    <3>3. CASE s # {}
      <4>. DEFINE t == s \ {Picked(s)}
      <4>1. Cardinality(t) = Cardinality(s) - 1 /\ t \in SUBSET entries
        BY <3>1, <3>3, PickedLeaves
      <4>2. t \in UpTo(entries, k) /\ t \in UpTo(entries, k + 1) /\ Cardinality(t) # k + 1
        BY <3>1, <4>1 DEF UpTo
      <4>3. g[t] = f[t]
        BY <4>2
      <4>4. CASE Cardinality(s) = k + 1
        BY <3>3, <4>3, <4>4
      <4>5. CASE Cardinality(s) # k + 1
        <5>1. s \in UpTo(entries, k)
          BY <3>1, <4>5 DEF UpTo
        <5>. QED  BY <2>2, <3>3, <4>3, <4>5, <5>1
      <4>. QED  BY <4>4, <4>5
    <3>. QED  BY <3>2, <3>3
  <2>4. g = [s \in UpTo(entries, k + 1) |-> g[s]]
    OBVIOUS
  <2>. HIDE DEF g
  <2>5. g = SumSteps(g, UpTo(entries, k + 1))
    BY <2>3, <2>4 DEF SumSteps
  <2>. QED  BY <1>2, <2>5
<1>3. Cardinality(entries) \in S
  <2>1. S \subseteq Nat /\ Cardinality(entries) \in Nat
    BY FS_CardinalityType
  <2>. HIDE DEF S
  <2>. QED  BY <1>1, <1>2, <2>1, InductionOn
<1>4. UpTo(entries, Cardinality(entries)) = SUBSET entries
  BY <1>0 DEF UpTo
<1>. QED  BY <1>3, <1>4

(* Of ratings with a score of 1 to 5 each.                                 *)
LEMMA SumStepsBound ==
    ASSUME NEW entries, IsFiniteSet(entries), \A entry \in entries : entry.score \in 1 .. 5,
           NEW f, f = SumSteps(f, SUBSET entries)
    PROVE  /\ f[{}] = 0
           /\ f[entries] \in Nat /\ Cardinality(entries) <= f[entries] /\ f[entries] <= 5 * Cardinality(entries)
<1>. DEFINE Bounded(s) == f[s] \in Nat /\ Cardinality(s) <= f[s] /\ f[s] <= 5 * Cardinality(s)
            S == {k \in Nat : \A s \in SUBSET entries : Cardinality(s) = k => Bounded(s)}
<1>0. \A s \in SUBSET entries : IsFiniteSet(s) /\ Cardinality(s) \in Nat
  BY FS_Subset, FS_CardinalityType
<1>e. \A s \in SUBSET entries : f[s] = IF s = {} THEN 0 ELSE Picked(s).score + f[s \ {Picked(s)}]
  BY DEF SumSteps
<1>1. 0 \in S
  <2>1. ASSUME NEW s \in SUBSET entries, Cardinality(s) = 0  PROVE Bounded(s)
    <3>1. s = {}
      BY <1>0, <2>1, FS_EmptySet
    <3>2. f[s] = 0
      BY <1>e, <3>1
    <3>. QED  BY <2>1, <3>2
  <2>. HIDE DEF Bounded
  <2>. QED  BY <2>1
<1>2. ASSUME NEW k \in S  PROVE k + 1 \in S
  <2>0. k \in Nat
    BY <1>2
  <2>1. ASSUME NEW s \in SUBSET entries, Cardinality(s) = k + 1  PROVE Bounded(s)
    <3>. DEFINE t == s \ {Picked(s)}
    <3>1. s # {}
      <4>1. Cardinality(s) # 0
        <5>. HIDE DEF S
        <5>. QED  BY <2>0, <2>1
      <4>. QED  BY <4>1, FS_EmptySet
    <3>2. Picked(s) \in entries /\ t \in SUBSET entries /\ Cardinality(t) = k
      BY <1>0, <2>1, <3>1, PickedLeaves
    <3>3. f[t] \in Nat /\ k <= f[t] /\ f[t] <= 5 * k
      BY <1>2, <3>2
    <3>4. f[s] = Picked(s).score + f[t] /\ Picked(s).score \in 1 .. 5
      BY <1>e, <3>1, <3>2
    <3>. HIDE DEF t
    <3>. QED  BY <2>0, <2>1, <3>3, <3>4
  <2>2. k + 1 \in Nat
    BY <2>0
  <2>. HIDE DEF Bounded
  <2>. QED  BY <2>1, <2>2
<1>3. \A k \in Nat : k \in S
  <2>1. S \subseteq Nat
    OBVIOUS
  <2>. HIDE DEF S
  <2>. QED  BY <1>1, <1>2, <2>1, InductionOn
<1>4. f[{}] = 0
  BY <1>e
<1>5. Cardinality(entries) \in S /\ entries \in SUBSET entries
  BY <1>3, FS_CardinalityType
<1>. QED  BY <1>4, <1>5

ScoreSum(entries) == A!MapThenSumSet(LAMBDA entry : entry.score, entries)

LEMMA ScoreSumBound ==
    ASSUME NEW entries, IsFiniteSet(entries), \A entry \in entries : entry.score \in 1 .. 5
    PROVE  /\ ScoreSum(entries) \in Nat
           /\ Cardinality(entries) <= ScoreSum(entries) /\ ScoreSum(entries) <= 5 * Cardinality(entries)
<1>. DEFINE F == CHOOSE f : f = SumSteps(f, SUBSET entries)
<1>1. ScoreSum(entries) = F[entries]
  BY DEF ScoreSum, A!MapThenSumSet, A!MapThenFoldSet, SumSteps, Picked
<1>2. F = SumSteps(F, SUBSET entries)
  BY SumStepsExist
<1>. HIDE DEF F
<1>. QED  BY <1>1, <1>2, SumStepsBound

(* Rounding to the nearest tenth is off by half of one at most, and stays  *)
(* within the scores.                                                      *)
LEMMA RoundedIs ==
    ASSUME NEW s \in Nat, NEW n \in Nat \ {0}, s <= 5 * n
    PROVE  /\ A!Rounded(s, n) \in 0 .. 50
           /\ 2 * (10 * s - A!Rounded(s, n) * n) <= n
           /\ -2 * (10 * s - A!Rounded(s, n) * n) <= n
<1>. DEFINE q == A!Rounded(s, n)
            a == 20 * s + n
            b == 2 * n
<1>1. a \in Nat /\ b \in Nat \ {0} /\ q = a \div b
  BY DEF A!Rounded
<1>2. q \in Int /\ b * q <= a /\ a < b * q + b
  <2>. HIDE DEF a, b, q
  <2>. QED  BY <1>1
<1>. HIDE DEF q
<1>3. b * q = 2 * (q * n)
  BY <1>2
<1>4. 2 * (q * n) <= 20 * s + n /\ 20 * s + n < 2 * (q * n) + 2 * n /\ q * n \in Int
  BY <1>2, <1>3
<1>5. q <= 50
  <2>. SUFFICES ASSUME q >= 51  PROVE FALSE
    BY <1>2
  <2>1. q * n >= 51 * n
    BY <1>2
  <2>. QED  BY <1>4, <2>1
<1>6. q >= 0
  <2>. SUFFICES ASSUME q <= -1  PROVE FALSE
    BY <1>2
  <2>1. q * n <= -1 * n
    BY <1>2
  <2>. QED  BY <1>4, <2>1
<1>7. 10 * s - q * n \in Int /\ 2 * (10 * s - q * n) = 20 * s - 2 * (q * n)
  BY <1>4
<1>8. q \in 0 .. 50
  BY <1>2, <1>5, <1>6
<1>9. 2 * (10 * s - q * n) <= n /\ -2 * (10 * s - q * n) <= n
  BY <1>4, <1>7
<1>. QED  BY <1>8, <1>9 DEF q

(* A party rates an engagement once.                                       *)
RatedOnce(entries) ==
    \A r, s \in entries : r.agreement = s.agreement /\ r.rater = s.rater => r = s

Received(entries) == {entry \in entries : entry.rater = "student"}

LEMMA AggregateIs ==
    ASSUME NEW entries, entries \subseteq A!Rows, IsFiniteSet(entries), RatedOnce(entries)
    PROVE  LET agg   == A!Aggregate(entries)
               off == 10 * ScoreSum(Received(entries)) - agg.avg * agg.count
           IN  /\ agg \in A!Averages
               /\ agg.count = Cardinality(Received(entries))
               /\ 2 * off <= agg.count /\ -2 * off <= agg.count
<1>. DEFINE R == Received(entries)
            n == Cardinality(R)
            s == ScoreSum(R)
<1>1. R \subseteq entries /\ IsFiniteSet(R) /\ n \in Nat
  BY FS_Subset, FS_CardinalityType DEF Received
<1>2. \A entry \in R : entry.score \in 1 .. 5 /\ entry.agreement \in Agreements /\ entry.rater = "student"
  BY PartsAssumption DEF Received, A!Rows, A!ScoresAssumption
<1>3. s \in Nat /\ n <= s /\ s <= 5 * n
  BY <1>1, <1>2, ScoreSumBound
<1>4. n <= Cardinality(Agreements) /\ Cardinality(Agreements) \in Nat
      /\ A!Cardinality(Agreements) = Cardinality(Agreements) /\ A!Cardinality(R) = n
  <2>1. IsFiniteSet(Agreements)
    BY PartsAssumption DEF A!AgreementsAssumption, A!IsFiniteSet, IsFiniteSet
  <2>. DEFINE f == [entry \in R |-> entry.agreement]
  <2>2. f \in Injection(R, Agreements)
    <3>1. f \in [R -> Agreements]
      BY <1>2
    <3>2. ASSUME NEW x \in R, NEW y \in R, f[x] = f[y]  PROVE x = y
      BY <1>1, <1>2, <3>2 DEF RatedOnce
    <3>. QED  BY <3>1, <3>2 DEF Injection, IsInjective
  <2>3. A!Cardinality(Agreements) = Cardinality(Agreements) /\ A!Cardinality(R) = n
    BY DEF A!Cardinality, Cardinality
  <2>. HIDE DEF f
  <2>. QED  BY <2>1, <2>2, <2>3, FS_Injection, FS_CardinalityType
<1>5. A!Aggregate(entries) = IF R = {} THEN A!Unrated
                          ELSE [avg |-> A!Rounded(s, n), count |-> n]
  BY <1>4 DEF A!Aggregate, Received, ScoreSum
<1>. HIDE DEF R, n, s
<1>6. CASE R = {}
  <2>1. n = 0 /\ s = 0
    BY <1>3, <1>6, FS_EmptySet DEF n
  <2>. QED  BY <1>4, <1>5, <1>6, <2>1 DEF A!Unrated, A!Averages, n, s, R
<1>7. CASE R # {}
  <2>1. n # 0
    BY <1>1, <1>7, FS_EmptySet DEF n
  <2>2. A!Rounded(s, n) \in 0 .. 50
        /\ 2 * (10 * s - A!Rounded(s, n) * n) <= n
        /\ -2 * (10 * s - A!Rounded(s, n) * n) <= n
    BY <1>1, <1>3, <2>1, RoundedIs
  <2>3. A!Aggregate(entries) = [avg |-> A!Rounded(s, n), count |-> n]
    BY <1>5, <1>7
  <2>4. A!Aggregate(entries) \in A!Averages
    BY <1>1, <1>4, <2>2, <2>3 DEF A!Averages
  <2>. QED  BY <2>2, <2>3, <2>4 DEF n, s, R
<1>. QED  BY <1>6, <1>7

RatingSet == [step : {"idle", "checked", "created", "read"}, row : SUBSET A!Rows, found : A!Averages]

RatingTyped ==
    /\ ratings \subseteq A!Rows /\ IsFiniteSet(ratings)
    /\ tutor \in A!Averages
    /\ rating \in [Handlers -> RatingSet]
    /\ torn \in BOOLEAN
    /\ \A entry \in ratings : agreed[entry.agreement] = "COMPLETED"

(* A handler brings one row, of an engagement that ended.                  *)
HandlersBringOne ==
    \A h \in Handlers :
        /\ rating[h].step = "idle" => rating[h] = A!Idle
        /\ rating[h].step = "checked" =>
               \E entry \in A!Rows : rating[h].row = {entry} /\ agreed[entry.agreement] = "COMPLETED"

(* Unless handlers overlapped or died one is under way, the average it has *)
(* read is that of the ratings, and until it has stored a rating of the    *)
(* tutor so is the tutor's.                                                *)
AverageFollows ==
    ~torn =>
        /\ \A h, g \in Handlers : rating[h].step # "idle" /\ rating[g].step # "idle" => h = g
        /\ \A h \in Handlers : rating[h].step = "read" => rating[h].found = A!Aggregate(ratings)
        /\ (\A h \in Handlers : rating[h].step \in {"idle", "checked"}) =>
               tutor = A!Aggregate(ratings)

(* Unless closes overlap, one is under way, and none once it is resolved.  *)
ClosesAreAlone ==
    \A a \in Agreements \ clash :
        /\ \A x, y \in closing[a] : x = y
        /\ dispute[a].status = "RESOLVED" => closing[a] = {}

DisputeTyped ==
    /\ dispute \in [Agreements -> [status : {"none", "OPEN", "RESOLVED"}, by : SUBSET Admins]]
    /\ closing \in [Agreements -> SUBSET Admins]
    /\ clash \subseteq Agreements
    /\ \A a \in Agreements :
          dispute[a] # A!NoDispute \/ closing[a] # {} => agreed[a] \in A!InForce

AgreedTyped == agreed \in [Agreements -> {"PENDING"} \union A!InForce]

AfterInv == /\ AgreedTyped /\ RatingTyped /\ HandlersBringOne /\ RatedOnce(ratings)
            /\ AverageFollows /\ DisputeTyped /\ ClosesAreAlone

LEMMA AggregateOfReceived ==
    ASSUME NEW r, NEW s, Received(r) = Received(s)
    PROVE  A!Aggregate(r) = A!Aggregate(s)
BY DEF A!Aggregate, Received

LEMMA IdleIs ==
    /\ A!Unrated \in A!Averages /\ A!Idle \in RatingSet
    /\ A!Idle.step = "idle" /\ A!Idle.row = {}
<1>1. A!Cardinality(Agreements) \in Nat
  BY PartsAssumption, FS_CardinalityType
     DEF A!AgreementsAssumption, A!IsFiniteSet, IsFiniteSet, A!Cardinality, Cardinality
<1>2. A!Unrated \in A!Averages
  BY <1>1 DEF A!Unrated, A!Averages
<1>. QED  BY <1>2 DEF A!Idle, RatingSet

LEMMA AfterInvInit ==
    ASSUME A!Init
    PROVE  AfterInv
<1>. USE DEF A!Init
<1>1. A!Aggregate({}) = A!Unrated
  BY DEF A!Aggregate
<1>2. RatingTyped
  BY IdleIs, FS_EmptySet DEF RatingTyped
<1>3. HandlersBringOne /\ RatedOnce(ratings) /\ AverageFollows
  BY <1>1, IdleIs DEF HandlersBringOne, RatedOnce, AverageFollows
<1>4. DisputeTyped /\ ClosesAreAlone
  BY DEF DisputeTyped, ClosesAreAlone, A!NoDispute
<1>. QED  BY <1>2, <1>3, <1>4 DEF AfterInv, AgreedTyped

(* An engagement moves on.                                                 *)
LEMMA EngagementKeeps ==
    ASSUME AfterInv, NEW a \in Agreements, A!Activate(a) \/ A!Complete(a)
    PROVE  AfterInv'
<1>1. UNCHANGED <<ratings, tutor, rating, dispute, closing, torn, clash>>
  BY DEF A!Activate, A!Complete
<1>2. PICK x \in {"ACTIVE", "COMPLETED"} :
         /\ agreed' = [agreed EXCEPT ![a] = x]
         /\ agreed[a] # "COMPLETED"
  BY DEF A!Activate, A!Complete
<1>3. /\ AgreedTyped'
      /\ \A b \in Agreements : agreed[b] = "COMPLETED" => agreed'[b] = "COMPLETED"
      /\ \A b \in Agreements : agreed[b] \in A!InForce => agreed'[b] \in A!InForce
  BY <1>2 DEF AfterInv, AgreedTyped, A!InForce
<1>0. \A entry \in A!Rows : entry.agreement \in Agreements
  BY DEF A!Rows
<1>4. RatingTyped' /\ HandlersBringOne'
  BY <1>1, <1>3, <1>0 DEF AfterInv, RatingTyped, HandlersBringOne
<1>5. DisputeTyped'
  BY <1>1, <1>3 DEF AfterInv, DisputeTyped
<1>. QED
  BY <1>1, <1>3, <1>4, <1>5 DEF AfterInv, RatedOnce, AverageFollows, ClosesAreAlone

(* A step of a handler leaves the engagements and the disputes alone.      *)
LEMMA HandlerKeeps ==
    ASSUME AfterInv, UNCHANGED <<agreed, dispute, closing, clash>>,
           RatingTyped', HandlersBringOne', RatedOnce(ratings'), AverageFollows'
    PROVE  AfterInv'
BY DEF AfterInv, AgreedTyped, DisputeTyped, ClosesAreAlone

LEMMA RateReadKeeps ==
    ASSUME AfterInv, NEW h \in Handlers, NEW a \in Agreements, NEW who \in A!Raters,
           NEW score \in Scores, A!RateRead(h, a, who, score)
    PROVE  AfterInv'
<1>. USE DEF AfterInv
<1>. DEFINE entry == [agreement |-> a, rater |-> who, score |-> score]
            new == [A!Idle EXCEPT !.step = "checked", !.row = {entry}]
<1>1. /\ rating[h] = A!Idle /\ agreed[a] = "COMPLETED"
      /\ rating' = [rating EXCEPT ![h] = new] /\ torn' = (torn \/ A!Overlaps(h))
      /\ UNCHANGED <<agreed, ratings, tutor, dispute, closing, clash>>
  BY DEF A!RateRead
<1>2. entry \in A!Rows /\ entry.agreement = a
  BY DEF A!Rows
<1>. HIDE DEF entry
<1>3. new \in RatingSet /\ new.step = "checked" /\ new.row = {entry}
  BY <1>2, IdleIs DEF RatingSet
<1>. HIDE DEF new
<1>4. /\ rating' \in [Handlers -> RatingSet] /\ rating'[h] = new
      /\ \A g \in Handlers \ {h} : rating'[g] = rating[g]
  BY <1>1, <1>3 DEF RatingTyped
<1>5. torn' \in BOOLEAN
  BY <1>1 DEF RatingTyped, A!Overlaps
<1>6. RatingTyped'
  BY <1>1, <1>4, <1>5 DEF RatingTyped
<1>7. HandlersBringOne'
  BY <1>1, <1>2, <1>3, <1>4 DEF HandlersBringOne
<1>8. AverageFollows'
  <2>. SUFFICES ASSUME ~torn'  PROVE AverageFollows'
    BY DEF AverageFollows
  <2>1. ~torn /\ \A g \in Handlers \ {h} : rating[g].step = "idle"
    BY <1>1 DEF A!Overlaps
  <2>2. \A g \in Handlers : rating[g].step = "idle"
    BY <1>1, <2>1, IdleIs
  <2>. QED  BY <1>1, <1>3, <1>4, <2>1, <2>2 DEF AverageFollows
<1>. QED  BY <1>1, <1>6, <1>7, <1>8, HandlerKeeps

LEMMA RateCreateKeeps ==
    ASSUME AfterInv, NEW h \in Handlers, A!RateCreate(h)
    PROVE  AfterInv'
<1>. USE DEF AfterInv
<1>1. /\ rating[h].step = "checked" /\ ratings' = ratings \union rating[h].row
      /\ \A entry \in rating[h].row : ~A!RatedBy(entry.agreement, entry.rater)
      /\ rating' = [rating EXCEPT ![h] = A!Created(h)]
      /\ UNCHANGED <<agreed, tutor, dispute, closing, torn, clash>>
  BY DEF A!RateCreate
<1>2. PICK entry \in A!Rows : rating[h].row = {entry} /\ agreed[entry.agreement] = "COMPLETED"
  BY <1>1 DEF HandlersBringOne
<1>3. /\ A!Created(h) \in RatingSet
      /\ entry.rater = "student" => A!Created(h).step = "created"
      /\ entry.rater # "student" => A!Created(h) = A!Idle
  BY <1>2, IdleIs DEF A!Created, RatingSet
<1>4. /\ rating' \in [Handlers -> RatingSet] /\ rating'[h] = A!Created(h)
      /\ \A g \in Handlers \ {h} : rating'[g] = rating[g]
  BY <1>1, <1>3 DEF RatingTyped
<1>5. ratings' = ratings \union {entry} /\ IsFiniteSet(ratings')
  BY <1>1, <1>2, FS_AddElement DEF RatingTyped
<1>6. RatingTyped'
  BY <1>1, <1>2, <1>4, <1>5 DEF RatingTyped
<1>7. HandlersBringOne'
  BY <1>1, <1>3, <1>4, IdleIs DEF HandlersBringOne
<1>8. RatedOnce(ratings')
  BY <1>1, <1>2, <1>5 DEF RatedOnce, A!RatedBy
<1>9. AverageFollows'
  <2>. SUFFICES ASSUME ~torn  PROVE AverageFollows'
    BY <1>1 DEF AverageFollows
  <2>1. \A g \in Handlers \ {h} : rating[g].step = "idle"
    BY <1>1 DEF AverageFollows
  <2>2. CASE entry.rater = "student"
    BY <1>1, <1>3, <1>4, <2>1, <2>2 DEF AverageFollows
  <2>3. CASE entry.rater # "student"
    <3>1. A!Aggregate(ratings') = A!Aggregate(ratings)
      BY <1>5, <2>3, AggregateOfReceived DEF Received
    <3>2. tutor = A!Aggregate(ratings)
      BY <1>1, <2>1 DEF AverageFollows
    <3>. QED  BY <1>1, <1>3, <1>4, <2>1, <2>3, <3>1, <3>2, IdleIs DEF AverageFollows
  <2>. QED  BY <2>2, <2>3
<1>. QED  BY <1>1, <1>6, <1>7, <1>8, <1>9, HandlerKeeps

LEMMA AggregateReadKeeps ==
    ASSUME AfterInv, NEW h \in Handlers, A!AggregateRead(h)
    PROVE  AfterInv'
<1>. USE DEF AfterInv
<1>. DEFINE new == [A!Idle EXCEPT !.step = "read", !.found = A!Aggregate(ratings)]
<1>1. /\ rating[h].step = "created" /\ rating' = [rating EXCEPT ![h] = new]
      /\ UNCHANGED <<agreed, ratings, tutor, dispute, closing, torn, clash>>
  BY DEF A!AggregateRead
<1>2. A!Aggregate(ratings) \in A!Averages
  BY AggregateIs DEF RatingTyped
<1>3. new \in RatingSet /\ new.step = "read" /\ new.found = A!Aggregate(ratings)
  BY <1>2, IdleIs DEF RatingSet
<1>. HIDE DEF new
<1>4. /\ rating' \in [Handlers -> RatingSet] /\ rating'[h] = new
      /\ \A g \in Handlers \ {h} : rating'[g] = rating[g]
  BY <1>1, <1>3 DEF RatingTyped
<1>5. RatingTyped' /\ HandlersBringOne'
  BY <1>1, <1>3, <1>4 DEF RatingTyped, HandlersBringOne
<1>6. AverageFollows'
  BY <1>1, <1>3, <1>4 DEF AverageFollows
<1>. QED  BY <1>1, <1>5, <1>6, HandlerKeeps DEF RatedOnce

LEMMA AggregateWriteKeeps ==
    ASSUME AfterInv, NEW h \in Handlers, A!AggregateWrite(h)
    PROVE  AfterInv'
<1>. USE DEF AfterInv
<1>1. /\ rating[h].step = "read" /\ rating' = [rating EXCEPT ![h] = A!Idle]
      /\ tutor' = rating[h].found
      /\ UNCHANGED <<agreed, ratings, dispute, closing, torn, clash>>
  BY DEF A!AggregateWrite
<1>2. /\ rating' \in [Handlers -> RatingSet] /\ rating'[h] = A!Idle
      /\ \A g \in Handlers \ {h} : rating'[g] = rating[g]
  BY <1>1, IdleIs DEF RatingTyped
<1>3. tutor' \in A!Averages
  BY <1>1 DEF RatingTyped, RatingSet
<1>4. RatingTyped' /\ HandlersBringOne'
  BY <1>1, <1>2, <1>3, IdleIs DEF RatingTyped, HandlersBringOne
<1>5. AverageFollows'
  BY <1>1, <1>2, IdleIs DEF AverageFollows
<1>. QED  BY <1>1, <1>4, <1>5, HandlerKeeps DEF RatedOnce

LEMMA RateDiesKeeps ==
    ASSUME AfterInv, NEW h \in Handlers, A!RateDies(h)
    PROVE  AfterInv'
<1>. USE DEF AfterInv
<1>1. /\ rating[h].step # "idle" /\ rating' = [rating EXCEPT ![h] = A!Idle]
      /\ torn' = (torn \/ rating[h].step \in {"created", "read"})
      /\ UNCHANGED <<agreed, ratings, tutor, dispute, closing, clash>>
  BY DEF A!RateDies
<1>2. /\ rating' \in [Handlers -> RatingSet] /\ rating'[h] = A!Idle
      /\ \A g \in Handlers \ {h} : rating'[g] = rating[g]
  BY <1>1, IdleIs DEF RatingTyped
<1>3. RatingTyped' /\ HandlersBringOne'
  BY <1>1, <1>2, IdleIs DEF RatingTyped, HandlersBringOne
<1>4. AverageFollows'
  <2>. SUFFICES ASSUME ~torn'  PROVE AverageFollows'
    BY DEF AverageFollows
  <2>1. ~torn /\ rating[h].step = "checked"
    BY <1>1 DEF RatingTyped, RatingSet
  <2>2. \A g \in Handlers \ {h} : rating[g].step = "idle"
    BY <1>1, <2>1 DEF AverageFollows
  <2>3. tutor = A!Aggregate(ratings)
    BY <2>1, <2>2 DEF AverageFollows
  <2>. QED  BY <1>1, <1>2, <2>2, <2>3, IdleIs DEF AverageFollows
<1>. QED  BY <1>1, <1>3, <1>4, HandlerKeeps DEF RatedOnce

(* A resolution stands unless two closes overlapped.                       *)
Stands == \A a \in Agreements \ clash : dispute[a].status = "RESOLVED" => dispute'[a] = dispute[a]

(* A step of a dispute leaves the ratings alone.                           *)
LEMMA DisputeKeeps ==
    ASSUME AfterInv, UNCHANGED <<agreed, ratings, tutor, rating, torn>>, DisputeTyped', ClosesAreAlone'
    PROVE  AfterInv'
BY DEF AfterInv, AgreedTyped, RatingTyped, HandlersBringOne, RatedOnce, AverageFollows

LEMMA DisputeCreateKeeps ==
    ASSUME AfterInv, NEW a \in Agreements, A!DisputeCreate(a)
    PROVE  AfterInv' /\ Stands
<1>. USE DEF AfterInv
<1>0. UNCHANGED <<agreed, ratings, tutor, rating, torn>>
  BY DEF A!DisputeCreate
<1>. DEFINE new == [dispute[a] EXCEPT !.status = "OPEN"]
<1>1. /\ agreed[a] \in A!InForce /\ dispute[a] = A!NoDispute
      /\ dispute' = [dispute EXCEPT ![a] = new]
      /\ UNCHANGED <<closing, clash>>
  BY DEF A!DisputeCreate
<1>2. new \in [status : {"none", "OPEN", "RESOLVED"}, by : SUBSET Admins] /\ new.status = "OPEN"
      /\ dispute[a].status = "none"
  BY <1>1 DEF A!NoDispute
<1>. HIDE DEF new
<1>3. /\ dispute'[a] = new /\ \A b \in Agreements \ {a} : dispute'[b] = dispute[b]
      /\ dispute' \in [Agreements -> [status : {"none", "OPEN", "RESOLVED"}, by : SUBSET Admins]]
  BY <1>1, <1>2 DEF DisputeTyped
<1>4. DisputeTyped' /\ ClosesAreAlone' /\ Stands
  BY <1>0, <1>1, <1>2, <1>3 DEF DisputeTyped, ClosesAreAlone, Stands
<1>. QED  BY <1>0, <1>4, DisputeKeeps

LEMMA ClosingKeeps ==
    ASSUME AfterInv, NEW a \in Agreements, NEW admin \in Admins,
           A!CloseRead(a, admin) \/ A!CloseWrite(a, admin)
    PROVE  AfterInv' /\ Stands
<1>. USE DEF AfterInv
<1>0. UNCHANGED <<agreed, ratings, tutor, rating, torn>>
  BY DEF A!CloseRead, A!CloseWrite
<1>2. CASE A!CloseRead(a, admin)
  <2>1. /\ dispute[a].status = "OPEN"
        /\ closing' = [closing EXCEPT ![a] = closing[a] \union {admin}]
        /\ clash' = (IF closing[a] = {} THEN clash ELSE clash \union {a})
        /\ UNCHANGED dispute
    BY <1>2 DEF A!CloseRead
  <2>2. /\ closing'[a] = closing[a] \union {admin} /\ \A b \in Agreements \ {a} : closing'[b] = closing[b]
        /\ closing' \in [Agreements -> SUBSET Admins]
    BY <2>1 DEF DisputeTyped
  <2>3. DisputeTyped'
    <3>1. dispute[a] # A!NoDispute
      BY <2>1 DEF A!NoDispute
    <3>. QED  BY <1>0, <2>1, <2>2, <3>1 DEF DisputeTyped
  <2>4. ClosesAreAlone'
    BY <2>1, <2>2 DEF ClosesAreAlone
  <2>5. Stands
    BY <2>1 DEF Stands
  <2>. QED  BY <1>0, <2>3, <2>4, <2>5, DisputeKeeps
<1>3. CASE A!CloseWrite(a, admin)
  <2>1. /\ admin \in closing[a]
        /\ dispute' = [dispute EXCEPT ![a] = [status |-> "RESOLVED", by |-> {admin}]]
        /\ closing' = [closing EXCEPT ![a] = closing[a] \ {admin}]
        /\ UNCHANGED clash
    BY <1>3 DEF A!CloseWrite
  <2>2. /\ closing'[a] = closing[a] \ {admin} /\ \A b \in Agreements \ {a} : closing'[b] = closing[b]
        /\ closing' \in [Agreements -> SUBSET Admins]
    BY <2>1 DEF DisputeTyped
  <2>3. /\ dispute'[a] = [status |-> "RESOLVED", by |-> {admin}]
        /\ \A b \in Agreements \ {a} : dispute'[b] = dispute[b]
        /\ dispute' \in [Agreements -> [status : {"none", "OPEN", "RESOLVED"}, by : SUBSET Admins]]
    BY <2>1 DEF DisputeTyped
  <2>4. agreed[a] \in A!InForce
    BY <2>1 DEF DisputeTyped
  <2>5. ClosesAreAlone' /\ Stands
    BY <2>1, <2>2, <2>3 DEF ClosesAreAlone, Stands
  <2>. QED  BY <1>0, <2>1, <2>2, <2>3, <2>4, <2>5, DisputeKeeps DEF DisputeTyped
<1>. QED  BY <1>2, <1>3

LEMMA AfterInvStep ==
    ASSUME AfterInv, [A!Next]_afterVars
    PROVE  AfterInv' /\ Stands
<1>1. ASSUME NEW a \in Agreements, A!Activate(a) \/ A!Complete(a)  PROVE AfterInv' /\ Stands
  BY <1>1, EngagementKeeps DEF Stands, A!Activate, A!Complete
<1>2. ASSUME NEW a \in Agreements, A!DisputeCreate(a)  PROVE AfterInv' /\ Stands
  BY <1>2, DisputeCreateKeeps
<1>3. ASSUME NEW a \in Agreements, NEW admin \in Admins, A!CloseRead(a, admin) \/ A!CloseWrite(a, admin)
      PROVE  AfterInv' /\ Stands
  BY <1>3, ClosingKeeps
<1>4. ASSUME NEW h \in Handlers, A!RateCreate(h) \/ A!AggregateRead(h) \/ A!AggregateWrite(h) \/ A!RateDies(h)
      PROVE  AfterInv' /\ Stands
  <2>1. UNCHANGED dispute
    BY <1>4 DEF A!RateCreate, A!AggregateRead, A!AggregateWrite, A!RateDies
  <2>. QED
    BY <1>4, <2>1, RateCreateKeeps, AggregateReadKeeps, AggregateWriteKeeps, RateDiesKeeps DEF Stands
<1>5. ASSUME NEW h \in Handlers, NEW a \in Agreements, NEW who \in A!Raters, NEW score \in Scores,
             A!RateRead(h, a, who, score)
      PROVE  AfterInv' /\ Stands
  BY <1>5, RateReadKeeps DEF Stands, A!RateRead
<1>6. CASE UNCHANGED afterVars
  BY <1>6 DEF afterVars, AfterInv, AgreedTyped, RatingTyped, HandlersBringOne, RatedOnce,
     AverageFollows, DisputeTyped, ClosesAreAlone, Stands
<1>. QED  BY <1>1, <1>2, <1>3, <1>4, <1>5, <1>6 DEF A!Next

LEMMA AfterInvIsEnough ==
    ASSUME AfterInv
    PROVE  A!TypeOK /\ A!OneRating /\ A!AverageIsTrue
<1>. USE DEF AfterInv
<1>1. A!TypeOK
  BY DEF A!TypeOK, AgreedTyped, RatingTyped, RatingSet, DisputeTyped
<1>2. A!OneRating
  BY DEF A!OneRating, RatedOnce
<1>3. A!AverageIsTrue
  <2>. SUFFICES ASSUME ~torn, A!Quiet
                PROVE  LET sum   == ScoreSum(Received(ratings))
                           off == 10 * sum - tutor.avg * tutor.count
                       IN  /\ tutor.count = A!Cardinality(Received(ratings))
                           /\ 2 * off <= tutor.count /\ -2 * off <= tutor.count
    BY DEF A!AverageIsTrue, ScoreSum, Received
  <2>1. tutor = A!Aggregate(ratings)
    BY IdleIs DEF A!Quiet, AverageFollows
  <2>2. A!Cardinality(Received(ratings)) = Cardinality(Received(ratings))
    BY DEF A!Cardinality, Cardinality
  <2>. QED  BY <2>1, <2>2, AggregateIs DEF RatingTyped
<1>. QED  BY <1>1, <1>2, <1>3

AfterPart == part = "after" => AfterInv

LEMMA AfterPartHolds ==
    /\ Init => AfterPart
    /\ AfterPart /\ [Next]_<<part, parts>> => AfterPart' /\ [Stands]_afterVars
<1>1. Init => AfterPart
  BY AfterInvInit DEF Init, AfterPart
<1>2. AfterPart /\ [Next]_<<part, parts>> => AfterPart' /\ [Stands]_afterVars
  <2>. SUFFICES ASSUME AfterPart, [Next]_<<part, parts>>
                PROVE  AfterPart' /\ [Stands]_afterVars
    OBVIOUS
  <2>1. CASE AfterNext
    BY <2>1, AfterInvStep DEF AfterNext, AfterPart
  <2>2. CASE UNCHANGED <<part, afterVars>>
    <3>1. part = "after" => AfterInv'
      BY <2>2, AfterInvStep DEF AfterPart
    <3>. QED  BY <2>2, <3>1 DEF AfterPart
  <2>3. part' = part /\ (~AfterNext => UNCHANGED afterVars)
    BY DEF Next, ChatNext, FormNext, DealNext, AfterNext, WizardNext, PayNext, parts
  <2>. QED  BY <2>1, <2>2, <2>3
<1>. QED  BY <1>1, <1>2

(* A party rates an engagement once, and the average on the tutor's row is *)
(* that of the ratings to the nearest tenth, for every set of scores of 1  *)
(* to 5, unless ratings overlapped or died.                                *)
THEOREM RatingsStayTrue == Spec => []RatingsAreTrue
<1>1. AfterPart => RatingsAreTrue
  BY AfterInvIsEnough DEF AfterPart, RatingsAreTrue
<1>2. AfterPart /\ [Next]_<<part, parts>> => AfterPart'
  BY AfterPartHolds
<1>. QED  BY <1>1, <1>2, AfterPartHolds, PTL DEF Spec

-----------------------------------------------------------------------------
(* What is settled stays so.                                               *)

LEMMA WizardPartKeeps ==
    ASSUME WizardPart, [Next]_<<part, parts>>
    PROVE  [~crossed /\ ~crossed' => StoresOnlyEdits]_wizardVars
<1>1. CASE WizardNext
  BY <1>1, WizardInvStep DEF WizardNext, WizardPart
<1>2. ~WizardNext => UNCHANGED wizardVars
  BY DEF Next, ChatNext, FormNext, DealNext, AfterNext, WizardNext, PayNext, parts
<1>. QED  BY <1>1, <1>2

(* A deal that was completed stays so, whatever pages are acted on; so     *)
(* does the resolution of a dispute unless two closes overlapped; the      *)
(* wizard stores only what was edited unless something crossed a save; and *)
(* the list leaves a deal out only if it ended unopened, or its thread was *)
(* created in between.                                                     *)
THEOREM WhatIsPastStands == Spec => PastStands
<1>. DEFINE Inv == DealPart /\ AfterPart /\ WizardPart /\ ChatPart
<1>1. Init => Inv
  BY DealPartHolds, AfterPartHolds, WizardPartHolds, ChatPartHolds
<1>2. Inv /\ [Next]_<<part, parts>> => Inv'
  BY DealPartHolds, AfterPartHolds, WizardPartHolds, ChatPartHolds
<1>3. Inv /\ [Next]_<<part, parts>> =>
         [deal.req = "COMPLETED" => deal'.req = "COMPLETED" /\ deal'.agreement = "COMPLETED"]_P!vars
  BY DealPartHolds DEF FinishedStaysSo, P!vars, dealVars
<1>4. Inv /\ [Next]_<<part, parts>> =>
         [\A a \in Agreements \ clash :
             dispute[a].status = "RESOLVED" => dispute'[a] = dispute[a]]_A!vars
  BY AfterPartHolds DEF Stands, A!vars, afterVars
<1>5. Inv /\ [Next]_<<part, parts>> =>
         [\A s \in W!Sections :
             row'.section[s] # row.section[s] /\ ~crossed /\ ~crossed' =>
                s \in edited \/ (row.section[s] = 0 /\ row'.section[s] = W!Default(s))]_W!vars
  BY WizardPartKeeps DEF StoresOnlyEdits, W!vars, wizardVars
<1>6. Inv /\ [Next]_<<part, parts>> =>
         [page.at = "listing" /\ page'.at = "list" =>
             /\ page'.row = "no" => thread # page.had \/ (~thread /\ ~C!Active)
             /\ page'.row = "COMPLETED" => ~C!Active]_C!vars
  BY ChatPartHolds DEF ListedTruly, C!vars, C!server, chatVars
<1>. QED
  BY <1>1, <1>2, <1>3, <1>4, <1>5, <1>6, PTL
     DEF Spec, PastStands, P!FinishedStays, A!ResolutionStands, W!UntouchedIsKept, C!ListsTheDeal
=============================================================================
