------------------------------ MODULE Checkout ------------------------------
(***************************************************************************)
(* Paying one due, a commission or the registration fee, from the pages of *)
(* the tutor: the list of commissions, the checkout, the gateway's dialog, *)
(* and the pages that tell of success or failure.  The gateway captures    *)
(* the money; the API learns of it from the page, which verifies it, or    *)
(* from the gateway's webhook, whichever comes first, or from a capture    *)
(* that comes after the dialog was closed.  In mock mode there is no       *)
(* gateway, and the page completes the payment itself.                     *)
(*                                                                         *)
(* What settling a payment changes is in Billing; it is one step here.  A  *)
(* tab is not left while it waits for an answer.                           *)
(***************************************************************************)
EXTENDS Integers, Sequences, FiniteSets

CONSTANTS Tabs,         \* the tabs of the tutor
          MaxPayments   \* bound: payments ever begun

VARIABLES
    due,       \* what is due: its kind, and whether it is settled
    mock,      \* payments are mocked
    payments,  \* the payments begun for it, in order
    tab,       \* per tab: its page, its payment, and what its list offers
    kept,      \* per tab: the list that its API client keeps
    told,      \* history: the tabs that have told of success
    doubt      \* history: a verification failed, money was captured after
               \* the dialog was closed, or two tabs paid at the same time

vars == <<due, mock, payments, tab, kept, told, doubt>>

Payments == 1 .. Len(payments)
Pages == {"list", "checkout", "asking", "dialog", "verifying", "completing",
          "success", "fail"}
Paying == {"asking", "dialog", "verifying", "completing"}

Init ==
    /\ \E kind \in {"REGISTRATION", "COMMISSION"} : due = [kind |-> kind, settled |-> FALSE]
    /\ mock \in BOOLEAN
    /\ payments = <<>>
    /\ tab = [t \in Tabs |-> [page |-> "list", order |-> 0, offers |-> FALSE]]
    /\ kept = [t \in Tabs |-> {}]
    /\ told = {} /\ doubt = FALSE

-----------------------------------------------------------------------------
(* The API. *)

(* Mutant: what is due is not looked up before a payment is created.       *)
AcceptsAlways == TRUE

(* initiate: a payment is begun for what is not settled.                   *)
Accepts == ~due.settled

(* A payment, with whether its dialog has been opened.                     *)
Begun(opened) ==
    Append(payments, [status |-> "PENDING", opened |-> opened, captured |-> FALSE])

(* markSuccess.                                                            *)
Settle(p) ==
    /\ payments' = [payments EXCEPT ![p].status = "SUCCESS", ![p].captured = TRUE]
    /\ due' = [due EXCEPT !.settled = TRUE]

-----------------------------------------------------------------------------
(* The pages. *)

Show(t, page) == tab' = [tab EXCEPT ![t].page = page]

(* The list of commissions offers to pay what it shows as due; it has no   *)
(* row for the registration fee.                                           *)
OpenList(t) ==
    /\ tab[t].page \in {"list", "checkout", "success", "fail"}
    /\ LET open == IF kept[t] # {} THEN kept[t] = {TRUE} ELSE ~due.settled
       IN  /\ tab' = [tab EXCEPT ![t].page = "list",
                                 ![t].offers = open /\ due.kind = "COMMISSION"]
           /\ kept' = [kept EXCEPT ![t] = {open}]
    /\ UNCHANGED <<due, mock, payments, told, doubt>>

(* The checkout of a commission is opened from the list, that of the fee   *)
(* from the profile, when paying now has been chosen there.                *)
OpenCheckout(t) ==
    /\ tab[t].page = "list"
    /\ due.kind = "REGISTRATION" \/ tab[t].offers
    /\ Show(t, "checkout")
    /\ UNCHANGED <<due, mock, payments, kept, told, doubt>>

Pay(t) ==
    /\ tab[t].page = "checkout"
    /\ Show(t, "asking")
    /\ doubt' = (doubt \/ \E u \in Tabs \ {t} : tab[u].page \in Paying)
    /\ UNCHANGED <<due, mock, payments, kept, told>>

(* startCheckout: the payment is begun, and the dialog opened.             *)
Initiated(t) ==
    /\ tab[t].page = "asking"
    /\ Accepts /\ Len(payments) < MaxPayments
    /\ payments' = Begun(~mock)
    /\ tab' = [tab EXCEPT ![t].page = IF mock THEN "completing" ELSE "dialog",
                          ![t].order = Len(payments')]
    /\ UNCHANGED <<due, mock, kept, told, doubt>>

(* The payment is refused, or the order, the answer or the dialog fails    *)
(* after it was begun.                                                     *)
InitiateFails(t) ==
    /\ tab[t].page = "asking"
    /\ \/ UNCHANGED payments
       \/ Accepts /\ Len(payments) < MaxPayments /\ payments' = Begun(FALSE)
    /\ Show(t, "checkout")
    /\ UNCHANGED <<due, mock, kept, told, doubt>>

(* The tutor pays in the dialog, and the page goes on to verify it.        *)
Captured(t) ==
    /\ tab[t].page = "dialog"
    /\ payments' = [payments EXCEPT ![tab[t].order].captured = TRUE]
    /\ Show(t, "verifying")
    /\ UNCHANGED <<due, mock, kept, told, doubt>>

(* Mutant: the page is left within the application, which keeps the cache. *)
TellInPlace(t, page) ==
    /\ Show(t, page)
    /\ told' = IF page = "success" THEN told \union {t} ELSE told
    /\ UNCHANGED kept

(* The pages of success and failure are loaded in full, which empties the  *)
(* API client's cache.                                                     *)
Tell(t, page) ==
    /\ Show(t, page)
    /\ kept' = [kept EXCEPT ![t] = {}]
    /\ told' = IF page = "success" THEN told \union {t} ELSE told

Dismissed(t) ==
    /\ tab[t].page = "dialog"
    /\ Tell(t, "fail")
    /\ UNCHANGED <<due, mock, payments, doubt>>

(* verifyClient, called by the dialog's handler; mockComplete.             *)
Verified(t) ==
    /\ tab[t].page \in {"verifying", "completing"}
    /\ Settle(tab[t].order)
    /\ Tell(t, "success")
    /\ UNCHANGED <<mock, doubt>>

(* Mutant: a verification that fails is told like one that succeeds.       *)
VerifyFailsSilently(t) ==
    /\ tab[t].page \in {"verifying", "completing"}
    /\ Tell(t, "success")
    /\ doubt' = TRUE
    /\ UNCHANGED <<due, mock, payments>>

(* The verification or its answer is lost: the page tells of failure, or   *)
(* in mock mode stays with an error.                                       *)
VerifyFails(t) ==
    /\ \/ tab[t].page = "verifying" /\ Tell(t, "fail") /\ doubt' = TRUE
       \/ tab[t].page = "completing" /\ Show(t, "checkout") /\ UNCHANGED <<kept, told, doubt>>
    /\ Settle(tab[t].order) \/ UNCHANGED <<due, payments>>
    /\ UNCHANGED mock

(* The lifetime of a kept list ends.                                       *)
Expire(t) ==
    /\ kept[t] # {}
    /\ kept' = [kept EXCEPT ![t] = {}]
    /\ UNCHANGED <<due, mock, payments, tab, told, doubt>>

-----------------------------------------------------------------------------
(* The gateway. *)

(* A try fails, and the webhook says so; the dialog lets the tutor repeat. *)
Declined(p) ==
    /\ payments[p].opened /\ payments[p].status # "SUCCESS" /\ ~payments[p].captured
    /\ payments' = [payments EXCEPT ![p].status = "FAILED"]
    /\ UNCHANGED <<due, mock, tab, kept, told, doubt>>

(* Money that was sent before the dialog was closed arrives.               *)
CapturedLate(p) ==
    /\ payments[p].opened /\ ~payments[p].captured
    /\ \A t \in Tabs : tab[t].order = p => tab[t].page # "dialog"
    /\ payments' = [payments EXCEPT ![p].captured = TRUE]
    /\ doubt' = TRUE
    /\ UNCHANGED <<due, mock, tab, kept, told>>

(* handleWebhook: a capture is reported, perhaps after it was verified.    *)
Webhook(p) ==
    /\ payments[p].opened /\ payments[p].captured
    /\ IF payments[p].status = "SUCCESS" THEN UNCHANGED <<due, payments>> ELSE Settle(p)
    /\ UNCHANGED <<mock, tab, kept, told, doubt>>

Next ==
    \/ \E t \in Tabs :
          \/ OpenList(t) \/ OpenCheckout(t) \/ Pay(t) \/ Initiated(t) \/ InitiateFails(t)
          \/ Captured(t) \/ Dismissed(t) \/ Verified(t) \/ VerifyFails(t) \/ Expire(t)
    \/ \E p \in Payments : Declined(p) \/ CapturedLate(p) \/ Webhook(p)

Spec == Init /\ [][Next]_vars

-----------------------------------------------------------------------------
(* The due, its payments and the tabs are well-formed.                     *)
TypeOK ==
    /\ due.settled \in BOOLEAN /\ mock \in BOOLEAN /\ doubt \in BOOLEAN
    /\ \A p \in Payments : /\ payments[p].status \in {"PENDING", "FAILED", "SUCCESS"}
                           /\ payments[p].opened \in BOOLEAN
                           /\ payments[p].captured \in BOOLEAN
    /\ \A t \in Tabs : tab[t].page \in Pages /\ tab[t].order \in 0 .. Len(payments)
    /\ told \subseteq Tabs

(* A page that tells of success tells the truth: the tab's payment has     *)
(* succeeded, and what was due is settled.                                 *)
SuccessIsTrue ==
    \A t \in told : tab[t].page = "success" =>
        due.settled /\ payments[tab[t].order].status = "SUCCESS"

(* The tutor is charged once for what was due, although every tab may ask, *)
(* and a dialog that was closed may be opened again, unless a verification *)
(* failed, money arrived late, or two tabs paid at the same time.          *)
ChargedOnce ==
    ~doubt => Cardinality({p \in Payments : payments[p].captured}) <= 1

(* A tab that has told of success does not offer to pay again, although    *)
(* its lists may come from a cache.                                        *)
PaidIsNotOffered == \A t \in told : tab[t].page = "list" => ~tab[t].offers
=============================================================================
