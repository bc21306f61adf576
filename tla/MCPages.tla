------------------------------ MODULE MCPages -------------------------------
(***************************************************************************)
(* Small instances of what a user sees of the platform: the chat page, the *)
(* form of a requirement, the pages of a deal, the ratings and disputes    *)
(* after it, the wizard of a profile, and the checkout.  These parts share *)
(* no state, so each behaviour is of one of them, chosen at the start; the *)
(* others keep their initial state.                                        *)
(***************************************************************************)
EXTENDS Naturals, FiniteSets

CONSTANTS FirstPage, NextPage, MaxMessages, MaxPosts,
          Pins, Notes, Saves, MaxDrafts, MaxText,
          MaxKept,
          Agreements, Scores, Handlers, Admins,
          MaxValue, MaxSaves, MaxEdits,
          Tabs, MaxPayments

VARIABLES
    part,                                                  \* the part that moves
    status, thread, log, page, flight, kept,               \* Chat
    rows, form, reqId, timer, save, saving, error, load,   \* Drafts
    locating, mounted, raced,
    deal, user, tab, cache, stale,                         \* Pages
    agreed, ratings, tutor, rating, dispute, closing,      \* Aftercare
    torn, clash,
    row, shown, coords, known, step, loading, saves, answer,   \* Wizard
    edits, edited, crossed,
    due, mock, payments, payTab, list, told, doubt         \* Checkout

chatVars  == <<status, thread, log, page, flight, kept>>
draftVars == <<rows, form, reqId, timer, save, saving, error, load, locating, mounted, raced>>
dealVars  == <<deal, user, tab, cache, stale>>
afterVars == <<agreed, ratings, tutor, rating, dispute, closing, torn, clash>>
wizardVars == <<row, shown, coords, known, step, loading, saves, answer, edits, edited, crossed>>
payVars   == <<due, mock, payments, payTab, list, told, doubt>>
parts     == <<chatVars, draftVars, dealVars, afterVars, wizardVars, payVars>>

C == INSTANCE Chat
D == INSTANCE Drafts
P == INSTANCE Pages
A == INSTANCE Aftercare WITH status <- agreed
W == INSTANCE Wizard WITH kept <- answer
K == INSTANCE Checkout WITH tab <- payTab, kept <- list

(* What the parts ask of their constants.                                  *)
ASSUME PartsAssumption ==
    /\ C!LimitsAssumption /\ C!MaxMessagesAssumption
    /\ D!MaxDraftsAssumption /\ D!MaxTextAssumption
    /\ P!MaxKeptAssumption
    /\ A!ScoresAssumption /\ A!AgreementsAssumption
    /\ W!MaxValueAssumption /\ W!MaxSavesAssumption /\ W!MaxEditsAssumption

Init ==
    /\ part \in {"chat", "form", "deal", "after", "wizard", "pay"}
    /\ C!Init /\ D!Init /\ P!Init /\ A!Init /\ W!Init /\ K!Init
    /\ part # "form" => rows = <<>>
    /\ part # "deal" => user = "student"
    /\ part # "wizard" => row.place = 0
    /\ part # "pay" => mock /\ due.kind = "COMMISSION"

(* Bound: of the messages of a thread so many are the user's own.          *)
FewPosts == Cardinality({i \in DOMAIN log : log[i] = "me"}) <= MaxPosts

ChatNext == /\ part = "chat"
            /\ C!Next /\ FewPosts'
            /\ UNCHANGED <<part, draftVars, dealVars, afterVars, wizardVars, payVars>>

(* Bound: a form is followed as long as no save races another change.      *)
FormNext == /\ part = "form"
            /\ D!Next /\ ~raced'
            /\ UNCHANGED <<part, chatVars, dealVars, afterVars, wizardVars, payVars>>

DealNext == /\ part = "deal"
            /\ P!Next /\ UNCHANGED <<part, chatVars, draftVars, afterVars, wizardVars, payVars>>

(* Bound: ratings have nothing to do with disputes, and are followed apart *)
(* from them.                                                              *)
Apart == (ratings = {} /\ A!Quiet) \/ \A a \in Agreements : dispute[a].status = "none"

AfterNext == /\ part = "after"
             /\ A!Next /\ Apart'
             /\ UNCHANGED <<part, chatVars, draftVars, dealVars, wizardVars, payVars>>

(* Bound: a wizard is followed as long as nothing crosses a save; its      *)
(* properties say nothing of what comes after.                             *)
WizardNext == /\ part = "wizard"
              /\ W!Next /\ ~crossed'
              /\ UNCHANGED <<part, chatVars, draftVars, dealVars, afterVars, payVars>>

PayNext == /\ part = "pay"
           /\ K!Next /\ UNCHANGED <<part, chatVars, draftVars, dealVars, afterVars, wizardVars>>

Next == ChatNext \/ FormNext \/ DealNext \/ AfterNext \/ WizardNext \/ PayNext

Spec == /\ Init /\ [][Next]_<<part, parts>>
        /\ C!Fairness

-----------------------------------------------------------------------------
(* Each part: its type invariant, and its safety properties.               *)

(* Chat: until it sends a message itself, a page shows the oldest messages *)
(* in order, none twice and none left out, and a message of the other      *)
(* party is shown once (loadMessages, listMessages).                       *)
ReaderMissesNothing ==
    part = "chat" => C!TypeOK /\ C!ReaderMissesNothing /\ C!OthersShownOnce

(* Drafts: the page creates one draft (persist), and what is saved is what *)
(* the page shows but for the fields that were emptied in it (persist,     *)
(* update), unless saves race.                                             *)
DraftIsAsShown == part = "form" => D!TypeOK /\ D!OneDraft /\ D!SavedAsShown

(* Pages: what a page offers of the present is accepted, the student can   *)
(* always cancel or complete, unless a page was acted on that was out of   *)
(* date, and a failed activation can be tried again by either party (the   *)
(* conditions of the pages and of the services).                           *)
OffersAreHonoured ==
    part = "deal" => P!TypeOK /\ P!OffersAreHonoured /\ P!DealCanEnd /\ P!RetryIsOffered

(* Aftercare: a party rates an engagement once (create), and the average   *)
(* on the tutor's row is that of the ratings (refreshTutorAggregate),      *)
(* unless ratings overlapped or died.                                      *)
RatingsAreTrue == part = "after" => A!TypeOK /\ A!OneRating /\ A!AverageIsTrue

(* Wizard: a section that was passed is stored as shown (saveBasics to     *)
(* saveFee), and the place goes with the pincode (saveLocation,            *)
(* updateLocation), unless something crossed a save.                       *)
ProfileIsAsShown == part = "wizard" => W!TypeOK /\ W!PassedIsSaved /\ W!PlaceIsOfPincode

(* Checkout: the tutor is charged once (initiate), unless it was in doubt  *)
(* whether a payment had succeeded; the page of success tells the truth    *)
(* (startCheckout); and what a tab has told of as paid is not offered      *)
(* again (the list of commissions and the cache).                          *)
PaymentIsTrue ==
    part = "pay" => K!TypeOK /\ K!ChargedOnce /\ K!SuccessIsTrue /\ K!PaidIsNotOffered

(* What is settled stays so.  A deal that was completed, whatever pages    *)
(* are acted on; the resolution of a dispute, unless two closes overlapped *)
(* (close); what the tutor did not edit in the wizard (the load effect and *)
(* the cache), unless something crossed a save; and a deal is missing from *)
(* the list of conversations only if it ended unopened, or its thread was  *)
(* created in between (listThreads).                                       *)
PastStands ==
    P!FinishedStays /\ A!ResolutionStands /\ W!UntouchedIsKept /\ C!ListsTheDeal

(* Chat: an open page comes to show what there is (loadMessages).          *)
PageSettles == C!PageSettles
=============================================================================
