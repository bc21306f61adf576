# TutorConnect: a formal model

TLA+ specifications of TutorConnect, its API (`src/api`) and its web client
(`src/web`), the TLC configurations that check them on small instances, and
TLAPS proofs of their main properties for every size.  The code is the
reference: each definition that stands for code is listed in `PROJECT.json`
under `map` with the lines it models.

## 1. The system

TutorConnect is a NestJS API over PostgreSQL (Prisma), Redis, an e-mail queue
(BullMQ), Cloudinary and Razorpay, and a Next.js client.  Students post
requirements; tutors apply or are invited; the student shortlists one, they may
try a demo class, the student generates an agreement, both sign it, its lessons
are booked, and the tutor owes the platform a one-time commission, plus a
registration fee.  Both chat, rate and may open a dispute.

There is no lock, no `SELECT ... FOR UPDATE` and no status in a `WHERE` clause
of an update.  Nearly every handler has the same shape: read a row, check its
status, await something, update the row *by id*.  All that orders two requests
is the database: single statements and transactions are atomic at READ
COMMITTED, unique constraints hold.  Each process runs one event loop, but
handlers interleave at every `await`, and several instances may run.  The
client has no push channel: a page shows what it loaded, perhaps from a cache,
and offers actions that fit that.

| Component | State it keeps | Operations | Works with |
|---|---|---|---|
| requirements | `Requirement.status` | create, update, publish, cancel, complete | matching, agreements |
| matching | `Match.status`, `Application` | apply, invite, shortlist, reject, withdraw, rank, search | requirements, tutors |
| agreements | `Agreement.status`, two signatures, PDF key | generate, sign, activate | matching, schedules, commissions |
| commissions | `Commission.status`, `registrationGross`, `dueAt` | generate, mark overdue, waive, mark paid | agreements, payments, tutors |
| payments | `Payment.status`, gateway order | initiate, verify, webhook, mark success | Razorpay, commissions, tutors |
| tutors | profile, `isDiscoverable`, fee status and plan | save sections, own profile, choose fee plan | verification, commissions |
| verification | `verificationStatus`, document status | upload, approve, reject | tutors |
| schedules | `ScheduleSlot`, exceptions | occupy, release, exceptions | agreements, demo classes |
| demo classes | `DemoClass.status` | book, update status, remind | schedules, matching |
| reminders | a Redis key, a reminder column | two crons | notifications |
| notifications | `Notification.status`, BullMQ jobs | enqueue, send, retry, give up | mail |
| auth | OTP and refresh hash, user status | register, verify, login, refresh, reset, suspend | Redis, mail |
| ratings, chat, disputes | aggregate; thread, messages; status | create, list, close | agreements |
| API client | cache, reads in flight, tokens | read, write, retry, refresh | every page |
| requirement form, profile wizard | forms, timers, saves in flight | autosave, steps, location | requirements, tutors |
| pages of a deal, chat page, checkout | what was loaded | offer, send, poll, pay | API client |
| students, admin, catalog, geo, audit, PII, storage | profiles, logs | mostly reads | all |

What is hard, by component, and what makes it correct:

* **agreements** - two signers, double clicks and retries run `sign` and
  `activate` at once; a crash between the signature and the activation, or
  between the activation and the commission.  In force only when signed by both
  and stored, student first, charged once.
* **matching, requirements** - statuses written from stale reads; two tutors
  competing; cancelling while somebody applies, shortlists or signs.  Nothing
  counts as engaged without a sealed agreement behind it.
* **commissions, payments** - duplicated, late and out-of-order webhooks, the
  browser's own verification, the overdue cron and the admin's waiver all write
  the same rows.  Settled exactly by captured money, and final.
* **discoverability** - six writers with different rules.  Listed when complete
  and nothing is due, at last.
* **schedules, demos** - check, then insert; the check inside `activate` does
  not see the transaction's own rows.  No double booking; a demo holds its time.
* **auth** - read, compare, delete of a one-time password; one stored refresh
  token for all devices.  A code works once; a reset ends old sessions.
* **delivery** - send, then remember that it was sent.  The status of a
  notification is true, and reminders come once.
* **web client** - saves that cross, polls that come late, caches, refreshes
  shared by many calls, payment answers that are lost.

`PROJECT.json` lists these as `hazards`, each at its line, with the properties
that would catch it; a note says so where the code does what a reader may fear
and the properties are therefore stated around it.

## 2. The modules

| Module | What it is |
|---|---|
| `Contract` | abstract: what the platform promises about one agreement |
| `Engagement` | requirements, matches, agreements and commission rows, with requests in flight |
| `Views` | the WHERE clauses of the workflow's pages over `Engagement` |
| `Billing`, `Gst` | fees, commissions, payments, the gateway, overdue scan, waiver; the arithmetic of an invoice |
| `Recurrence`, `Calendar` | weekly occurrences and the buffer; one tutor's demos, lessons, releases and absences |
| `Listing`, `Ranking` | whether a tutor is listed; how listed tutors are scored, found and notified |
| `Sessions` | one account: one-time passwords, login, rotation, reset, suspension |
| `Delivery` | reminders, notification rows, the queue and its worker |
| `ApiClient` | the HTTP client of one browser tab |
| `Chat` | thread, messages, list of conversations, the polling page |
| `Drafts` | the requirement form with autosave |
| `Pages` | what each page of a deal shows and offers, through the cache |
| `Aftercare` | ratings with the tutor's average, disputes |
| `Wizard` | the profile wizard |
| `Checkout` | paying a due from several tabs |
| `*_proofs` | theorems about Engagement (with Views), Billing (with Gst), Calendar, Listing (with Ranking), Sessions, Delivery, ApiClient, and the pages |
| `MC*` | small instances; `MCPages` puts the six modules of pages in one run |

### How code becomes actions

A request in flight is one record in `request` (`call`, `scan`, `save`, ... ):
the statement it runs next, the row it works on, and whatever a later statement
uses of what was read.  An action is one database statement or transaction,
together with the code before the next await:

* `XRead(p, ...)` is the handler up to its last check.  Its guard is the
  code's conditions; a request that fails them changes nothing and is left out.
* `XWrite(p)`, `XTx(p)` and `XCreate(p)` are the writes.  They check only what
  the database checks: a unique constraint (`Agreement.matchId`,
  `Application(requirement, tutor)`, `Commission(tutor, student)`,
  `Rating(agreement, rater)`), or a status the transaction itself reads again.
* `Die(p)` is an exception or a restart at an await.  A rejected upload, order
  or PDF ends a handler in the same way.  The database keeps what was committed.

In the client the code between two awaits is one action and the server's part
of a call another; an answer may be late, lost, or come from the cache.  Two
consecutive reads are one step where the second cannot change the outcome; the
module says why at each place.

Many properties hold only of handlers that do not overlap: the code checks and
writes in separate statements.  Such a module keeps a *history variable*, which
no guard of the code reads, and states the property under it, so that one run
shows both what holds always and what holds because nothing raced:

| Variable | Module | Meaning |
|---|---|---|
| `alone` | Views | no two requests have been in flight at once |
| `overlapped` | Calendar, Listing, Sessions, Delivery | two handlers or scans have |
| `deaths`, `faults` | Listing, Delivery, Sessions | how many handlers died, calls failed |
| `torn`, `clash` | Aftercare | ratings overlapped or died; two closes of a dispute overlapped |
| `raced`, `crossed`, `stale`, `doubt` | Drafts, Wizard, Pages, Checkout | saves raced; something crossed a save; a page out of date was acted on; it was in doubt whether a payment succeeded |

**Engagement** (and `Views`)

| Code | Actions |
|---|---|
| `requirements.service` create / publish / cancel / complete | `CreateRequirement`, `Publish*`, `Cancel*`, `Complete*` |
| `matching.service` apply / invite / shortlist / reject / withdraw | `ApplyRead`, `ApplyLookup`, `ApplyTx`, `Invite*`, `Shortlist*`, `Reject`, `Withdraw*` |
| `agreements.service` generate | `GenerateRead`, `GenerateCreate` |
| `agreements.service` sign | `SignReadStuck/Student/Tutor`, `SignWriteStudent/Tutor`, `SignRefresh` |
| `agreements.service` activate | `ActivateRead`, `ActivateTx` |
| `commissions.service` generateForAgreement | `CommissionRead`, `CommissionCreate` |
| `admin.controller` backfill | `RegenerateCommission` |

Rows are functions of their unique key: a match is a (requirement, tutor) pair
and has at most one agreement; `"none"` means that there is no row yet.
`Eligible` is the tutor's side of `assertTutorEligible`, constant here.  Role
and ownership checks only decide who may call.

**Billing**

| Code | Actions |
|---|---|
| `tutors.service` chooseRegistrationFee | `ChooseRead`, `ChooseWrite` |
| `commissions.service` generateForAgreement | `GenerateRead`, `GenerateCreate` |
| `commissions.service` processAllOverdue, markOverdue | `OverdueRead`, then one `OverdueWrite` per row found |
| `commissions.service` waive / markPaid | `Waive*`, `MarkPaidRead`, `MarkPaidTx` |
| `payments.service` initiate | `InitiateRead`, `InitiateCreate`, `CreateOrder` |
| `payments.service` handleWebhook / verifyClient | `WebhookCaptured`, `WebhookFailed`, `VerifyClient`, `MarkFailed` |
| `payments.service` markSuccess | `MarkSuccessRead`, `MarkSuccessTx`, then markPaid |
| Razorpay (external), the clock | `Capture`, `Decline`, `DueDatePasses` |

The gateway is modelled by what the code relies on: an order is captured at
most once, after any number of failed attempts; a captured or failed webhook
may arrive at any later time and repeatedly, and only captured payments are
signed for the browser.  `InitiateDrop` ends a request when the bound on
payment rows is used up.

**Calendar** (over `Recurrence`): `BookRead/Check/Tx` and `DemoRead/DemoTx` are
`demo-classes.service` book and updateStatus; `ActivateRead`, `ActivateCount`,
`OccupyNext`, `ActivateTx` are what activate and `occupyAgreementSlots` do with
slots; `ReleaseRead/Write`, `AddException`, `RemoveException` the rest of
`schedules.service`.  Rows inserted by a transaction carry its request until it
commits, since the conflict check runs on the main connection.

**Listing**: `Save*`, `Refresh*`, `GetMe*` (`tutors.service`), `Upload*`,
`Decide*` (`verification.service`), `Overdue*`, `Hide`, `Settle`, `Lift*`
(`commissions.service`).  **Ranking** is operators only: `Score`
(`matching-score.ts`), `Ranked`, `Notified`, `Read` (`matching.service`).
`Ranked` is some order, best score first, of everybody a query reaches: the code
orders ties as the database happened to return them.

**Sessions**: `Register*`, `SendOtp`, `StoreOtp`, `Verify*`, `Activate`,
`Login`, `Issue`, `Refresh*`, `Revoke`, `Logout`, `SetPassword*`, `Reset*`
(`auth.service`), and `Suspend`.  A token or code is a value compared for
equality; a new token is one that nobody holds, and a request carries the token
of its tab at the time it was sent.

**Delivery**: `Query` to `MarkEvent` are the two reminder services with
`notifications.service` enqueue (`CreateRow`, `AddJob`) and its fallback
`sendSync` (`Sync*`).  `Send`, `Record`, `Error` and `GiveUp` are
`email.processor`: the mail, the update that says SENT, the update of a failed
attempt, and `onFailed`.  `Complete`, `Fail`, `Retry` and `Stall` are BullMQ's,
which keeps the job in Redis, not in the row: a worker may die between the row's
update and the end of its job, so a row may be SENT whose job waits again.  The
code sets no `maxStalledCount`; by its default of 1 a job that stalls a second
time fails whatever its attempts, and then nobody writes its row.  A stall may
or may not have counted the attempt.  An `add` that throws has made no job.

**ApiClient** follows `api-client.ts`: `StartRead`, `StartWrite`, `Serve`,
`ReadAnswered`, `WriteAnswered`, `CallFailed`, `NextAttempt`, `Unauthorized`,
`ServeRefresh`, `Refreshed`, `Refused`, `Threw`.  A call carries the tab's token
of the moment it is sent, whatever the page passed; the key of a cached answer
tells whether it was asked for with the present token (`fresh`).  A write is to
the path of what is read or to another path of it (`own`): only the first
forgets the cached answer (`Invalidated`), so that publishing, signing or
posting a message forgets nothing.

**The pages** are each named after the page they follow.  `Pages` has one record
for the rows of a deal, and `Accepts` / `Results` for what the API's handlers do
with them, atomically; `Offered` is what a page shows buttons for, and a click
is refused or accepted by `Accepts` at the time it arrives.  `Drafts.Updated` is
the update of a draft: the page leaves out a pincode, address or note that was
emptied, and the service then keeps the stored one.

How the modules meet: Engagement and Billing at the commission row (created
once per pair; then settled); Engagement and Calendar at activation; Billing and
Listing at OVERDUE and SETTLED; Pages, Chat, Wizard and Checkout at the cache
that ApiClient describes (an entry may be answered as long as it is kept).

## 3. The runs

Instances are as small as the case they look for allows.  `Requests` (or
`Calls`, `Scans`, `Handlers`) bounds how many are in flight at once, not how
many there are.  `CHECK_DEADLOCK FALSE` everywhere: the system may really stop
(everything cancelled, completed or paid, or a bound used up).  Symmetry is used
in safety runs only.  The type invariant of a module is the first conjunct of
the first property of its run.

| Run | Instance | Shows |
|---|---|---|
| `engagement_safety` | 1 requirement, 2 tutors, 2 requests, faults | `Consistent` (inductive); `ActiveIsSealed`; `EngagementIsBacked`; implements `Contract` |
| `engagement_pair` | 2 requirements of one student, 2 tutors, 2 requests | when requests are alone: `ChargedWhenAlone`, `EngagedIsSettled`, `ActiveStaysActiveWhenAlone` |
| `engagement_liveness` | 1 requirement, 1 tutor, 3 requests | `SignedIsActivated` |
| `billing_safety` | 1 tutor, 1 commission, 2 payments, 2 requests, faults; fees 0 to 2500 | `Consistent` (inductive), `SettledIsCaptured`; `InvoiceBalances` |
| `billing_sequential` | the same with 1 request, which may die, fair | `ConsistentAlone`, `FinalStays`, `CapturedIsRecorded` |
| `calendar` | 2 matches, 3 slots, days of 4 ticks, buffer 1, 2 requests, faults | `DemoHoldsItsTime` always; not overlapped: `NoDoubleBooking`, `CalendarStands` |
| `listing` | 2 sections, 1 document, 1 commission, 2 requests, 1 death; 144 tutors to rank | `ProfileIsConsistent`, `ListsOnlyComplete`, `ListingSettles`; `MatchesAreFair` |
| `sessions` | 1 tab, 5 tokens, 2 requests, 1 fault | `CodeUsedOnce`, `ResetEndsSessions`, `SuspendedIsOut`, `RegistrationCompletes` |
| `delivery` | 2 demos and 1 lesson at one time, 2 scans, 2 attempts, 3 faults, one row per query | `StatusIsTrue`, `MarkedIsNotified`, `RowsSettle`; without faults and overlaps `RemindedExactlyOnce` |
| `api_client` | 3 calls, 2 attempts, 2 writes, 2 mishaps | `NothingRunsTwice`, `CacheHasOwnWrites`, `CallsSettle` |
| `pages` | the six modules of pages, one per behaviour | `ReaderMissesNothing`, `DraftIsAsShown`, `OffersAreHonoured`, `RatingsAreTrue`, `ProfileIsAsShown`, `PaymentIsTrue`, `PastStands`, `PageSettles` |

What is less obvious:

* **engagement.**  Two requests let both signers, or a signer and a canceller,
  overlap; the liveness run adds a third (a retry, a backfill).  No action looks
  at more than two matches.  Two requirements of one student are what the unique
  pair on commissions is about.  The constraint `Pair` of `engagement_pair`
  follows requests as long as they do not overlap, and keeps to matches of one
  tutor or of one requirement.
* **billing.**  Two payments allow two orders for one commission, or a fee
  beside it.  Every remainder of the rounding of 30 per cent and 18 per cent
  occurs among the fees.
* **calendar.**  One match has an evening lesson past midnight and a late one
  that does not keep the buffer to it, the other a noon lesson; the demo starts
  on the next date, on which the tutor may be away.
* **listing.**  `ListingSettles`: whatever overlaps or dies, a profile that stays
  complete with nothing due is listed for good at last.  The tutors to rank have
  no, some and all requested days, lie on both sides of ten years, and within,
  at and beyond their radius.
* **delivery.**  What fails and overlaps is one question, who is reminded
  another, so each behaviour is of one kind, chosen at the start (`noisy` in
  MCDelivery).  In a noisy one both scans find the same demo at one tick; three
  faults, two where the scans overlap, let a job stall twice, or stall after a
  failed attempt.  In a calm one one scan runs over three ticks: a query returns
  one of the two demos, so the next scan must find the other, and events are
  called off until two ticks before.
* **api_client.**  Three calls: one refreshes while two wait, or one reads while
  another writes and a third joins the read.  Two writes: one to the path that
  is cached, one to another.
* **pages.**  The parts share no state; `part` chooses one at the start and the
  others keep their initial state, so that one run checks all.  The bounds cut
  where a property says nothing more: a form is followed until a save races (so
  one save is in flight at a time), the wizard until something crosses a save,
  ratings apart from disputes.  A thread has three messages, one of them the
  user's own: a first load and a poll are both cut by their limits.

### Where the code disagrees with its documents

The run `two_active_matches` (1 requirement, 2 tutors, 1 request at a time)
checks what docs/FUNCTIONALITY.md says, `OneActiveMatch`, and TLC finds the
behaviour of the code that breaks it: a requirement with two shortlisted tutors
gets two agreements, and both become ACTIVE.  `findings` quotes the sentence.

The models show more that a reader of the documents may not expect.  It is named
here since the properties above are stated around it, and say nothing of it:

* Engagement: `apply` and `shortlist` write the requirement's status from an old
  read, and put a requirement in force back on the market.  After a requirement
  was cancelled its match can still be shortlisted, its agreement signed, and the
  requirement activated.  A tutor's second signature that overlaps the first puts
  the activated agreement back to a pending status until its own activation.  A
  process that dies after the activation leaves an agreement nobody is charged
  for until the admin's backfill.  `reject` asks no
  status: a click on a stale inbox rejects the match of an agreement in force,
  which can then not be completed.
* Billing: a waiver, or the overdue scan, that read a commission before it was
  paid writes over PAID; a bad signature or late `payment.failed`, read before the success,
  writes FAILED over it; two orders opened for one commission can both be
  captured; a second commission generated before the first is paid includes the
  registration fee again.
* Calendar: two demos booked at once may take the same time, and rows of one
  schedule that do not keep the buffer are all booked, where the documents say
  that a buffer is enforced between all bookings; an occurrence that conflicts
  with another booking is skipped silently; an overlapping
  update writes over the end of a demo.
* Listing: a tutor hidden for an overdue commission is listed again when he is
  approved, or saves or opens his profile (the checklist says hidden until paid
  or waived); a document uploaded while an admin decides may be judged unseen.
  Ranking: a search reads 200 rows before it ranks them.
* Sessions: an account suspended between the read and the write of a verification
  is ACTIVE again; two verifications can use one code; a login or refresh that read the
  user before a reset stores its token after it.
* Delivery: overlapping scans remind twice; with more lessons than a query takes
  some are never reached; a row whose process dies before the job is made, whose
  last update fails, or whose job stalls twice stays PENDING; a mail whose record
  failed is sent again.
* Chat: a message of the other party that is stored just before one's own and
  was not polled yet is skipped until a reload.  The list of conversations
  misses a deal whose thread is created between its two queries.
* Drafts: saves that race can make a second draft; a draft keeps the pincode,
  address or note that was emptied in the form, and the old coordinates after
  its pincode was changed.
* Pages: they reload through the 30 s cache, of which most writes forget nothing,
  and may show the state before their own click.
* Wizard: passing through the location step replaces the device's place by the
  pincode's; edits during a save are passed over; an emptied pincode stays
  stored.
* Checkout: a payment that was dismissed, or whose verification was lost, and
  whose money arrives later can be charged again; "try again" after a failed
  registration fee leads to the list of commissions, which does not show it.
* Aftercare: ratings that overlap leave an old average; a rating asks only that
  the requirement is COMPLETED.

### Fairness

Weak fairness of the steps of what has been started: `Resume(p)` of a handler
(Engagement, Billing, Listing, Sessions), a scan and the worker (Delivery), the
server, the timeout and the retries of a call (`Progress`, ApiClient), the chat
page's poll, its answers and the expiry of its cache (`C!Fairness`).  These are
promises that an event loop resolves, timers, and a queue's worker; nothing in
them makes a user act.

Strong fairness where the environment repeats something that may find its way
blocked again and again: the captured webhook, which Razorpay repeats until it
is answered with success (`CapturedIsRecorded`); visits of the tutor's own
profile page (`ListingSettles` says that such a visit repairs whatever was
left); a user who goes on registering and verifying (`RegistrationCompletes`
says that trying again helps after whatever died).  The last two are assumptions
about the user, not of the code, and the properties mean nothing without them.

Liveness is weakened where the code does not give more: `RowsSettle` leaves out
rows that were let go of, by a process that died before the job was made, an
update that failed last, or a job that stalled twice (`orphaned`), `CallsSettle`
calls that a throwing refresh left in its queue (`stranded`), and
`CapturedIsRecorded` is checked with one request at a time, where SUCCESS is
final, and of handlers that at last stop dying.

## 4. The proofs

Assumed is only what the modules state as `ASSUME`: constants are well typed,
`Nothing`-like values are none of the real ones, numbers are natural, a new
token is none in use.  Sets are arbitrary, infinite ones too, except where the
code counts or sorts what is in them: the demos and lessons of Delivery, a group
of tutors to be ranked, the agreements whose ratings are averaged.

Every invariant and every action property of the passing runs has a theorem.
A theorem named `TypeCorrect` comes first in a module, then the inductive
invariant (TLC checked each on a run before it was proved), then what follows.

**Engagement_proofs.**  `TypeCorrect` first.  `ActiveIsSealed` is not inductive:
a request about to run `ActivateTx` could have read an agreement nobody signed.
`Consistent` adds what each request in flight knows (`RequestConsistent`: a
tutor's signature in flight saw the student's, an activation has both
signatures, a completion or a commission has the PDF) and what each column
implies about the others (`RowsConsistent`).  From `AlwaysConsistent` follow
`AlwaysSealed`, `AlwaysStudentFirst` and `AlwaysBacked`.
`ImplementsContract` maps each agreement to its stage (`StageOf`) and each step
to one step of `Contract` or to a stutter.
The theorems under `ViewsSpec` are about requests that never overlapped
(`alone`).  `SettledNow` says that then at most one request is in flight, that
what it has read is still in the tables (`Knows`), and that the four tables agree
as soon as nobody is half way through (`TablesAgree`).  This gives
`EngagedStaysSettled`; `ActiveStays`, since the one request that could end an
agreement must have read the requirement ACTIVE; and, with `AllCharged` (an
agreement in force has its commission unless the request that activated it has
still to make it, or died), `ChargedWhenRequestsAreAlone`.

**Billing_proofs.**  `TypeCorrect`, then `Consistent`: payments know what they
are for, orders belong to rows, a handler about to record a success has a
captured payment, and one about to settle a commission has one *captured for
it*.  Captures and fee inclusions only grow, so what was justified stays so.
This gives `SuccessNeedsCapture` and `SettlementNeedsCapture` under every
interleaving and crash.  Finality is false in general; it is proved under the
hypothesis `OneAtATime`, from which `ReadsAreFresh` is inductive and
`SettlesOneAtATime` and `FinalOneAtATime` follow.  So races are the only way to
lose a PAID commission, a successful payment or a paid fee.
`EveryInvoiceBalances` is about the arithmetic alone, for every set of fees:
bounds on each rounded quotient, added up.  `InvoicesBalance` says so of the
commissions there are.

**Calendar_proofs.**  `DemosHoldTheirTime`, under every interleaving and crash:
each demo has at most one slot, because `BookTx` inserts it in the transaction
that makes the demo, the other status changes release it in the same
transaction, and only agreement slots are released otherwise.
`BookingsKeepApart`, when nothing overlapped: the only request in flight has
tested its interval against every visible slot, and its own uncommitted rows are
of one schedule.  `CalendarKeepsItsWord` is the action property: no booking
falls on an absence, activation books each agreed lesson that was free, and what
became of a demo is final.  Its invariant `KeptInv` adds what an undisturbed handler read and
may rely on (`AllCurrent`), that lessons are of active agreements
(`LessonsOwned`), and that of the weeks an activation has been through each
lesson is written or could not be (`AllWritten`).  `WeekAndRow` and `LessonLasts`
are the arithmetic: the count of what has been tried determines week and row, and
a lesson lasts as long as its row says.

**Listing_proofs.**  Types; then the inductive `Alone` of handlers that do not
overlap (what each has read is still so), which gives `AlwaysConsistent` and
the action property `ListedWhenComplete`, which says nothing of dues (an
overdue tutor may be listed again).  `MatchesStayFair` is about Ranking,
for all tutors, groups and queries: each summand of the score is monotone although
it is rounded, so whoever is better in every respect scores no less; every finite
group has an order best first (induction on its size); and what is cut off, for
notification or for a page of results, is never better than what is kept.

**Sessions_proofs.**  The same shape: `CodeIsUsedOnce`, `ResetEnds`,
`SuspendedStaysOut`.

**Delivery_proofs.**  `StatusStaysTrue` and `MarkedAfterNotified`, whatever fails,
dies, stalls or overlaps.  That a FAILED row is in nobody's hands needs that a row
is in at most one pair of hands: it has a job, or one scan has it (`ScansOK`).
`JobOK` says what the job of a row has come to, in particular that a row that is
SENT has a job only in the moment before it ends or after it stalled, and counts
the mails: one for each attempt counted, each stall, and the one in flight
(`Runs`).  `TutorFirst` says that a scan about to mark an event has notified both
parties.  `RemindedOnTime` counts, when no scans overlapped and nothing failed.
`Once`: a scan makes a row for each party of an event once, before it marks the
event, and each row has been mailed once or waits to be.  `Demand`: every event
that is due is marked, or in the hands of the scan, or was left out by a query
that returned as many others as it may take; the property assumes no more events
than that.  As what is marked has a row for either party, and the row's mail was
sent or its job waits, nobody is forgotten.

**ApiClient_proofs.**  `NothingIsRunTwice` and `OwnWritesAreShown`, from what each
call knows (`CallOK`), who shares whose read (`Sharing`: a read that others may
join was asked for with the present token), that one call at most refreshes
(`OneRefresh`), and which token the tab holds meanwhile (`Session`).

**Pages_proofs.**  A behaviour of MCPages is of one of six parts, and ends where
two saves race or cross; a lemma for each part says what its steps preserve.

* `PayInv` (Checkout): who tells of success has a payment with status SUCCESS;
  without doubt at most one tab can still be charged.
* `DealInv` (Pages): what is COMPLETED is so in both rows, and unless a page out
  of date was acted on, an ACTIVE requirement has its match and its agreement.
* `FormInv` (Drafts): saves are one at a time; what a timer or a save will send
  is what the page shows, and with nothing under way it is stored, but for what
  was emptied.
* `WizardInv` (Wizard): a save has the value shown, the sections before the
  current step are saved, and a section nobody edited is shown as it is stored.
* `ChatInv` (Chat): each answer under way or kept is a stretch of the log, and a
  page that has sent nothing shows a prefix of it; a merge keeps both.
* `AfterInv` (Aftercare): one rating per agreement and rater; unless ratings
  overlapped, the average is of all of them once nobody is adding one.
* `WhatIsPastStands` collects the action properties of the parts.

**Induction.**  The library's induction theorems take an operator as a parameter,
which the installed provers cannot instantiate.  Where a definition is recursive
(the merge of two pages of messages, the sum of scores under an average, the order
of a ranking) its module writes it as a function or a fold, and the proof takes
a least element of the set of counterexamples (`LeastOf`: `WFMin` and
`NatLessThanWellFounded`), which must be empty.

Only model-checked: liveness and ENABLED are out of the prover's reach, hence
`SignedIsActivated`, `CapturedIsRecorded`, `ListingSettles`,
`RegistrationCompletes`, `RowsSettle`, `CallsSettle` and `PageSettles`.  The
violation is a counterexample, which needs no proof.

## 5. Not modelled, and why

* Students' profiles, landing page, dashboards, admin tables, legal texts: they
  send requests that are arrivals of the modules, and show what they get.
* Mail texts, audit rows, PDFs, translations, file contents: nothing reads them
  back to decide.  Their failure is a handler that dies before its next write.
* PII encryption, object storage, the geocoder and PostGIS: a cipher, a store
  and functions; a place is a value that came from a pincode or a device.
* Two tabs that share the refresh cookie: ApiClient is one tab.  What the second
  does to the cookie is the browser's; two tabs can sign each other out.
* A row's other columns (fees, names, times): no property tells them apart.
* A transaction at READ COMMITTED that reads and writes is one step; a write of
  another request between the two has the same effect as one just before.
* `REFUNDED`, `PENDING` and `CANCELLED` of fees and commissions are in the enums,
  but no code sets them; nor does any set a fee to `WAIVED`.

## 6. Plan

Done, in this order: the hiring workflow and its contract, billing, the
calendar, the listing, sessions, delivery, the API client, and the pages; a
proof module for each, and in it every safety and action property of the runs.

What could follow: a composition of Engagement with Calendar, in which activation
books inside its transaction; two tabs around one cookie; an abstract ledger that
Billing implements, and an abstract diary that Calendar implements.
