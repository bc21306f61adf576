------------------------------ MODULE Delivery ------------------------------
(***************************************************************************)
(* Reminders of demos and lessons, and the mails they are delivered by:    *)
(* a scan at every tick of the clock looks for what begins in about an     *)
(* hour and has a notification sent to each party; workers take the mails  *)
(* from a queue and try each some times.                                   *)
(*                                                                         *)
(* Scans run in every instance of the program and in the same one again    *)
(* before an earlier one has ended.  The row of a notification and its job *)
(* in the queue are two things: the code writes the one, BullMQ the other, *)
(* and a process may die between the two.  A call that fails has done      *)
(* nothing, the add of a job included.                                     *)
(***************************************************************************)
EXTENDS Naturals, Sequences, FiniteSets

CONSTANTS Demos, Lessons,   \* what will begin: demo classes and booked lessons
          StartOf,          \* when it begins
          Near, Far,        \* how long before its start it is reminded of
          Take,             \* how many one query returns (50 demos, 40 lessons)
          Attempts,         \* how often a mail is tried (3)
          Scans,            \* scans that may run at once
          Workers,          \* how many jobs are worked on at once
          LastMoment,       \* bound of the clock
          MaxRows,          \* bound: so many notifications
          LastCancel,       \* bound: until then events are called off
          MaxFaults,        \* bound: so many calls fail and processes die
          Nothing

Events == Demos \union Lessons
Parties == {"tutor", "student"}

ASSUME NothingAssumption == Nothing \notin Events
ASSUME FiniteAssumption == IsFiniteSet(Demos) /\ IsFiniteSet(Lessons)
ASSUME NumbersAssumption ==
    /\ {Near, Far, Take, Attempts, Workers, LastMoment, MaxRows, LastCancel, MaxFaults} \subseteq Nat
    /\ Near <= Far /\ Attempts > 0
    /\ StartOf \in [Events -> Nat]

VARIABLES
    now,
    upcoming,     \* the demos still SCHEDULED, the slots still OCCUPIED
    marked,       \* DemoClass.reminderSentAt, and the Redis key of a slot
    notification, \* the rows, in the order of their creation
    job,          \* the job of each row, and how far a worker is with it
    scan,         \* the scans in flight
    mails,        \* history: how often the mail of each row was sent
    orphaned,     \* history: rows that were let go of as they were
    overlapped,   \* history: two scans ran at once
    faults        \* history: how many calls failed and processes died

rows == <<upcoming, marked>>
vars == <<now, rows, notification, job, scan, mails, orphaned, overlapped, faults>>

NotificationStatus == {"PENDING", "SENT", "FAILED"}

Row == [event : Events, party : Parties, status : NotificationStatus,
        attempts : 0 .. Attempts]

(* How often BullMQ lets a job stall: its default, the code sets nothing.  *)
MaxStalls == 1

Working == {"record", "complete", "error", "fail"}
Job == [step : Working \union {"none", "waiting", "giveUp"},
        made : 0 .. Attempts, stalls : 0 .. MaxStalls]
NoJob == [step |-> "none", made |-> 0, stalls |-> 0]

(* The steps of a scan that has a row in hand.                             *)
Sending == {"add", "sync", "record", "error", "final"}
ScanSteps == {"idle", "query", "next", "create", "mark"} \union Sending
Scan == [step : ScanSteps, left : SUBSET Events, event : Events \union {Nothing},
         party : Parties, row : 0 .. MaxRows, attempt : 0 .. Attempts]
Idle == [step |-> "idle", left |-> {}, event |-> Nothing, party |-> "tutor",
         row |-> 0, attempt |-> 0]

At(p, step) == scan[p].step = step

Fault == faults < MaxFaults /\ faults' = faults + 1
NoFault == UNCHANGED faults

Goto(p, local) == scan' = [scan EXCEPT ![p] = local]
Continue(p, step) == Goto(p, [scan[p] EXCEPT !.step = step])

SetStatus(i, status, attempts) ==
    notification' = [notification EXCEPT ![i].status = status, ![i].attempts = attempts]

Tried(i, attempts) == notification' = [notification EXCEPT ![i].attempts = attempts]

Mail(i) == mails' = [mails EXCEPT ![i] = @ + 1]

SetJob(i, j) == job' = [job EXCEPT ![i] = j]
JobStep(i, step) == SetJob(i, [job[i] EXCEPT !.step = step])

(* Nobody will write the status of row i any more.                         *)
LetGo(i) == orphaned' = orphaned \union {i}

Init ==
    /\ now = 0
    /\ upcoming = Events
    /\ marked = {}
    /\ notification = <<>>
    /\ job = [i \in 1 .. MaxRows |-> NoJob]
    /\ scan = [p \in Scans |-> Idle]
    /\ mails = [i \in 1 .. MaxRows |-> 0]
    /\ orphaned = {}
    /\ overlapped = FALSE
    /\ faults = 0

-----------------------------------------------------------------------------
(* The scans. *)

(* The clock strikes in one instance or several; the scans of this minute  *)
(* have asked the database before the next ones begin.                     *)
Tick ==
    /\ now < LastMoment
    /\ \A p \in Scans : ~At(p, "query")
    /\ now' = now + 1
    /\ \E S \in SUBSET {p \in Scans : At(p, "idle")} :
          /\ S # {}
          /\ scan' = [p \in Scans |-> IF p \in S THEN [Idle EXCEPT !.step = "query"]
                                      ELSE scan[p]]
    /\ overlapped' = (overlapped \/ \E p, q \in Scans :
                                       p # q /\ scan'[p] # Idle /\ scan'[q] # Idle)
    /\ UNCHANGED <<rows, notification, job, mails, orphaned, faults>>

Cancel(e) ==
    /\ e \in upcoming
    /\ now <= LastCancel
    /\ upcoming' = upcoming \ {e}
    /\ UNCHANGED <<now, marked, notification, job, scan, mails,
                   orphaned, overlapped, faults>>

InWindow(e) == now + Near <= StartOf[e] /\ StartOf[e] <= now + Far

(* A demo that was reminded of is not returned again, a lesson is.         *)
Due == {e \in upcoming : InWindow(e) /\ (e \in Demos => e \notin marked)}

(* The answers to a query of this set: as many rows as it takes.           *)
Answers(S) ==
    {T \in SUBSET S : Cardinality(T) = IF Cardinality(S) > Take THEN Take ELSE Cardinality(S)}

(* The two services each ask for their own; here one after the other.      *)
Query(p) ==
    /\ At(p, "query")
    /\ \E D \in Answers(Due \intersect Demos), L \in Answers(Due \intersect Lessons) :
          Goto(p, [Idle EXCEPT !.step = "next", !.left = D \union L])
    /\ UNCHANGED <<now, rows, notification, job, mails, orphaned, overlapped, faults>>

(* Mutant: the key in Redis is not looked at.                              *)
Never(e) == FALSE

(* A lesson's key in Redis; a demo is not asked about again.               *)
Already(e) == e \in Lessons /\ e \in marked

NextEvent(p) ==
    /\ At(p, "next")
    /\ \/ scan[p].left = {} /\ Goto(p, Idle)
       \/ \E e \in scan[p].left :
             LET rest == [Idle EXCEPT !.step = "next", !.left = scan[p].left \ {e}]
             IN  \/ Already(e) /\ Goto(p, rest)
                 \/ ~Already(e) /\ Goto(p, [rest EXCEPT !.step = "create", !.event = e])
    /\ UNCHANGED <<now, rows, notification, job, mails, orphaned, overlapped, faults>>

(* Mutant: the event is marked when the first party is notified.           *)
TutorOnly(p) == Goto(p, [scan[p] EXCEPT !.step = "mark"])

(* What follows when a party's notification is on its way.                 *)
Enqueued(p) ==
    Goto(p, IF scan[p].party = "tutor"
            THEN [scan[p] EXCEPT !.step = "create", !.party = "student", !.attempt = 0]
            ELSE [scan[p] EXCEPT !.step = "mark"])

(* An exception: the scan goes on with the next event, unmarked.           *)
Skip(p) == Goto(p, [Idle EXCEPT !.step = "next", !.left = scan[p].left])

CreateRow(p) ==
    /\ At(p, "create")
    /\ \/ /\ Len(notification) < MaxRows
          /\ notification' = Append(notification,
                [event |-> scan[p].event, party |-> scan[p].party,
                 status |-> "PENDING", attempts |-> 0])
          /\ Goto(p, [scan[p] EXCEPT !.step = "add", !.row = Len(notification) + 1])
          /\ NoFault
       \/ UNCHANGED notification /\ Skip(p) /\ Fault
    /\ UNCHANGED <<now, rows, job, mails, orphaned, overlapped>>

AddJob(p) ==
    /\ At(p, "add")
    /\ \/ JobStep(scan[p].row, "waiting") /\ Enqueued(p) /\ NoFault
       \/ UNCHANGED job /\ Goto(p, [scan[p] EXCEPT !.step = "sync", !.attempt = 1]) /\ Fault
    /\ UNCHANGED <<now, rows, notification, mails, orphaned, overlapped>>

(* sendSync: the scan sends the mail itself.                               *)
SyncSend(p) ==
    /\ At(p, "sync")
    /\ \/ Mail(scan[p].row) /\ Continue(p, "record") /\ NoFault
       \/ UNCHANGED mails /\ Continue(p, "error") /\ Fault
    /\ UNCHANGED <<now, rows, notification, job, orphaned, overlapped>>

SyncRecord(p) ==
    /\ At(p, "record")
    /\ \/ SetStatus(scan[p].row, "SENT", scan[p].attempt) /\ Enqueued(p) /\ NoFault
       \/ UNCHANGED notification /\ Continue(p, "error") /\ Fault
    /\ UNCHANGED <<now, rows, job, mails, orphaned, overlapped>>

(* An exception of the catch block leaves sendSync, and the event is       *)
(* skipped.                                                                *)
SyncThrows(p) ==
    UNCHANGED notification /\ LetGo(scan[p].row) /\ Skip(p) /\ Fault

SyncError(p) ==
    /\ At(p, "error")
    /\ \/ /\ Tried(scan[p].row, scan[p].attempt)
          /\ IF scan[p].attempt < Attempts
             THEN Goto(p, [scan[p] EXCEPT !.step = "sync", !.attempt = @ + 1])
             ELSE Continue(p, "final")
          /\ UNCHANGED orphaned /\ NoFault
       \/ SyncThrows(p)
    /\ UNCHANGED <<now, rows, job, mails, overlapped>>

(* After the last attempt the row is FAILED, whether or not a mail went    *)
(* out whose record failed.                                                *)
SyncFinal(p) ==
    /\ At(p, "final")
    /\ \/ /\ SetStatus(scan[p].row, "FAILED", notification[scan[p].row].attempts)
          /\ Enqueued(p)
          /\ UNCHANGED orphaned /\ NoFault
       \/ SyncThrows(p)
    /\ UNCHANGED <<now, rows, job, mails, overlapped>>

(* Mutant: only lessons are marked.                                        *)
MarkLesson(e) == marked' = marked \union ({e} \intersect Lessons)

Mark(e) == marked' = marked \union {e}

MarkEvent(p) ==
    /\ At(p, "mark")
    /\ \/ Mark(scan[p].event) /\ NoFault
       \/ UNCHANGED marked /\ Fault
    /\ Skip(p)
    /\ UNCHANGED <<now, upcoming, notification, job, mails, orphaned, overlapped>>

-----------------------------------------------------------------------------
(* The workers. *)

InWork(i) == job[i].step \in Working

(* A worker takes any job that waits: one that is tried again waits for as *)
(* long as its backoff.  Of a job that stalled the row may be SENT.        *)
Send(i) ==
    /\ job[i].step = "waiting"
    /\ Cardinality({k \in 1 .. MaxRows : InWork(k)}) < Workers
    /\ \/ Mail(i) /\ JobStep(i, "record") /\ NoFault
       \/ UNCHANGED mails /\ JobStep(i, "error") /\ Fault
    /\ UNCHANGED <<now, rows, notification, scan, orphaned, overlapped>>

(* A record that fails counts as a failed attempt: the mail is sent again. *)
Record(i) ==
    /\ job[i].step = "record"
    /\ \/ SetStatus(i, "SENT", job[i].made + 1) /\ JobStep(i, "complete") /\ NoFault
       \/ UNCHANGED notification /\ JobStep(i, "error") /\ Fault
    /\ UNCHANGED <<now, rows, scan, mails, orphaned, overlapped>>

(* The job is taken off the queue after its row was written.               *)
Complete(i) ==
    /\ job[i].step = "complete"
    /\ SetJob(i, NoJob)
    /\ UNCHANGED <<now, rows, notification, scan, mails, orphaned, overlapped, faults>>

(* The catch block writes the attempt; whether or not it can, it throws.   *)
Error(i) ==
    /\ job[i].step = "error"
    /\ \/ Tried(i, job[i].made + 1) /\ NoFault
       \/ UNCHANGED notification /\ Fault
    /\ JobStep(i, "fail")
    /\ UNCHANGED <<now, rows, scan, mails, orphaned, overlapped>>

(* Mutant: onFailed takes the first failure of a job for its last.         *)
AnyTry(n) == n >= 1

(* The test of onFailed: no attempt is left.                               *)
GivesUp(n) == n >= Attempts

(* The queue is done with the job after n attempts, and onFailed is called. *)
Failed(i, n) ==
    IF GivesUp(n)
    THEN SetJob(i, [job[i] EXCEPT !.step = "giveUp", !.made = n]) /\ UNCHANGED orphaned
    ELSE SetJob(i, NoJob) /\ LetGo(i)

(* Mutant: the job is not made again.                                      *)
Forget(i, n) == SetJob(i, NoJob)

Retry(i, n) == SetJob(i, [job[i] EXCEPT !.step = "waiting", !.made = n])

(* The attempt is counted and, unless it was the last one, the job waits   *)
(* for another.                                                            *)
Fail(i) ==
    LET n == job[i].made + 1
    IN  /\ job[i].step = "fail"
        /\ \/ n < Attempts /\ Retry(i, n) /\ UNCHANGED orphaned
           \/ n >= Attempts /\ Failed(i, n)
        /\ UNCHANGED <<now, rows, notification, scan, mails, overlapped, faults>>

(* Mutant: the job is made again after the last attempt.                   *)
GiveUpAndRetry(i) ==
    /\ job[i].step = "giveUp"
    /\ SetStatus(i, "FAILED", job[i].made)
    /\ SetJob(i, [job[i] EXCEPT !.step = "waiting", !.made = 0])
    /\ UNCHANGED <<now, rows, scan, mails, orphaned, overlapped, faults>>

(* onFailed after the last attempt, while the workers go on.  Nothing      *)
(* repeats its write when it fails or the process dies before it; and it   *)
(* may be FAILED now what an earlier run of a stalled job had made SENT.   *)
GiveUp(i) ==
    /\ job[i].step = "giveUp"
    /\ SetJob(i, NoJob)
    /\ \/ SetStatus(i, "FAILED", job[i].made) /\ UNCHANGED orphaned /\ NoFault
       \/ UNCHANGED notification /\ LetGo(i) /\ Fault
    /\ UNCHANGED <<now, rows, scan, mails, overlapped>>

-----------------------------------------------------------------------------
(* A worker dies, or does not reach the queue for so long that the job     *)
(* counts as stalled.  The first time it waits again, the second time it   *)
(* fails, with this attempt counted or not, however many are left.         *)
Stall(i) ==
    /\ InWork(i)
    /\ Fault
    /\ \/ /\ job[i].stalls < MaxStalls
          /\ SetJob(i, [job[i] EXCEPT !.step = "waiting", !.stalls = @ + 1])
          /\ UNCHANGED orphaned
       \/ /\ job[i].stalls = MaxStalls
          /\ \E n \in {job[i].made, job[i].made + 1} : Failed(i, n)
    /\ UNCHANGED <<now, rows, notification, scan, mails, overlapped>>

ScanDies(p) ==
    /\ ~At(p, "idle")
    /\ Fault
    /\ Goto(p, Idle)
    /\ IF scan[p].step \in Sending THEN LetGo(scan[p].row) ELSE UNCHANGED orphaned
    /\ UNCHANGED <<now, rows, notification, job, mails, overlapped>>

ScanStep(p) ==
    \/ Query(p) \/ NextEvent(p) \/ CreateRow(p) \/ AddJob(p)
    \/ SyncSend(p) \/ SyncRecord(p) \/ SyncError(p) \/ SyncFinal(p) \/ MarkEvent(p)

JobMoves(i) == Send(i) \/ Record(i) \/ Complete(i) \/ Error(i) \/ Fail(i) \/ GiveUp(i)

Work == \E i \in 1 .. MaxRows : JobMoves(i)

Next ==
    \/ Tick
    \/ \E e \in Events : Cancel(e)
    \/ \E p \in Scans : ScanStep(p) \/ ScanDies(p)
    \/ Work
    \/ \E i \in 1 .. MaxRows : Stall(i)

Spec == Init /\ [][Next]_vars

(* Scans and the workers run.                                              *)
FairSpec == /\ Spec
            /\ \A p \in Scans : WF_vars(ScanStep(p))
            /\ WF_vars(Work)
-----------------------------------------------------------------------------
TypeOK ==
    /\ now \in 0 .. LastMoment
    /\ upcoming \subseteq Events /\ marked \subseteq Events
    /\ notification \in Seq(Row) /\ Len(notification) <= MaxRows
    /\ job \in [1 .. MaxRows -> Job]
    /\ scan \in [Scans -> Scan]
    /\ mails \in [1 .. MaxRows -> Nat]
    /\ orphaned \subseteq DOMAIN notification
    /\ overlapped \in BOOLEAN /\ faults \in 0 .. MaxFaults

InScan(p, i) == scan[p].step \in Sending /\ scan[p].row = i

(* Somebody will still do something about row i.                           *)
InHand(i) == job[i].step # "none" \/ \E p \in Scans : InScan(p, i)

(* The rows are well-formed.  A notification that is SENT was mailed, and  *)
(* its job is done unless it stalled.  One that is FAILED was tried as     *)
(* often as it may be, and nobody tries it again.  One that is PENDING is  *)
(* in somebody's hands, unless the process that had it died or could not   *)
(* write its row.  None is mailed more often than its attempts and the one *)
(* stall allow.                                                            *)
StatusIsTrue ==
    /\ TypeOK
    /\ \A i \in DOMAIN notification :
          LET n == notification[i]
          IN  /\ n.status = "SENT" => /\ mails[i] > 0
                                      /\ job[i].step \in {"none", "complete"} \/ job[i].stalls > 0
              /\ n.status = "FAILED" => n.attempts = Attempts /\ ~InHand(i)
              /\ n.status = "PENDING" => InHand(i) \/ i \in orphaned
              /\ mails[i] <= Attempts + MaxStalls

Notified(e, who) ==
    \E i \in DOMAIN notification : notification[i].event = e /\ notification[i].party = who

(* What counts as reminded of has a notification for either party, also    *)
(* when scans overlap, calls fail and processes die.                       *)
MarkedIsNotified == \A e \in marked, who \in Parties : Notified(e, who)

(* As long as scans do not overlap and nothing fails, nobody is reminded   *)
(* twice of the same thing: neither by two notifications nor by one.       *)
RemindedOnce ==
    ~overlapped /\ faults = 0 =>
        \A i \in DOMAIN notification :
            /\ mails[i] <= 1
            /\ \A j \in DOMAIN notification :
                  notification[i].event = notification[j].event
                  /\ notification[i].party = notification[j].party => i = j

(* Of what is still to begin when its hour has come, each party was sent   *)
(* the reminder or its job waits to be sent, though                        *)
(* one query does not return all demos at once: demos as many as the scans *)
(* return that see them in the window; lessons, which are returned again   *)
(* when they were reminded of, only as many as one query returns.  Nothing *)
(* has failed, and no two scans have asked for the same demos.             *)
NobodyForgotten ==
    \A e \in upcoming :
        /\ ~overlapped /\ faults = 0
        /\ Far < StartOf[e] /\ StartOf[e] < now + Near
        /\ e \in Demos => Cardinality(Demos) <= Take * (Far - Near + 1)
        /\ e \in Lessons => Cardinality(Lessons) <= Take
        /\ \A p \in Scans : At(p, "idle")
        => \A who \in Parties : \E i \in DOMAIN notification :
              /\ notification[i].event = e /\ notification[i].party = who
              /\ mails[i] = 1 \/ job[i].step = "waiting"

(* Whoever takes part is reminded, once, and nobody is left out.           *)
RemindedExactlyOnce == MarkedIsNotified /\ RemindedOnce /\ NobodyForgotten

Waits(i) == /\ i \in DOMAIN notification /\ i \notin orphaned
            /\ notification[i].status = "PENDING"

(* Every notification is SENT or FAILED at last, unless the process that   *)
(* had it died or could not write its row, or its job stalled twice.       *)
RowsSettle == <>[](\A i \in 1 .. MaxRows : ~Waits(i))
=============================================================================
