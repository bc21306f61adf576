-------------------------- MODULE Delivery_proofs --------------------------
(***************************************************************************)
(* Proofs about Delivery, for any number of events, scans, workers,        *)
(* attempts and faults: the status of a notification is true, and parties  *)
(* are reminded once.  The argument is that a row is in at most one pair   *)
(* of hands: it has a job, or one scan has it.                             *)
(***************************************************************************)
EXTENDS Delivery, FiniteSetTheorems, TLAPS

(* A mail was sent for each attempt counted, each stall and the one in     *)
(* flight, at most.                                                        *)
Runs(i) == job[i].made + job[i].stalls + (IF InWork(i) THEN 1 ELSE 0)

JobOK(i) ==
    job[i].step # "none" =>
        /\ notification[i].status # "FAILED"
        /\ notification[i].status = "SENT" => job[i].step = "complete" \/ job[i].stalls > 0
        /\ IF job[i].step = "giveUp" THEN job[i].made = Attempts ELSE job[i].made < Attempts
        /\ job[i].step = "complete" => notification[i].status = "SENT"
        /\ job[i].step = "record" => mails[i] > 0
        /\ mails[i] <= Runs(i)

RowOK(i) ==
    /\ notification[i].status = "SENT" => mails[i] > 0
    /\ notification[i].status = "FAILED" => notification[i].attempts = Attempts
    /\ notification[i].status = "PENDING" => InHand(i) \/ i \in orphaned
    /\ mails[i] <= Attempts + MaxStalls
    /\ JobOK(i)

(* What is not a row yet has no job and no mail.                           *)
Unused == \A i \in 1 .. MaxRows : i > Len(notification) => job[i] = NoJob /\ mails[i] = 0

(* A scan that has the student in hand has notified the tutor.             *)
TutorFirst(p) ==
    /\ scan[p].step \in Sending \union {"create"} /\ scan[p].party = "student" =>
          Notified(scan[p].event, "tutor")
    /\ scan[p].step = "mark" => \A who \in Parties : Notified(scan[p].event, who)

Holds(p, i) ==
    /\ i \in 1 .. Len(notification)
    /\ notification[i].status = "PENDING" /\ job[i] = NoJob
    /\ notification[i].event = scan[p].event /\ notification[i].party = scan[p].party
    /\ IF scan[p].step = "add" THEN mails[i] = 0
       ELSE /\ scan[p].attempt > 0
            /\ mails[i] <= IF scan[p].step = "sync" THEN scan[p].attempt - 1 ELSE scan[p].attempt
    /\ scan[p].step = "record" => mails[i] > 0
    /\ scan[p].step = "final" => notification[i].attempts = Attempts

ScanOK(p) ==
    /\ scan[p].step \in Sending \union {"create", "mark"} => scan[p].event \in Events
    /\ TutorFirst(p)
    /\ scan[p].step \in Sending => Holds(p, scan[p].row)

ScansOK ==
    /\ \A p \in Scans : ScanOK(p)
    /\ \A p, q \in Scans, i \in 1 .. Len(notification) : InScan(p, i) /\ InScan(q, i) => p = q

Inv == /\ TypeOK /\ (\A i \in 1 .. Len(notification) : RowOK(i))
       /\ Unused /\ ScansOK /\ MarkedIsNotified

-----------------------------------------------------------------------------
(* What the operators of the model do. *)

LEMMA Appended ==
    ASSUME NEW S, NEW s \in Seq(S), NEW x \in S
    PROVE  /\ Append(s, x) \in Seq(S) /\ Len(Append(s, x)) = Len(s) + 1
           /\ \A k \in 1 .. Len(s) : Append(s, x)[k] = s[k]
           /\ Append(s, x)[Len(s) + 1] = x
OBVIOUS

LEMMA FaultsAreFew ==
    ASSUME TypeOK
    PROVE  (NoFault => faults' \in 0 .. MaxFaults) /\ (Fault => faults' \in 0 .. MaxFaults)
BY NumbersAssumption DEF NoFault, Fault, TypeOK

LEMMA RowsTyped ==
    ASSUME TypeOK
    PROVE  /\ DOMAIN notification = 1 .. Len(notification)
           /\ Len(notification) \in Nat /\ Len(notification) <= MaxRows /\ MaxRows \in Nat
           /\ \A i \in 1 .. Len(notification) :
                 /\ i \in 1 .. MaxRows /\ notification[i] \in Row
                 /\ job[i] \in Job /\ mails[i] \in Nat
                 /\ job[i].made \in Nat /\ job[i].stalls \in {0, 1} /\ job[i].made <= Attempts
           /\ Attempts \in Nat /\ Attempts > 0
<1>1. notification \in Seq(Row) /\ Len(notification) <= MaxRows /\ MaxRows \in Nat
      /\ Attempts \in Nat /\ Attempts > 0
  BY NumbersAssumption DEF TypeOK
<1>2. /\ DOMAIN notification = 1 .. Len(notification) /\ Len(notification) \in Nat
      /\ \A i \in 1 .. Len(notification) : notification[i] \in Row
  BY <1>1
<1>3. \A i \in 1 .. Len(notification) : i \in 1 .. MaxRows
  BY <1>1, <1>2
<1>4. \A i \in 1 .. Len(notification) : job[i] \in Job /\ mails[i] \in Nat
  BY <1>3 DEF TypeOK
<1>5. \A i \in 1 .. Len(notification) :
         job[i].made \in Nat /\ job[i].stalls \in {0, 1} /\ job[i].made <= Attempts
  BY <1>1, <1>4 DEF Job, MaxStalls
<1> QED
  BY <1>1, <1>2, <1>3, <1>4, <1>5

(* Row i alone changes, and who it is for does not.                        *)
SameRows(i) ==
    /\ notification' \in Seq(Row) /\ Len(notification') = Len(notification)
    /\ \A j \in 1 .. Len(notification) : j # i => notification'[j] = notification[j]
    /\ notification'[i].event = notification[i].event
    /\ notification'[i].party = notification[i].party

LEMMA StatusSet ==
    ASSUME TypeOK, NEW i \in 1 .. Len(notification), NEW s \in NotificationStatus,
           NEW n \in 0 .. Attempts, SetStatus(i, s, n)
    PROVE  SameRows(i) /\ notification'[i].status = s /\ notification'[i].attempts = n
<1> DEFINE r == [notification[i] EXCEPT !.status = s, !.attempts = n]
<1>1. notification[i] \in Row /\ DOMAIN notification = 1 .. Len(notification)
  BY RowsTyped
<1>2. notification' = [notification EXCEPT ![i] = r]
  BY <1>1 DEF SetStatus
<1>3. r \in Row
  BY <1>1 DEF Row
<1>4. r.status = s /\ r.attempts = n /\ r.event = notification[i].event
      /\ r.party = notification[i].party
  BY <1>1 DEF Row
<1> HIDE DEF r
<1>5. notification \in Seq(Row)
  BY DEF TypeOK
<1>6. notification' \in Seq(Row) /\ Len(notification') = Len(notification)
  BY <1>2, <1>3, <1>5
<1> QED
  BY <1>2, <1>4, <1>5, <1>6 DEF SameRows

LEMMA TriedSet ==
    ASSUME TypeOK, NEW i \in 1 .. Len(notification), NEW n \in 0 .. Attempts, Tried(i, n)
    PROVE  /\ SameRows(i) /\ notification'[i].status = notification[i].status
           /\ notification'[i].attempts = n
<1>1. notification[i] \in Row /\ DOMAIN notification = 1 .. Len(notification)
  BY RowsTyped
<1>2. [notification[i] EXCEPT !.attempts = n]
      = [notification[i] EXCEPT !.status = notification[i].status, !.attempts = n]
  BY <1>1 DEF Row
<1>3. notification' = [notification EXCEPT ![i] = [notification[i] EXCEPT !.attempts = n]]
  BY <1>1 DEF Tried
<1>4. notification' = [notification EXCEPT ![i] = [notification[i] EXCEPT
                           !.status = notification[i].status, !.attempts = n]]
  BY <1>2, <1>3
<1>5. SetStatus(i, notification[i].status, n) /\ notification[i].status \in NotificationStatus
  BY <1>1, <1>4 DEF SetStatus, Row
<1> QED
  BY <1>5, StatusSet

LEMMA NothingSet ==
    ASSUME TypeOK, NEW i \in 1 .. Len(notification), UNCHANGED notification
    PROVE  SameRows(i)
BY DEF SameRows, TypeOK

LEMMA MailSent ==
    ASSUME TypeOK, NEW i \in 1 .. MaxRows, Mail(i)
    PROVE  /\ mails' \in [1 .. MaxRows -> Nat] /\ mails'[i] = mails[i] + 1
           /\ \A j \in 1 .. MaxRows : j # i => mails'[j] = mails[j]
BY DEF Mail, TypeOK

LEMMA JobSet ==
    ASSUME TypeOK, NEW i \in 1 .. MaxRows, NEW j \in Job, SetJob(i, j)
    PROVE  /\ job' \in [1 .. MaxRows -> Job] /\ job'[i] = j
           /\ \A k \in 1 .. MaxRows : k # i => job'[k] = job[k]
BY DEF SetJob, TypeOK

LEMMA NoJobTyped == NoJob \in Job /\ NoJob.step = "none" /\ NoJob.made = 0 /\ NoJob.stalls = 0
BY NumbersAssumption DEF NoJob, Job, Working, MaxStalls

LEMMA JobStepSet ==
    ASSUME TypeOK, NEW i \in 1 .. MaxRows,
           NEW step \in Working \union {"none", "waiting", "giveUp"}, JobStep(i, step)
    PROVE  /\ job' \in [1 .. MaxRows -> Job] /\ job'[i].step = step
           /\ job'[i].made = job[i].made /\ job'[i].stalls = job[i].stalls
           /\ \A k \in 1 .. MaxRows : k # i => job'[k] = job[k]
<1>1. job[i] \in Job
  BY DEF TypeOK
<1> DEFINE j == [job[i] EXCEPT !.step = step]
<1>2. j \in Job /\ j.step = step /\ j.made = job[i].made /\ j.stalls = job[i].stalls
  BY <1>1 DEF Job
<1> HIDE DEF j
<1>3. SetJob(i, j)
  BY DEF JobStep, j
<1> QED
  BY <1>2, <1>3, JobSet

LEMMA ScanTyped ==
    ASSUME TypeOK, NEW p \in Scans
    PROVE  /\ scan[p] \in Scan /\ scan[p].left \subseteq Events /\ scan[p].party \in Parties
           /\ scan[p].row \in 0 .. MaxRows /\ scan[p].attempt \in 0 .. Attempts
           /\ scan[p].event \in Events \union {Nothing}
BY DEF TypeOK, Scan

LEMMA Gone ==
    ASSUME TypeOK, NEW p \in Scans, NEW local \in Scan, Goto(p, local)
    PROVE  /\ scan' \in [Scans -> Scan] /\ scan'[p] = local
           /\ \A q \in Scans : q # p => scan'[q] = scan[q]
BY DEF TypeOK, Goto

LEMMA IdleIsTyped == Idle \in Scan /\ Idle.step = "idle"
BY NumbersAssumption DEF Idle, Scan, ScanSteps, Parties

(* The only rows that are kept are those that were.                        *)
LEMMA StillNotified ==
    ASSUME TypeOK, Len(notification) <= Len(notification'), Len(notification') \in Nat,
           DOMAIN notification' = 1 .. Len(notification'),
           \A j \in 1 .. Len(notification) : /\ notification'[j].event = notification[j].event
                                             /\ notification'[j].party = notification[j].party
    PROVE  \A e, who : Notified(e, who) => Notified(e, who)'
<1> SUFFICES ASSUME NEW e, NEW who, Notified(e, who) PROVE Notified(e, who)'
  OBVIOUS
<1>1. PICK i \in 1 .. Len(notification) :
         notification[i].event = e /\ notification[i].party = who
  BY RowsTyped DEF Notified
<1>2. i \in 1 .. Len(notification')
  BY RowsTyped
<1> QED
  BY <1>1, <1>2 DEF Notified

-----------------------------------------------------------------------------
(* Whoever has row i changes it, and keeps it or hands it on.              *)

(* A scan that changes had the row, and has it still or no row.            *)
Hands(p, i) ==
    \/ scan'[p] = scan[p] /\ ~InScan(p, i)
    \/ /\ InScan(p, i)
       /\ scan'[p].step \in Sending => scan'[p].row = i /\ scan'[p].event = scan[p].event
       /\ ScanOK(p)'

LEMMA RowStep ==
    ASSUME Inv, NEW i \in 1 .. Len(notification), TypeOK', SameRows(i),
           \A j \in 1 .. MaxRows : j # i => job'[j] = job[j] /\ mails'[j] = mails[j],
           orphaned \subseteq orphaned', marked' = marked,
           \A p \in Scans : Hands(p, i), RowOK(i)'
    PROVE  Inv'
<1>0. /\ TypeOK /\ Len(notification') = Len(notification) /\ Len(notification) \in Nat
      /\ DOMAIN notification = 1 .. Len(notification)
      /\ DOMAIN notification' = 1 .. Len(notification)
      /\ \A j \in 1 .. Len(notification) : /\ j \in 1 .. MaxRows
                                           /\ notification'[j].event = notification[j].event
                                           /\ notification'[j].party = notification[j].party
  <2>1. TypeOK /\ notification' \in Seq(Row) /\ Len(notification') = Len(notification)
    BY DEF Inv, SameRows
  <2>2. /\ Len(notification) \in Nat /\ DOMAIN notification = 1 .. Len(notification)
        /\ \A j \in 1 .. Len(notification) : j \in 1 .. MaxRows
    BY <2>1, RowsTyped
  <2>3. DOMAIN notification' = 1 .. Len(notification)
    BY <2>1
  <2>4. \A j \in 1 .. Len(notification) : /\ notification'[j].event = notification[j].event
                                          /\ notification'[j].party = notification[j].party
    BY DEF SameRows
  <2> QED
    BY <2>1, <2>2, <2>3, <2>4
<1>1. \A e, who : Notified(e, who) => Notified(e, who)'
  BY <1>0, StillNotified
<1>2. ASSUME NEW j \in 1 .. Len(notification), j # i
      PROVE  RowOK(j)'
  <2>1. notification'[j] = notification[j] /\ job'[j] = job[j] /\ mails'[j] = mails[j]
    BY <1>0, <1>2 DEF SameRows
  <2>2. RowOK(j)
    BY DEF Inv
  <2>3. ASSUME NEW p \in Scans, InScan(p, j) PROVE InScan(p, j)'
    BY <1>2, <2>3 DEF Hands, InScan
  <2>4. InHand(j) => InHand(j)'
    BY <2>1, <2>3 DEF InHand
  <2>5. JobOK(j)'
    BY <2>1, <2>2 DEF RowOK, JobOK, Runs, InWork
  <2> QED
    BY <2>1, <2>2, <2>4, <2>5 DEF RowOK
<1>3. Unused'
  BY <1>0 DEF Inv, Unused
<1>4. ASSUME NEW p \in Scans PROVE ScanOK(p)'
  <2>1. CASE scan'[p] = scan[p] /\ ~InScan(p, i)
    <3>0. ScanOK(p)
      BY DEF Inv, ScansOK
    <3>1. TutorFirst(p)'
      BY <1>1, <2>1, <3>0 DEF ScanOK, TutorFirst
    <3>2. ASSUME scan[p].step \in Sending PROVE Holds(p, scan[p].row)'
      <4>1. PICK j \in 1 .. Len(notification) : j = scan[p].row /\ Holds(p, j)
        BY <3>0, <3>2 DEF ScanOK, Holds
      <4>2. j # i
        BY <2>1, <3>2, <4>1 DEF InScan
      <4>3. notification'[j] = notification[j] /\ job'[j] = job[j] /\ mails'[j] = mails[j]
        BY <1>0, <4>2 DEF SameRows
      <4>4. Holds(p, j)'
        BY <1>0, <2>1, <4>1, <4>3 DEF Holds
      <4> QED
        BY <2>1, <4>1, <4>4
    <3> QED
      BY <2>1, <3>0, <3>1, <3>2 DEF ScanOK
  <2> QED
    BY <2>1 DEF Hands
<1>5. ASSUME NEW p \in Scans, NEW q \in Scans, NEW j \in 1 .. Len(notification),
             InScan(p, j)', InScan(q, j)'
      PROVE  p = q
  <2>1. InScan(p, j) /\ InScan(q, j)
    BY <1>5 DEF Hands, InScan
  <2> QED
    BY <2>1 DEF Inv, ScansOK
<1>6. MarkedIsNotified'
  BY <1>1 DEF Inv, MarkedIsNotified
<1> QED
  BY <1>0, <1>2, <1>3, <1>4, <1>5, <1>6 DEF Inv, ScansOK

(* Scans go on that have no row, before and after; nothing else changes.   *)
LEMMA ScansMove ==
    ASSUME Inv, TypeOK', UNCHANGED <<notification, job, mails>>, orphaned \subseteq orphaned',
           \A e \in marked' : e \in marked \/ \A who \in Parties : Notified(e, who),
           \A p \in Scans :
              \/ scan'[p] = scan[p]
              \/ /\ scan'[p].step \notin Sending
                 /\ scan[p].step \in Sending => scan[p].row \in orphaned'
                 /\ scan'[p].step = "create" => scan'[p].event \in Events /\ scan'[p].party = "tutor"
                 /\ scan'[p].step # "mark"
    PROVE  Inv'
<1>1. \A e, who : Notified(e, who)' <=> Notified(e, who)
  BY DEF Notified
<1>2. ASSUME NEW i \in 1 .. Len(notification) PROVE RowOK(i)'
  <2>1. RowOK(i)
    BY DEF Inv
  <2>2. InHand(i) => InHand(i)' \/ i \in orphaned'
    BY DEF InHand, InScan
  <2>3. JobOK(i)'
    BY <2>1 DEF RowOK, JobOK, Runs, InWork
  <2> QED
    BY <2>1, <2>2, <2>3 DEF RowOK
<1>3. ASSUME NEW p \in Scans PROVE ScanOK(p)'
  <2>1. ScanOK(p)
    BY DEF Inv, ScansOK
  <2>2. CASE scan'[p] = scan[p]
    <3>1. TutorFirst(p)'
      BY <1>1, <2>1, <2>2 DEF ScanOK, TutorFirst
    <3>2. scan[p].step \in Sending => Holds(p, scan[p].row)'
      BY <2>1, <2>2 DEF ScanOK, Holds
    <3> QED
      BY <2>1, <2>2, <3>1, <3>2 DEF ScanOK
  <2>3. CASE /\ scan'[p].step \notin Sending
             /\ scan'[p].step = "create" => scan'[p].event \in Events /\ scan'[p].party = "tutor"
             /\ scan'[p].step # "mark"
    BY <2>3 DEF ScanOK, TutorFirst
  <2> QED
    BY <2>2, <2>3
<1>4. \A p \in Scans, i \in 1 .. Len(notification) : InScan(p, i)' => InScan(p, i)
  BY DEF InScan
<1>5. ScansOK'
  BY <1>3, <1>4 DEF Inv, ScansOK
<1>6. Unused'
  BY DEF Inv, Unused
<1>7. MarkedIsNotified'
  BY <1>1 DEF Inv, MarkedIsNotified
<1> QED
  BY <1>2, <1>5, <1>6, <1>7 DEF Inv

-----------------------------------------------------------------------------
(* The scan that has a row. *)

LEMMA Carried ==
    ASSUME Inv, NEW p \in Scans, scan[p].step \in Sending
    PROVE  /\ scan[p].row \in 1 .. Len(notification) /\ scan[p].row \in 1 .. MaxRows
           /\ Holds(p, scan[p].row) /\ RowOK(scan[p].row) /\ InScan(p, scan[p].row)
           /\ scan[p].event \in Events /\ TutorFirst(p)
           /\ \A q \in Scans : q # p => ~InScan(q, scan[p].row)
<1>1. ScanOK(p)
  BY DEF Inv, ScansOK
<1>2. PICK i \in 1 .. Len(notification) : i = scan[p].row
  BY <1>1 DEF ScanOK, Holds
<1>3. InScan(p, i) /\ RowOK(i) /\ i \in 1 .. MaxRows
  BY <1>2, RowsTyped DEF InScan, Inv
<1>4. \A q \in Scans : q # p => ~InScan(q, i)
  BY <1>3 DEF Inv, ScansOK
<1> QED
  BY <1>1, <1>2, <1>3, <1>4 DEF ScanOK

(* A scan that lets go of its row, or never had one.                       *)
LEMMA Skipped ==
    ASSUME TypeOK, NEW p \in Scans, Skip(p)
    PROVE  /\ scan' \in [Scans -> Scan] /\ scan'[p].step = "next"
           /\ scan'[p].left = scan[p].left /\ scan'[p].event = Nothing
           /\ \A q \in Scans : q # p => scan'[q] = scan[q]
<1> DEFINE local == [Idle EXCEPT !.step = "next", !.left = scan[p].left]
<1>1. local \in Scan
  BY IdleIsTyped, ScanTyped DEF Scan, ScanSteps
<1>2. local.step = "next" /\ local.left = scan[p].left /\ local.event = Nothing
  BY DEF Idle
<1> HIDE DEF local
<1>3. Goto(p, local)
  BY DEF Skip, local
<1> QED
  BY <1>1, <1>2, <1>3, Gone

(* The next party's turn, or none is left.                                 *)
LEMMA EnqueuedNext ==
    ASSUME Inv, NEW p \in Scans, scan[p].step \in Sending, Enqueued(p)
    PROVE  /\ scan' \in [Scans -> Scan]
           /\ scan'[p].left = scan[p].left /\ scan'[p].event = scan[p].event
           /\ \/ scan[p].party = "tutor" /\ scan'[p].step = "create" /\ scan'[p].party = "student"
              \/ scan[p].party = "student" /\ scan'[p].step = "mark"
           /\ \A q \in Scans : q # p => scan'[q] = scan[q]
<1>0. TypeOK /\ scan[p] \in Scan /\ 0 \in 0 .. Attempts /\ scan[p].party \in {"tutor", "student"}
  BY NumbersAssumption, ScanTyped DEF Inv, Parties
<1> DEFINE a == [scan[p] EXCEPT !.step = "create", !.party = "student", !.attempt = 0]
           b == [scan[p] EXCEPT !.step = "mark"]
<1>1. a \in Scan /\ a.step = "create" /\ a.event = scan[p].event /\ a.left = scan[p].left
      /\ a.party = "student"
  BY <1>0 DEF Scan, ScanSteps, Parties
<1>2. b \in Scan /\ b.step = "mark" /\ b.event = scan[p].event /\ b.left = scan[p].left
  BY <1>0 DEF Scan, ScanSteps
<1>3. \/ scan[p].party = "tutor" /\ Goto(p, a)
      \/ scan[p].party = "student" /\ Goto(p, b)
  BY <1>0 DEF Enqueued
<1> HIDE DEF a, b
<1> QED
  BY <1>0, <1>1, <1>2, <1>3, Gone

(* When the notification of one party is on its way, the other's turn is   *)
(* next or both are notified.                                              *)
LEMMA EnqueuedOK ==
    ASSUME Inv, NEW p \in Scans, scan[p].step \in Sending, Enqueued(p), SameRows(scan[p].row)
    PROVE  Hands(p, scan[p].row) /\ scan'[p].step \notin Sending
<1>i. PICK i : i = scan[p].row
  OBVIOUS
<1>0. /\ TypeOK /\ i \in 1 .. Len(notification) /\ InScan(p, i) /\ TutorFirst(p)
      /\ notification[i].event = scan[p].event /\ notification[i].party = scan[p].party
      /\ scan[p].event \in Events
  BY <1>i, Carried DEF Inv, Holds
<1>1. DOMAIN notification' = 1 .. Len(notification) /\ Len(notification') = Len(notification)
  BY <1>i DEF SameRows
<1>2. \A e, who : Notified(e, who) => Notified(e, who)'
  <2>1. \A j \in 1 .. Len(notification) : /\ notification'[j].event = notification[j].event
                                          /\ notification'[j].party = notification[j].party
    BY <1>i DEF SameRows
  <2> QED
    BY <1>0, <1>1, <2>1, RowsTyped, StillNotified
<1>3. Notified(scan[p].event, scan[p].party)
  BY <1>0, RowsTyped DEF Notified
<1>4. scan[p].party = "student" => Notified(scan[p].event, "tutor")
  BY <1>0 DEF TutorFirst
<1>5. /\ scan'[p].event = scan[p].event
      /\ \/ scan[p].party = "tutor" /\ scan'[p].step = "create" /\ scan'[p].party = "student"
         \/ scan[p].party = "student" /\ scan'[p].step = "mark"
  BY EnqueuedNext
<1>6. scan'[p].step \notin Sending
  BY <1>5 DEF Sending
<1>7. TutorFirst(p)'
  BY <1>2, <1>3, <1>4, <1>5 DEF TutorFirst, Parties
<1> QED
  BY <1>0, <1>5, <1>6, <1>7, <1>i DEF Hands, ScanOK

(* It goes on with its row.                                                *)
Moved(p, step, n) == Goto(p, [scan[p] EXCEPT !.step = step, !.attempt = n])

LEMMA GoesOn ==
    ASSUME TypeOK, NEW p \in Scans, NEW step \in ScanSteps, NEW n \in 0 .. Attempts,
           Moved(p, step, n)
    PROVE  /\ scan' \in [Scans -> Scan] /\ scan'[p].step = step /\ scan'[p].attempt = n
           /\ scan'[p].row = scan[p].row /\ scan'[p].event = scan[p].event
           /\ scan'[p].party = scan[p].party /\ scan'[p].left = scan[p].left
           /\ \A q \in Scans : q # p => scan'[q] = scan[q]
<1> DEFINE local == [scan[p] EXCEPT !.step = step, !.attempt = n]
<1>1. /\ local \in Scan /\ local.step = step /\ local.attempt = n /\ local.row = scan[p].row
      /\ local.event = scan[p].event /\ local.party = scan[p].party /\ local.left = scan[p].left
  BY ScanTyped DEF Scan
<1> HIDE DEF local
<1>2. Goto(p, local)
  BY DEF local, Moved
<1> QED
  BY <1>1, <1>2, Gone

LEMMA Continued ==
    ASSUME TypeOK, NEW p \in Scans, NEW step \in ScanSteps, Continue(p, step)
    PROVE  /\ scan' \in [Scans -> Scan] /\ scan'[p].step = step
           /\ scan'[p].attempt = scan[p].attempt
           /\ scan'[p].row = scan[p].row /\ scan'[p].event = scan[p].event
           /\ scan'[p].party = scan[p].party /\ scan'[p].left = scan[p].left
           /\ \A q \in Scans : q # p => scan'[q] = scan[q]
<1>1. [scan[p] EXCEPT !.step = step]
      = [scan[p] EXCEPT !.step = step, !.attempt = scan[p].attempt]
  BY ScanTyped DEF Scan
<1>2. Moved(p, step, scan[p].attempt)
  BY <1>1 DEF Continue, Moved
<1>3. scan[p].attempt \in 0 .. Attempts
  BY ScanTyped
<1> QED
  BY <1>2, <1>3, GoesOn

(* A scan that stays with its row keeps what is known of its parties.      *)
LEMMA StaysWith ==
    ASSUME Inv, NEW p \in Scans, NEW i \in 1 .. Len(notification), InScan(p, i), SameRows(i),
           scan'[p].step \in Sending, scan'[p].row = scan[p].row,
           scan'[p].event = scan[p].event, scan'[p].party = scan[p].party, Holds(p, i)'
    PROVE  Hands(p, i)
<1>1. scan[p].row = i /\ scan[p].step \in Sending /\ TutorFirst(p) /\ scan[p].event \in Events
  BY Carried DEF InScan
<1>2. TutorFirst(p)'
  <2>1. /\ TypeOK /\ DOMAIN notification' = 1 .. Len(notification)
        /\ Len(notification') = Len(notification)
        /\ \A j \in 1 .. Len(notification) : /\ notification'[j].event = notification[j].event
                                             /\ notification'[j].party = notification[j].party
    BY DEF SameRows, Inv
  <2>2. \A e, who : Notified(e, who) => Notified(e, who)'
    BY <2>1, RowsTyped, StillNotified
  <2>3. scan'[p].step # "mark"
    BY DEF Sending
  <2> QED
    BY <1>1, <2>2, <2>3 DEF TutorFirst
<1>3. ScanOK(p)'
  BY <1>1, <1>2 DEF ScanOK
<1> QED
  BY <1>1, <1>3 DEF Hands

LEMMA AddJobKeeps == ASSUME Inv, NEW p \in Scans, AddJob(p) PROVE Inv'
<1>0. TypeOK /\ scan[p].step = "add" /\ scan[p].step \in Sending
  BY DEF Inv, AddJob, At, Sending
<1>i. PICK i : i = scan[p].row
  OBVIOUS
<1>1. /\ i \in 1 .. Len(notification) /\ i \in 1 .. MaxRows /\ Holds(p, i) /\ RowOK(i)
      /\ InScan(p, i) /\ \A q \in Scans : q # p => ~InScan(q, i)
  BY <1>0, <1>i, Carried
<1>2. UNCHANGED <<now, rows, notification, mails, orphaned, overlapped>>
      /\ faults' \in 0 .. MaxFaults
  BY <1>0, FaultsAreFew DEF AddJob
<1>3. SameRows(i)
  BY <1>0, <1>1, <1>2, NothingSet
<1>4. CASE JobStep(i, "waiting") /\ Enqueued(p)
  <2>1. /\ job' \in [1 .. MaxRows -> Job] /\ job'[i].step = "waiting"
        /\ job'[i].made = job[i].made /\ job'[i].stalls = job[i].stalls
        /\ \A k \in 1 .. MaxRows : k # i => job'[k] = job[k]
    BY <1>0, <1>1, <1>4, JobStepSet
  <2>2. scan' \in [Scans -> Scan] /\ Hands(p, i) /\ \A q \in Scans : q # p => scan'[q] = scan[q]
    BY <1>0, <1>3, <1>4, <1>i, EnqueuedNext, EnqueuedOK
  <2>3. TypeOK'
    BY <1>0, <1>2, <2>1, <2>2 DEF TypeOK, rows
  <2>4. RowOK(i)'
    <3>1. job'[i].made = 0 /\ job'[i].stalls = 0 /\ mails'[i] = 0 /\ Attempts > 0
          /\ notification'[i] = notification[i] /\ notification[i].status = "PENDING"
      BY <1>0, <1>1, <1>2, <2>1, NoJobTyped, NumbersAssumption DEF Holds
    <3> QED
      BY <1>1, <2>1, <3>1, NumbersAssumption
      DEF RowOK, JobOK, Runs, InWork, Working, InHand, MaxStalls
  <2> QED
    BY <1>1, <1>2, <1>3, <2>1, <2>2, <2>3, <2>4, RowStep DEF Hands, rows
<1>5. CASE UNCHANGED job /\ Goto(p, [scan[p] EXCEPT !.step = "sync", !.attempt = 1])
  <2>1. 1 \in 0 .. Attempts /\ "sync" \in ScanSteps
    BY NumbersAssumption DEF ScanSteps, Sending
  <2>2. /\ scan' \in [Scans -> Scan] /\ scan'[p].step = "sync" /\ scan'[p].attempt = 1
        /\ scan'[p].row = scan[p].row /\ scan'[p].event = scan[p].event
        /\ scan'[p].party = scan[p].party
        /\ \A q \in Scans : q # p => scan'[q] = scan[q]
    BY <1>0, <1>5, <2>1, GoesOn DEF Moved
  <2>3. TypeOK'
    BY <1>0, <1>2, <1>5, <2>2 DEF TypeOK, rows
  <2>4. Holds(p, i)'
    BY <1>0, <1>1, <1>2, <1>5, <2>2 DEF Holds
  <2>5. Hands(p, i)
    BY <1>1, <1>3, <2>2, <2>4, StaysWith DEF Sending
  <2>6. InScan(p, i)'
    BY <1>i, <2>2 DEF InScan, Sending
  <2>7. RowOK(i)'
    BY <1>1, <1>2, <1>5, <2>6 DEF RowOK, JobOK, Runs, InWork, InHand
  <2> QED
    BY <1>1, <1>2, <1>3, <1>5, <2>2, <2>3, <2>5, <2>7, RowStep DEF Hands, rows
<1> QED
  BY <1>4, <1>5, <1>i DEF AddJob

(* A step of sendSync that leaves the job alone: the row is kept and p     *)
(* stays with it.                                                          *)
LEMMA SyncStays ==
    ASSUME Inv, NEW p \in Scans, NEW i \in 1 .. Len(notification), InScan(p, i), SameRows(i),
           TypeOK', UNCHANGED <<marked, job, orphaned>>,
           \A j \in 1 .. MaxRows : j # i => mails'[j] = mails[j],
           \A q \in Scans : q # p => scan'[q] = scan[q],
           scan'[p].step \in Sending, scan'[p].row = scan[p].row,
           scan'[p].event = scan[p].event, scan'[p].party = scan[p].party,
           scan'[p].step # "add", Holds(p, i)'
    PROVE  Inv'
<1>1. \A q \in Scans : q # p => ~InScan(q, i)
  BY DEF Inv, ScansOK
<1>2. Hands(p, i)
  BY StaysWith
<1>3. \A q \in Scans : Hands(q, i)
  BY <1>1, <1>2 DEF Hands
<1>4. InScan(p, i)'
  BY DEF InScan
<1>5. RowOK(i)'
  <2>2. scan'[p].attempt \in 0 .. Attempts /\ Attempts \in Nat /\ mails'[i] \in Nat
    <3>1. i \in 1 .. MaxRows
      BY RowsTyped DEF Inv
    <3>2. scan'[p] \in Scan /\ mails' \in [1 .. MaxRows -> Nat]
      BY DEF TypeOK
    <3> QED
      BY <3>1, <3>2, NumbersAssumption DEF Scan
  <2>1. notification'[i].status = "PENDING" /\ job'[i] = NoJob
        /\ mails'[i] <= scan'[p].attempt
    <3>1. mails'[i] <= IF scan'[p].step = "sync" THEN scan'[p].attempt - 1 ELSE scan'[p].attempt
      BY DEF Holds
    <3>2. notification'[i].status = "PENDING" /\ job'[i] = NoJob
      BY DEF Holds
    <3> QED
      BY <2>2, <3>1, <3>2
  <2> QED
    BY <1>4, <2>1, <2>2, NoJobTyped DEF RowOK, JobOK, InHand, MaxStalls
<1> QED
  BY <1>3, <1>5, RowStep

(* A step of sendSync that lets go of the row.                             *)
LEMMA SyncEnds ==
    ASSUME Inv, NEW p \in Scans, NEW i \in 1 .. Len(notification), InScan(p, i), SameRows(i),
           TypeOK', UNCHANGED <<marked, job, mails>>, orphaned \subseteq orphaned',
           \A q \in Scans : q # p => scan'[q] = scan[q],
           Hands(p, i), scan'[p].step \notin Sending,
           notification'[i].status = "SENT" => mails[i] > 0,
           notification'[i].status = "FAILED" => notification'[i].attempts = Attempts,
           notification'[i].status = "PENDING" => i \in orphaned'
    PROVE  Inv'
<1>1. \A q \in Scans : q # p => ~InScan(q, i)
  BY DEF Inv, ScansOK
<1>2. \A q \in Scans : Hands(q, i)
  BY <1>1 DEF Hands
<1>3. scan[p].row = i /\ scan[p].step \in Sending
  BY DEF InScan
<1>4. RowOK(i) /\ job[i] = NoJob
  BY <1>3, Carried DEF Holds
<1>5. RowOK(i)'
  BY <1>4, NoJobTyped DEF RowOK, JobOK
<1> QED
  BY <1>2, <1>5, RowStep

LEMMA SyncSendKeeps == ASSUME Inv, NEW p \in Scans, SyncSend(p) PROVE Inv'
<1>0. TypeOK /\ scan[p].step = "sync" /\ scan[p].step \in Sending
  BY DEF Inv, SyncSend, At, Sending
<1>i. PICK i : i = scan[p].row
  OBVIOUS
<1>1. i \in 1 .. Len(notification) /\ i \in 1 .. MaxRows /\ Holds(p, i) /\ InScan(p, i)
  BY <1>0, <1>i, Carried
<1>2. UNCHANGED <<now, rows, notification, job, orphaned, overlapped>>
      /\ faults' \in 0 .. MaxFaults
  BY <1>0, FaultsAreFew DEF SyncSend
<1>3. PICK step \in {"record", "error"} :
        /\ Continue(p, step)
        /\ \/ step = "record" /\ Mail(i)
           \/ step = "error" /\ UNCHANGED mails
  BY <1>i DEF SyncSend
<1>4. /\ scan' \in [Scans -> Scan] /\ scan'[p].step = step
      /\ scan'[p].attempt = scan[p].attempt
      /\ scan'[p].row = scan[p].row /\ scan'[p].event = scan[p].event
      /\ scan'[p].party = scan[p].party
      /\ \A q \in Scans : q # p => scan'[q] = scan[q]
  BY <1>0, <1>3, Continued DEF ScanSteps, Sending
<1>5. /\ mails' \in [1 .. MaxRows -> Nat] /\ \A j \in 1 .. MaxRows : j # i => mails'[j] = mails[j]
      /\ mails'[i] = mails[i] \/ mails'[i] = mails[i] + 1
      /\ step = "record" => mails'[i] = mails[i] + 1
  BY <1>0, <1>1, <1>3, MailSent DEF TypeOK
<1>6. TypeOK'
  BY <1>0, <1>2, <1>4, <1>5 DEF TypeOK, rows
<1>7. Holds(p, i)'
  <2>1. mails[i] \in Nat /\ scan[p].attempt \in Nat /\ mails[i] <= scan[p].attempt - 1
        /\ scan[p].attempt > 0
    BY <1>0, <1>1, RowsTyped, ScanTyped, NumbersAssumption DEF Holds
  <2>2. mails'[i] <= scan'[p].attempt
    BY <1>4, <1>5, <2>1
  <2>3. step = "record" => mails'[i] > 0
    BY <1>5, <2>1
  <2> QED
    BY <1>1, <1>2, <1>3, <1>4, <2>1, <2>2, <2>3 DEF Holds
<1> QED
  BY <1>0, <1>1, <1>2, <1>3, <1>4, <1>5, <1>6, <1>7, NothingSet, SyncStays DEF Sending, rows

LEMMA SyncRecordKeeps == ASSUME Inv, NEW p \in Scans, SyncRecord(p) PROVE Inv'
<1>0. TypeOK /\ scan[p].step = "record" /\ scan[p].step \in Sending
  BY DEF Inv, SyncRecord, At, Sending
<1>i. PICK i : i = scan[p].row
  OBVIOUS
<1>1. i \in 1 .. Len(notification) /\ Holds(p, i) /\ InScan(p, i) /\ mails[i] > 0
  BY <1>0, <1>i, Carried DEF Holds
<1>2. UNCHANGED <<now, rows, job, mails, orphaned, overlapped>> /\ faults' \in 0 .. MaxFaults
  BY <1>0, FaultsAreFew DEF SyncRecord
<1>3. CASE SetStatus(i, "SENT", scan[p].attempt) /\ Enqueued(p)
  <2>1. scan[p].attempt \in 0 .. Attempts /\ "SENT" \in NotificationStatus
    BY <1>0, ScanTyped DEF NotificationStatus
  <2>2. SameRows(i) /\ notification'[i].status = "SENT"
    BY <1>0, <1>1, <1>3, <2>1, StatusSet
  <2>3. /\ scan' \in [Scans -> Scan] /\ Hands(p, i) /\ scan'[p].step \notin Sending
        /\ \A q \in Scans : q # p => scan'[q] = scan[q]
    BY <1>0, <1>3, <1>i, <2>2, EnqueuedNext, EnqueuedOK
  <2>4. TypeOK'
    BY <1>0, <1>2, <2>2, <2>3 DEF TypeOK, rows, SameRows
  <2> QED
    BY <1>1, <1>2, <2>2, <2>3, <2>4, SyncEnds DEF rows
<1>4. CASE UNCHANGED notification /\ Continue(p, "error")
  <2>1. /\ scan' \in [Scans -> Scan] /\ scan'[p].step = "error"
        /\ scan'[p].attempt = scan[p].attempt
        /\ scan'[p].row = scan[p].row /\ scan'[p].event = scan[p].event
        /\ scan'[p].party = scan[p].party
        /\ \A q \in Scans : q # p => scan'[q] = scan[q]
    BY <1>0, <1>4, Continued DEF ScanSteps, Sending
  <2>2. TypeOK'
    BY <1>0, <1>2, <1>4, <2>1 DEF TypeOK, rows
  <2>3. Holds(p, i)'
    BY <1>0, <1>1, <1>2, <1>4, <2>1 DEF Holds
  <2> QED
    BY <1>0, <1>1, <1>2, <1>4, <2>1, <2>2, <2>3, NothingSet, SyncStays DEF Sending, rows
<1> QED
  BY <1>3, <1>4, <1>i DEF SyncRecord

LEMMA ThrowsKeeps ==
    ASSUME Inv, NEW p \in Scans, scan[p].step \in Sending, SyncThrows(p),
           UNCHANGED <<now, rows, job, mails, overlapped>>
    PROVE  Inv'
<1>0. TypeOK
  BY DEF Inv
<1>i. PICK i : i = scan[p].row
  OBVIOUS
<1>1. i \in 1 .. Len(notification) /\ Holds(p, i) /\ InScan(p, i) /\ RowOK(i)
  BY <1>i, Carried
<1>2. UNCHANGED notification /\ faults' \in 0 .. MaxFaults /\ orphaned' = orphaned \union {i}
  BY <1>0, <1>i, FaultsAreFew DEF SyncThrows, LetGo
<1>3. /\ scan' \in [Scans -> Scan] /\ scan'[p].step = "next" /\ scan'[p].event = Nothing
      /\ \A q \in Scans : q # p => scan'[q] = scan[q]
  BY <1>0, Skipped DEF SyncThrows
<1>4. TypeOK'
  BY <1>0, <1>1, <1>2, <1>3, RowsTyped DEF TypeOK, rows
<1> QED
  BY <1>2, <1>3, <1>4, <1>i, ScansMove DEF Sending, rows

LEMMA SyncErrorKeeps == ASSUME Inv, NEW p \in Scans, SyncError(p) PROVE Inv'
<1>0. TypeOK /\ scan[p].step = "error" /\ scan[p].step \in Sending
  BY DEF Inv, SyncError, At, Sending
<1>i. PICK i : i = scan[p].row
  OBVIOUS
<1>1. i \in 1 .. Len(notification) /\ Holds(p, i) /\ InScan(p, i)
  BY <1>0, <1>i, Carried
<1>2. UNCHANGED <<now, rows, job, mails, overlapped>>
  BY DEF SyncError
<1>3. CASE SyncThrows(p)
  BY <1>0, <1>2, <1>3, ThrowsKeeps
<1>4. CASE /\ Tried(i, scan[p].attempt)
           /\ IF scan[p].attempt < Attempts
              THEN Goto(p, [scan[p] EXCEPT !.step = "sync", !.attempt = scan[p].attempt + 1])
              ELSE Continue(p, "final")
           /\ UNCHANGED orphaned /\ NoFault
  <2>1. /\ scan[p].attempt \in 0 .. Attempts /\ Attempts \in Nat /\ mails[i] \in Nat
        /\ scan[p].attempt > 0 /\ mails[i] <= scan[p].attempt
    BY <1>0, <1>1, ScanTyped, RowsTyped, NumbersAssumption DEF Holds
  <2>2. /\ SameRows(i) /\ notification'[i].status = "PENDING"
        /\ notification'[i].attempts = scan[p].attempt
    BY <1>0, <1>1, <1>4, <2>1, TriedSet DEF Holds
  <2>3. /\ scan' \in [Scans -> Scan]
        /\ scan'[p].row = scan[p].row /\ scan'[p].event = scan[p].event
        /\ scan'[p].party = scan[p].party
        /\ \/ scan'[p].step = "sync" /\ scan'[p].attempt = scan[p].attempt + 1
           \/ scan'[p].step = "final" /\ scan'[p].attempt = scan[p].attempt
              /\ scan[p].attempt = Attempts
        /\ \A q \in Scans : q # p => scan'[q] = scan[q]
    <3>1. CASE scan[p].attempt < Attempts
      <4>1. scan[p].attempt + 1 \in 0 .. Attempts /\ "sync" \in ScanSteps
        BY <2>1, <3>1 DEF ScanSteps, Sending
      <4>2. PICK n \in 0 .. Attempts : n = scan[p].attempt + 1
        BY <4>1
      <4>3. Moved(p, "sync", n)
        BY <1>4, <3>1, <4>2 DEF Moved
      <4>4. /\ scan' \in [Scans -> Scan] /\ scan'[p].step = "sync" /\ scan'[p].attempt = n
            /\ scan'[p].row = scan[p].row /\ scan'[p].event = scan[p].event
            /\ scan'[p].party = scan[p].party
            /\ \A q \in Scans : q # p => scan'[q] = scan[q]
        BY <1>0, <4>1, <4>3, GoesOn
      <4> QED
        BY <4>2, <4>4
    <3>2. CASE ~(scan[p].attempt < Attempts)
      <4>1. "final" \in ScanSteps /\ scan[p].attempt = Attempts
        BY <2>1, <3>2 DEF ScanSteps, Sending
      <4> QED
        BY <1>0, <1>4, <3>2, <4>1, Continued
    <3> QED
      BY <3>1, <3>2
  <2>4. TypeOK'
    BY <1>0, <1>2, <1>4, <2>2, <2>3, FaultsAreFew DEF TypeOK, rows, SameRows
  <2>5. Holds(p, i)'
    <3>1. /\ i \in 1 .. Len(notification') /\ job'[i] = NoJob
          /\ notification'[i].event = scan'[p].event /\ notification'[i].party = scan'[p].party
      BY <1>1, <1>2, <2>2, <2>3 DEF Holds, SameRows
    <3>2. mails'[i] <= scan'[p].attempt /\ scan'[p].attempt > 0
          /\ (scan'[p].step = "sync" => mails'[i] <= scan'[p].attempt - 1)
      BY <1>2, <2>1, <2>3
    <3>3. scan'[p].step \in {"sync", "final"}
          /\ (scan'[p].step = "final" => notification'[i].attempts = Attempts)
      BY <2>2, <2>3
    <3>4. scan'[p].step # "add" /\ scan'[p].step # "record"
      BY <3>3
    <3>5. mails'[i] <= IF scan'[p].step = "sync" THEN scan'[p].attempt - 1 ELSE scan'[p].attempt
      BY <3>2, <3>3
    <3> QED
      BY <2>2, <3>1, <3>2, <3>3, <3>4, <3>5 DEF Holds
  <2>6. scan'[p].step \in Sending /\ scan'[p].step # "add"
    BY <2>3 DEF Sending
  <2> QED
    BY <1>1, <1>2, <1>4, <2>2, <2>3, <2>4, <2>5, <2>6, SyncStays DEF rows
<1> QED
  BY <1>3, <1>4, <1>i DEF SyncError

LEMMA SyncFinalKeeps == ASSUME Inv, NEW p \in Scans, SyncFinal(p) PROVE Inv'
<1>0. TypeOK /\ scan[p].step = "final" /\ scan[p].step \in Sending
  BY DEF Inv, SyncFinal, At, Sending
<1>i. PICK i : i = scan[p].row
  OBVIOUS
<1>1. /\ i \in 1 .. Len(notification) /\ InScan(p, i)
      /\ notification[i].attempts = Attempts
  BY <1>0, <1>i, Carried DEF Holds
<1>2. UNCHANGED <<now, rows, job, mails, overlapped>>
  BY DEF SyncFinal
<1>3. CASE SyncThrows(p)
  BY <1>0, <1>2, <1>3, ThrowsKeeps
<1>4. CASE SetStatus(i, "FAILED", Attempts) /\ Enqueued(p) /\ UNCHANGED orphaned /\ NoFault
  <2>1. Attempts \in 0 .. Attempts /\ "FAILED" \in NotificationStatus
    BY NumbersAssumption DEF NotificationStatus
  <2>2. /\ SameRows(i) /\ notification'[i].status = "FAILED"
        /\ notification'[i].attempts = Attempts
    BY <1>0, <1>1, <1>4, <2>1, StatusSet
  <2>3. /\ scan' \in [Scans -> Scan] /\ Hands(p, i) /\ scan'[p].step \notin Sending
        /\ \A q \in Scans : q # p => scan'[q] = scan[q]
    BY <1>0, <1>4, <1>i, <2>2, EnqueuedNext, EnqueuedOK
  <2>4. TypeOK'
    BY <1>0, <1>2, <1>4, <2>2, <2>3, FaultsAreFew DEF TypeOK, rows, SameRows
  <2> QED
    BY <1>1, <1>2, <1>4, <2>2, <2>3, <2>4, SyncEnds DEF rows
<1> QED
  BY <1>1, <1>3, <1>4, <1>i DEF SyncFinal

(* The new row is in the hands of its scan alone.                          *)
LEMMA CreateRowKeeps == ASSUME Inv, NEW p \in Scans, CreateRow(p) PROVE Inv'
<1>0. /\ TypeOK /\ scan[p].step = "create" /\ scan[p].event \in Events /\ scan[p] \in Scan
      /\ TutorFirst(p) /\ scan[p].party \in Parties
  BY ScanTyped DEF Inv, CreateRow, At, ScansOK, ScanOK
<1>1. UNCHANGED <<now, rows, job, mails, orphaned, overlapped>>
      /\ faults' \in 0 .. MaxFaults
  BY <1>0, FaultsAreFew DEF CreateRow
<1>2. CASE UNCHANGED notification /\ Skip(p)
  <2>1. /\ scan' \in [Scans -> Scan] /\ scan'[p].step = "next"
        /\ \A q \in Scans : q # p => scan'[q] = scan[q]
    BY <1>0, <1>2, Skipped
  <2>2. TypeOK'
    BY <1>0, <1>1, <1>2, <2>1 DEF TypeOK, rows
  <2> QED
    BY <1>0, <1>1, <1>2, <2>1, <2>2, ScansMove DEF Sending, rows
<1>n. PICK n : n = Len(notification)
  OBVIOUS
<1>3. CASE /\ n < MaxRows
           /\ notification' = Append(notification, [event |-> scan[p].event,
                  party |-> scan[p].party, status |-> "PENDING", attempts |-> 0])
           /\ Goto(p, [scan[p] EXCEPT !.step = "add", !.row = n + 1])
  <2> DEFINE new == [event |-> scan[p].event, party |-> scan[p].party,
                     status |-> "PENDING", attempts |-> 0]
             local == [scan[p] EXCEPT !.step = "add", !.row = n + 1]
  <2>1. /\ new \in Row /\ new.status = "PENDING" /\ new.event = scan[p].event
        /\ new.party = scan[p].party
    <3>1. 0 \in 0 .. Attempts
      BY NumbersAssumption
    <3> QED
      BY <1>0, <3>1 DEF Row, NotificationStatus
  <2>2. n \in Nat /\ notification \in Seq(Row) /\ DOMAIN notification = 1 .. n
        /\ n + 1 \in 1 .. MaxRows
    BY <1>0, <1>3, <1>n, RowsTyped DEF TypeOK
  <2>3. /\ local \in Scan /\ local.step = "add" /\ local.row = n + 1
        /\ local.event = scan[p].event /\ local.party = scan[p].party
    <3>1. n + 1 \in 0 .. MaxRows /\ "add" \in ScanSteps
      BY <2>2 DEF ScanSteps, Sending
    <3> QED
      BY <1>0, <3>1 DEF Scan
  <2> HIDE DEF new, local
  <2>4. /\ notification' \in Seq(Row) /\ Len(notification') = n + 1
        /\ \A k \in 1 .. n : notification'[k] = notification[k]
        /\ notification'[n + 1] = new
    BY <1>3, <1>n, <2>1, <2>2, Appended DEF new
  <2>5. /\ scan' \in [Scans -> Scan] /\ scan'[p] = local
        /\ \A q \in Scans : q # p => scan'[q] = scan[q]
    BY <1>0, <1>3, <2>3, Gone DEF local
  <2>6. DOMAIN notification' = 1 .. n + 1 /\ DOMAIN notification \subseteq 1 .. n + 1
        /\ Len(notification') \in Nat /\ Len(notification) <= Len(notification')
    BY <1>n, <2>2, <2>4
  <2>7. TypeOK'
    <3>1. Len(notification') <= MaxRows
      BY <2>2, <2>4
    <3>2. orphaned' \subseteq DOMAIN notification'
      BY <1>0, <1>1, <2>6 DEF TypeOK
    <3> QED
      BY <1>0, <1>1, <2>4, <2>5, <3>1, <3>2 DEF TypeOK, rows
  <2>8. \A e, who : Notified(e, who) => Notified(e, who)'
    BY <1>0, <1>n, <2>4, <2>6, StillNotified
  <2>9. \A q \in Scans, i \in 1 .. n : InScan(q, i) => q # p /\ InScan(q, i)'
    BY <1>0, <2>5 DEF InScan, Sending
  <2>m. PICK m : m = n + 1
    OBVIOUS
  <2>10. InScan(p, m)' /\ job'[m] = NoJob /\ mails'[m] = 0 /\ notification'[m] = new
         /\ m \in 1 .. Len(notification')
    BY <1>1, <1>n, <2>2, <2>3, <2>4, <2>5, <2>m DEF Inv, Unused, InScan, Sending
  <2>11. ASSUME NEW i \in 1 .. n + 1 PROVE RowOK(i)'
    <3>1. CASE i \in 1 .. n
      <4>1. RowOK(i) /\ notification'[i] = notification[i] /\ job'[i] = job[i]
            /\ mails'[i] = mails[i] /\ orphaned' = orphaned
        BY <1>1, <1>n, <2>4, <3>1 DEF Inv
      <4>2. InHand(i) => InHand(i)'
        BY <2>9, <3>1, <4>1 DEF InHand
      <4>3. JobOK(i)'
        BY <4>1 DEF RowOK, JobOK, Runs, InWork
      <4> QED
        BY <4>1, <4>2, <4>3 DEF RowOK
    <3>2. CASE i = m
      <4>1. InHand(m)' /\ JobOK(m)'
        BY <2>10, NoJobTyped DEF InHand, JobOK
      <4>2. 0 <= Attempts + MaxStalls
        BY NumbersAssumption DEF MaxStalls
      <4> QED
        BY <2>1, <2>10, <3>2, <4>1, <4>2 DEF RowOK
    <3> QED
      BY <2>2, <2>m, <3>1, <3>2
  <2>12. Unused'
    <3>1. \A i : i > n + 1 => i > n \/ i \notin 1 .. MaxRows
      BY <2>2
    <3>2. \A i \in 1 .. MaxRows : i > n => job[i] = NoJob /\ mails[i] = 0
      BY <1>n DEF Inv, Unused
    <3> QED
      BY <1>1, <2>4, <3>1, <3>2 DEF Unused
  <2>13. ASSUME NEW q \in Scans PROVE ScanOK(q)'
    <3>0. ScanOK(q)
      BY DEF Inv, ScansOK
    <3>1. CASE q = p
      <4>1. Holds(p, m)'
        BY <1>1, <2>1, <2>3, <2>5, <2>10 DEF Holds
      <4>2. TutorFirst(p)'
        BY <1>0, <2>3, <2>5, <2>8 DEF TutorFirst
      <4> QED
        BY <1>0, <2>3, <2>5, <2>m, <3>1, <4>1, <4>2 DEF ScanOK
    <3>2. CASE q # p
      <4>1. scan'[q] = scan[q]
        BY <2>5, <3>2
      <4>2. TutorFirst(q)'
        BY <2>8, <3>0, <4>1 DEF ScanOK, TutorFirst
      <4>3. ASSUME scan[q].step \in Sending PROVE Holds(q, scan[q].row)'
        <5>1. PICK i \in 1 .. n : i = scan[q].row /\ Holds(q, i)
          BY <1>n, <3>0, <4>3 DEF ScanOK, Holds
        <5>2. notification'[i] = notification[i] /\ job'[i] = job[i] /\ mails'[i] = mails[i]
              /\ i \in 1 .. Len(notification')
          BY <1>1, <2>2, <2>4
        <5>3. Holds(q, i)'
          BY <4>1, <5>1, <5>2 DEF Holds
        <5> QED
          BY <4>1, <5>1, <5>3
      <4> QED
        BY <3>0, <4>1, <4>2, <4>3 DEF ScanOK
    <3> QED
      BY <3>1, <3>2
  <2>14. ASSUME NEW q \in Scans, NEW r \in Scans, NEW i \in 1 .. n + 1, InScan(q, i)', InScan(r, i)'
         PROVE  q = r
    <3>1. ASSUME NEW s \in Scans, s # p, InScan(s, i)' PROVE i \in 1 .. n /\ InScan(s, i)
      <4>1. scan[s].step \in Sending /\ scan[s].row = i
        BY <2>5, <3>1 DEF InScan
      <4> QED
        BY <1>n, <4>1, Carried DEF InScan
    <3>2. InScan(p, i)' => i = n + 1
      BY <2>3, <2>5 DEF InScan
    <3>3. n + 1 \notin 1 .. n
      BY <2>2
    <3> QED
      BY <1>n, <2>14, <3>1, <3>2, <3>3 DEF Inv, ScansOK
  <2>15. MarkedIsNotified'
    BY <1>1, <2>8 DEF Inv, MarkedIsNotified, rows
  <2> QED
    BY <2>4, <2>7, <2>11, <2>12, <2>13, <2>14, <2>15 DEF Inv, ScansOK
<1> QED
  BY <1>2, <1>3, <1>n DEF CreateRow

-----------------------------------------------------------------------------
(* The other steps of the scans. *)

LEMMA TickKeeps == ASSUME Inv, Tick PROVE Inv'
<1> DEFINE asks == [Idle EXCEPT !.step = "query"]
<1>0. TypeOK
  BY DEF Inv
<1>1. /\ now < LastMoment /\ now' = now + 1
      /\ UNCHANGED <<rows, notification, job, mails, orphaned, faults>>
  BY DEF Tick
<1>2. PICK S \in SUBSET {p \in Scans : At(p, "idle")} :
        scan' = [p \in Scans |-> IF p \in S THEN [Idle EXCEPT !.step = "query"] ELSE scan[p]]
  BY DEF Tick
<1>3. asks \in Scan /\ asks.step = "query"
  BY IdleIsTyped DEF Idle, Scan, ScanSteps
<1> HIDE DEF asks
<1>4. /\ scan' \in [Scans -> Scan]
      /\ \A p \in Scans : scan'[p] = scan[p] \/ (scan'[p] = asks /\ scan[p].step = "idle")
  BY <1>0, <1>2, <1>3 DEF TypeOK, asks, At
<1>5. overlapped' \in BOOLEAN
  BY DEF Tick
<1>6. now' \in 0 .. LastMoment
  BY <1>0, <1>1, NumbersAssumption DEF TypeOK
<1>7. TypeOK'
  BY <1>0, <1>1, <1>4, <1>5, <1>6 DEF TypeOK, rows
<1> QED
  BY <1>1, <1>3, <1>4, <1>7, ScansMove DEF Sending, rows

(* One scan goes on that has no row, before and after.                     *)
LEMMA OneMoves ==
    ASSUME Inv, NEW p \in Scans, NEW local \in Scan, Goto(p, local),
           scan[p].step \notin Sending, local.step \in {"idle", "next", "create"},
           local.step = "create" => local.event \in Events /\ local.party = "tutor",
           UNCHANGED <<now, rows, notification, job, mails, orphaned, overlapped, faults>>
    PROVE  Inv'
<1>0. TypeOK
  BY DEF Inv
<1>1. /\ scan' \in [Scans -> Scan] /\ scan'[p] = local
      /\ \A q \in Scans : q # p => scan'[q] = scan[q]
  BY <1>0, Gone
<1>2. TypeOK'
  BY <1>0, <1>1 DEF TypeOK, rows
<1> QED
  BY <1>1, <1>2, ScansMove DEF Sending, rows

LEMMA QueryKeeps == ASSUME Inv, NEW p \in Scans, Query(p) PROVE Inv'
<1>1. PICK left \in SUBSET Events : Goto(p, [Idle EXCEPT !.step = "next", !.left = left])
  <2>1. PICK D \in Answers(Due \intersect Demos), L \in Answers(Due \intersect Lessons) :
          Goto(p, [Idle EXCEPT !.step = "next", !.left = D \union L])
    BY DEF Query
  <2>2. D \union L \subseteq Events
    BY DEF Answers, Events
  <2> QED
    BY <2>1, <2>2
<1> DEFINE local == [Idle EXCEPT !.step = "next", !.left = left]
<1>2. local \in Scan /\ local.step = "next"
  BY IdleIsTyped DEF Idle, Scan, ScanSteps
<1>3. UNCHANGED <<now, rows, notification, job, mails, orphaned, overlapped, faults>>
      /\ scan[p].step \notin Sending
  BY DEF Query, At, Sending
<1> QED
  BY <1>1, <1>2, <1>3, OneMoves

LEMMA NextEventKeeps == ASSUME Inv, NEW p \in Scans, NextEvent(p) PROVE Inv'
<1>0. TypeOK /\ scan[p] \in Scan /\ scan[p].left \subseteq Events
  BY ScanTyped DEF Inv
<1>1. UNCHANGED <<now, rows, notification, job, mails, orphaned, overlapped, faults>>
      /\ scan[p].step \notin Sending
  BY DEF NextEvent, At, Sending
<1>2. CASE Goto(p, Idle)
  BY <1>1, <1>2, IdleIsTyped, OneMoves
<1>3. ASSUME NEW e \in Events, Goto(p, [Idle EXCEPT !.step = "next", !.left = scan[p].left \ {e}])
      PROVE  Inv'
  <2> DEFINE local == [Idle EXCEPT !.step = "next", !.left = scan[p].left \ {e}]
  <2>1. local \in Scan /\ local.step = "next"
    BY <1>0, IdleIsTyped DEF Idle, Scan, ScanSteps
  <2> QED
    BY <1>1, <1>3, <2>1, OneMoves
<1>4. ASSUME NEW e \in Events,
             Goto(p, [[Idle EXCEPT !.step = "next", !.left = scan[p].left \ {e}]
                         EXCEPT !.step = "create", !.event = e])
      PROVE  Inv'
  <2> DEFINE local == [[Idle EXCEPT !.step = "next", !.left = scan[p].left \ {e}]
                         EXCEPT !.step = "create", !.event = e]
  <2>1. local \in Scan /\ local.step = "create" /\ local.event = e /\ local.party = "tutor"
    BY <1>0, IdleIsTyped DEF Idle, Scan, ScanSteps
  <2> HIDE DEF local
  <2>2. Goto(p, local)
    BY <1>4 DEF local
  <2> QED
    BY <1>1, <2>1, <2>2, OneMoves
<1>5. \/ Goto(p, Idle)
      \/ \E e \in Events : \/ Goto(p, [Idle EXCEPT !.step = "next", !.left = scan[p].left \ {e}])
                           \/ Goto(p, [[Idle EXCEPT !.step = "next", !.left = scan[p].left \ {e}]
                                          EXCEPT !.step = "create", !.event = e])
  BY <1>0 DEF NextEvent
<1> QED
  BY <1>2, <1>3, <1>4, <1>5

LEMMA MarkEventKeeps == ASSUME Inv, NEW p \in Scans, MarkEvent(p) PROVE Inv'
<1>0. /\ TypeOK /\ scan[p].step = "mark" /\ scan[p].event \in Events
      /\ \A who \in Parties : Notified(scan[p].event, who)
  BY DEF Inv, MarkEvent, At, ScansOK, ScanOK, TutorFirst
<1>1. /\ UNCHANGED <<now, upcoming, notification, job, mails, orphaned, overlapped>>
      /\ faults' \in 0 .. MaxFaults /\ Skip(p)
  BY <1>0, FaultsAreFew DEF MarkEvent
<1>2. marked' \subseteq Events /\ \A e \in marked' : e \in marked \/ e = scan[p].event
  BY <1>0 DEF MarkEvent, Mark, TypeOK
<1>3. /\ scan' \in [Scans -> Scan] /\ scan'[p].step = "next"
      /\ \A q \in Scans : q # p => scan'[q] = scan[q]
  BY <1>0, <1>1, Skipped
<1>4. TypeOK'
  BY <1>0, <1>1, <1>2, <1>3 DEF TypeOK
<1> QED
  BY <1>0, <1>1, <1>2, <1>3, <1>4, ScansMove DEF Sending

LEMMA ScanDiesKeeps == ASSUME Inv, NEW p \in Scans, ScanDies(p) PROVE Inv'
<1>0. TypeOK
  BY DEF Inv
<1>1. /\ UNCHANGED <<now, rows, notification, job, mails, overlapped>>
      /\ faults' \in 0 .. MaxFaults /\ Goto(p, Idle)
  BY <1>0, FaultsAreFew DEF ScanDies
<1>2. /\ scan' \in [Scans -> Scan] /\ scan'[p] = Idle
      /\ \A q \in Scans : q # p => scan'[q] = scan[q]
  BY <1>0, <1>1, IdleIsTyped, Gone
<1>3. /\ orphaned \subseteq orphaned'
      /\ scan[p].step \in Sending => scan[p].row \in orphaned'
      /\ orphaned' \subseteq DOMAIN notification'
  <2>1. orphaned \subseteq DOMAIN notification /\ DOMAIN notification = 1 .. Len(notification)
    BY <1>0, RowsTyped DEF TypeOK
  <2>2. scan[p].step \in Sending => scan[p].row \in 1 .. Len(notification)
    BY Carried
  <2> QED
    BY <1>1, <2>1, <2>2 DEF ScanDies, LetGo
<1>4. TypeOK'
  BY <1>0, <1>1, <1>2, <1>3 DEF TypeOK, rows
<1> QED
  BY <1>1, <1>2, <1>3, <1>4, IdleIsTyped, ScansMove DEF Sending, rows

-----------------------------------------------------------------------------
(* The workers. *)

(* A row whose job a worker has is in no scan's hands.                     *)
LEMMA WorkedOn ==
    ASSUME Inv, NEW i \in 1 .. MaxRows, job[i].step # "none"
    PROVE  /\ i \in 1 .. Len(notification) /\ RowOK(i) /\ JobOK(i)
           /\ \A p \in Scans : ~InScan(p, i)
           /\ job[i] \in Job /\ job[i].made \in Nat /\ job[i].stalls \in {0, 1}
           /\ mails[i] \in Nat /\ Attempts \in Nat /\ Attempts > 0
<1>1. TypeOK /\ Len(notification) \in Nat
  BY RowsTyped DEF Inv
<1>2. i \in 1 .. Len(notification)
  BY <1>1, NoJobTyped DEF Inv, Unused
<1>3. \A p \in Scans : ~InScan(p, i)
  BY NoJobTyped, Carried DEF InScan, Holds
<1> QED
  BY <1>1, <1>2, <1>3, RowsTyped DEF Inv, RowOK

(* A step of a worker with the job of row i.                               *)
LEMMA JobKeeps ==
    ASSUME Inv, NEW i \in 1 .. MaxRows, job[i].step # "none",
           UNCHANGED <<now, rows, scan, overlapped>>, faults' \in 0 .. MaxFaults,
           SameRows(i),
           job' \in [1 .. MaxRows -> Job], mails' \in [1 .. MaxRows -> Nat],
           \A j \in 1 .. MaxRows : j # i => job'[j] = job[j] /\ mails'[j] = mails[j],
           orphaned' = orphaned \/ orphaned' = orphaned \union {i},
           notification'[i].status = "SENT" => mails'[i] > 0,
           notification'[i].status = "FAILED" => notification'[i].attempts = Attempts,
           notification'[i].status = "PENDING" => job'[i].step # "none" \/ i \in orphaned',
           mails'[i] <= Attempts + MaxStalls, JobOK(i)'
    PROVE  Inv'
<1>1. TypeOK /\ i \in 1 .. Len(notification) /\ \A p \in Scans : ~InScan(p, i)
  BY WorkedOn DEF Inv
<1>2. TypeOK'
  <2>1. /\ DOMAIN notification' = 1 .. Len(notification) /\ Len(notification') <= MaxRows
        /\ DOMAIN notification = 1 .. Len(notification) /\ notification' \in Seq(Row)
    BY <1>1, RowsTyped DEF SameRows
  <2>2. orphaned' \subseteq DOMAIN notification'
    BY <1>1, <2>1 DEF TypeOK
  <2> QED
    BY <1>1, <2>1, <2>2 DEF TypeOK, rows
<1>3. RowOK(i)'
  BY DEF RowOK, InHand
<1>4. \A p \in Scans : Hands(p, i)
  BY <1>1 DEF Hands
<1> QED
  BY <1>1, <1>2, <1>3, <1>4, RowStep DEF rows

LEMMA SendKeeps == ASSUME Inv, NEW i \in 1 .. MaxRows, Send(i) PROVE Inv'
<1>0. TypeOK /\ job[i].step = "waiting" /\ job[i].step # "none"
  BY DEF Inv, Send
<1>1. /\ i \in 1 .. Len(notification) /\ RowOK(i) /\ JobOK(i) /\ job[i].made \in Nat
      /\ job[i].stalls \in {0, 1} /\ mails[i] \in Nat /\ Attempts \in Nat
  BY <1>0, WorkedOn
<1>2. UNCHANGED <<now, rows, notification, scan, orphaned, overlapped>>
      /\ faults' \in 0 .. MaxFaults
  BY <1>0, FaultsAreFew DEF Send
<1>3. PICK step \in {"record", "error"} :
        /\ JobStep(i, step)
        /\ \/ step = "record" /\ Mail(i)
           \/ step = "error" /\ UNCHANGED mails
  BY DEF Send
<1>4. /\ job' \in [1 .. MaxRows -> Job] /\ job'[i].step = step
      /\ job'[i].made = job[i].made /\ job'[i].stalls = job[i].stalls
      /\ \A k \in 1 .. MaxRows : k # i => job'[k] = job[k]
  BY <1>0, <1>3, JobStepSet DEF Working
<1>5. /\ mails' \in [1 .. MaxRows -> Nat] /\ \A j \in 1 .. MaxRows : j # i => mails'[j] = mails[j]
      /\ mails'[i] = mails[i] \/ mails'[i] = mails[i] + 1
      /\ step = "record" => mails'[i] = mails[i] + 1
  BY <1>0, <1>3, MailSent DEF TypeOK
<1>6. /\ job[i].made < Attempts /\ mails[i] <= job[i].made + job[i].stalls
      /\ notification[i].status # "FAILED"
      /\ notification[i].status = "SENT" => mails[i] > 0 /\ job[i].stalls > 0
  BY <1>0, <1>1 DEF JobOK, RowOK, Runs, InWork, Working
<1>7. /\ mails'[i] <= job[i].made + job[i].stalls + 1 /\ mails'[i] <= Attempts + MaxStalls
      /\ step = "record" => mails'[i] > 0
      /\ mails[i] > 0 => mails'[i] > 0
  <2>1. mails[i] + 1 <= job[i].made + job[i].stalls + 1
    BY <1>1, <1>6
  <2>2. job[i].made + job[i].stalls + 1 <= Attempts + 1
    BY <1>1, <1>6
  <2>3. mails'[i] <= mails[i] + 1 /\ mails'[i] \in Nat /\ mails[i] <= mails'[i]
    BY <1>1, <1>5
  <2>4. mails'[i] <= job[i].made + job[i].stalls + 1
    BY <1>1, <2>1, <2>3
  <2>5. mails'[i] <= Attempts + 1
    BY <1>1, <2>2, <2>3, <2>4
  <2> QED
    BY <1>1, <1>5, <2>3, <2>4, <2>5 DEF MaxStalls
<1>8. JobOK(i)'
  BY <1>2, <1>3, <1>4, <1>6, <1>7 DEF JobOK, Runs, InWork, Working
<1>9. SameRows(i)
  BY <1>0, <1>1, <1>2, NothingSet
<1> QED
  BY <1>0, <1>1, <1>2, <1>3, <1>4, <1>5, <1>6, <1>7, <1>8, <1>9, JobKeeps DEF rows

LEMMA RecordKeeps == ASSUME Inv, NEW i \in 1 .. MaxRows, Record(i) PROVE Inv'
<1>0. TypeOK /\ job[i].step = "record" /\ job[i].step # "none"
  BY DEF Inv, Record
<1>1. /\ i \in 1 .. Len(notification) /\ RowOK(i) /\ job[i].made \in Nat
      /\ job[i].stalls \in {0, 1} /\ mails[i] \in Nat /\ Attempts \in Nat
      /\ job[i].made < Attempts /\ mails[i] > 0 /\ notification[i].status # "FAILED"
      /\ notification[i].status = "SENT" => job[i].stalls > 0
      /\ mails[i] <= job[i].made + job[i].stalls + 1 /\ mails[i] <= Attempts + MaxStalls
  BY <1>0, WorkedOn DEF JobOK, RowOK, Runs, InWork, Working
<1>2. UNCHANGED <<now, rows, scan, mails, orphaned, overlapped>> /\ faults' \in 0 .. MaxFaults
      /\ mails' \in [1 .. MaxRows -> Nat]
  BY <1>0, FaultsAreFew DEF Record, TypeOK
<1>3. CASE SetStatus(i, "SENT", job[i].made + 1) /\ JobStep(i, "complete")
  <2>1. job[i].made + 1 \in 0 .. Attempts /\ "SENT" \in NotificationStatus
    BY <1>1 DEF NotificationStatus
  <2>2. SameRows(i) /\ notification'[i].status = "SENT"
    BY <1>0, <1>1, <1>3, <2>1, StatusSet
  <2>3. /\ job' \in [1 .. MaxRows -> Job] /\ job'[i].step = "complete"
        /\ job'[i].made = job[i].made /\ job'[i].stalls = job[i].stalls
        /\ \A k \in 1 .. MaxRows : k # i => job'[k] = job[k]
    BY <1>0, <1>3, JobStepSet DEF Working
  <2>4. JobOK(i)'
    BY <1>1, <1>2, <2>2, <2>3 DEF JobOK, Runs, InWork, Working
  <2> QED
    BY <1>0, <1>1, <1>2, <2>2, <2>3, <2>4, JobKeeps DEF rows
<1>4. CASE UNCHANGED notification /\ JobStep(i, "error")
  <2>1. /\ job' \in [1 .. MaxRows -> Job] /\ job'[i].step = "error"
        /\ job'[i].made = job[i].made /\ job'[i].stalls = job[i].stalls
        /\ \A k \in 1 .. MaxRows : k # i => job'[k] = job[k]
    BY <1>0, <1>4, JobStepSet DEF Working
  <2>2. JobOK(i)'
    BY <1>1, <1>2, <1>4, <2>1 DEF JobOK, Runs, InWork, Working
  <2>3. SameRows(i)
    BY <1>0, <1>1, <1>4, NothingSet
  <2> QED
    BY <1>0, <1>1, <1>2, <1>4, <2>1, <2>2, <2>3, JobKeeps DEF RowOK
<1> QED
  BY <1>3, <1>4 DEF Record

(* The job is done with, whatever its row says now.                        *)
LEMMA JobEnds ==
    ASSUME Inv, NEW i \in 1 .. MaxRows, job[i].step # "none",
           UNCHANGED <<now, rows, scan, mails, overlapped>>, faults' \in 0 .. MaxFaults,
           SameRows(i), SetJob(i, NoJob),
           orphaned' = orphaned \/ orphaned' = orphaned \union {i},
           notification'[i].status = "SENT" => mails[i] > 0,
           notification'[i].status = "FAILED" => notification'[i].attempts = Attempts,
           notification'[i].status = "PENDING" => i \in orphaned'
    PROVE  Inv'
<1>1. TypeOK /\ RowOK(i)
  BY WorkedOn DEF Inv
<1>2. /\ job' \in [1 .. MaxRows -> Job] /\ job'[i] = NoJob
      /\ \A k \in 1 .. MaxRows : k # i => job'[k] = job[k]
      /\ mails' \in [1 .. MaxRows -> Nat]
  BY <1>1, NoJobTyped, JobSet DEF TypeOK
<1>3. JobOK(i)' /\ mails'[i] <= Attempts + MaxStalls
  BY <1>1, <1>2, NoJobTyped DEF JobOK, RowOK
<1> QED
  BY <1>2, <1>3, JobKeeps

LEMMA CompleteKeeps == ASSUME Inv, NEW i \in 1 .. MaxRows, Complete(i) PROVE Inv'
<1>0. TypeOK /\ job[i].step = "complete" /\ job[i].step # "none" /\ faults' \in 0 .. MaxFaults
      /\ UNCHANGED <<now, rows, notification, scan, mails, orphaned, overlapped>>
  BY DEF Inv, Complete, TypeOK
<1>1. i \in 1 .. Len(notification) /\ RowOK(i)
  BY <1>0, WorkedOn
<1>2. SameRows(i)
  BY <1>0, <1>1, NothingSet
<1>3. mails[i] > 0 /\ notification[i].status = "SENT"
  BY <1>0, <1>1 DEF RowOK, JobOK
<1> QED
  BY <1>0, <1>1, <1>2, <1>3, JobEnds DEF Complete, RowOK

LEMMA ErrorKeeps == ASSUME Inv, NEW i \in 1 .. MaxRows, Error(i) PROVE Inv'
<1>0. TypeOK /\ job[i].step = "error" /\ job[i].step # "none"
  BY DEF Inv, Error
<1>1. /\ i \in 1 .. Len(notification) /\ RowOK(i) /\ job[i].made \in Nat
      /\ job[i].stalls \in {0, 1} /\ mails[i] \in Nat /\ Attempts \in Nat
      /\ job[i].made < Attempts /\ notification[i].status # "FAILED"
      /\ notification[i].status = "SENT" => job[i].stalls > 0 /\ mails[i] > 0
      /\ mails[i] <= job[i].made + job[i].stalls + 1 /\ mails[i] <= Attempts + MaxStalls
  BY <1>0, WorkedOn DEF JobOK, RowOK, Runs, InWork, Working
<1>2. UNCHANGED <<now, rows, scan, mails, orphaned, overlapped>> /\ faults' \in 0 .. MaxFaults
      /\ mails' \in [1 .. MaxRows -> Nat]
  BY <1>0, FaultsAreFew DEF Error, TypeOK
<1>3. SameRows(i) /\ notification'[i].status = notification[i].status
  <2>1. CASE Tried(i, job[i].made + 1)
    <3>1. job[i].made + 1 \in 0 .. Attempts
      BY <1>1
    <3> QED
      BY <1>0, <1>1, <2>1, <3>1, TriedSet
  <2>2. CASE UNCHANGED notification
    BY <1>0, <1>1, <2>2, NothingSet
  <2> QED
    BY <2>1, <2>2 DEF Error
<1>4. /\ job' \in [1 .. MaxRows -> Job] /\ job'[i].step = "fail"
      /\ job'[i].made = job[i].made /\ job'[i].stalls = job[i].stalls
      /\ \A k \in 1 .. MaxRows : k # i => job'[k] = job[k]
  BY <1>0, JobStepSet DEF Error, Working
<1>5. JobOK(i)'
  BY <1>1, <1>2, <1>3, <1>4 DEF JobOK, Runs, InWork, Working
<1> QED
  BY <1>0, <1>1, <1>2, <1>3, <1>4, <1>5, JobKeeps

(* The job goes on with n attempts counted, and without this one in work.  *)
LEMMA JobGoesOn ==
    ASSUME Inv, NEW i \in 1 .. MaxRows, job[i].step \in {"fail", "record", "error", "complete"},
           UNCHANGED <<now, rows, notification, scan, mails, orphaned, overlapped>>,
           faults' \in 0 .. MaxFaults,
           NEW j \in Job, SetJob(i, j),
           \/ j.step = "waiting" /\ j.made < Attempts
              /\ (notification[i].status = "SENT" => j.stalls > 0)
           \/ j.step = "giveUp" /\ j.made = Attempts
              /\ (notification[i].status = "SENT" => j.stalls > 0),
           j.made + j.stalls >= job[i].made + job[i].stalls + 1
    PROVE  Inv'
<1>0. TypeOK /\ job[i].step # "none"
  BY DEF Inv
<1>1. /\ i \in 1 .. Len(notification) /\ RowOK(i) /\ job[i].made \in Nat
      /\ job[i].stalls \in {0, 1} /\ mails[i] \in Nat
      /\ notification[i].status # "FAILED"
      /\ mails[i] <= job[i].made + job[i].stalls + 1
  BY <1>0, WorkedOn DEF JobOK, RowOK, Runs, InWork, Working
<1>2. /\ job' \in [1 .. MaxRows -> Job] /\ job'[i] = j
      /\ \A k \in 1 .. MaxRows : k # i => job'[k] = job[k]
      /\ mails' \in [1 .. MaxRows -> Nat] /\ SameRows(i)
  BY <1>0, <1>1, JobSet, NothingSet DEF TypeOK
<1>3. j.made \in Nat /\ j.stalls \in Nat /\ mails[i] <= j.made + j.stalls
  <2>1. j.made \in Nat /\ j.stalls \in Nat
    BY NumbersAssumption DEF Job, MaxStalls
  <2> QED
    BY <1>1, <2>1
<1>4. JobOK(i)'
  BY <1>1, <1>2, <1>3 DEF JobOK, Runs, InWork, Working
<1> QED
  BY <1>0, <1>1, <1>2, <1>4, JobKeeps DEF RowOK

(* The queue is done with the job after n attempts.                        *)
LEMMA FailedKeeps ==
    ASSUME Inv, NEW i \in 1 .. MaxRows, InWork(i), NEW n \in 0 .. Attempts,
           n = job[i].made \/ n = job[i].made + 1, Failed(i, n),
           job[i].step = "complete" => job[i].stalls > 0,
           UNCHANGED <<now, rows, notification, scan, mails, overlapped>>,
           faults' \in 0 .. MaxFaults
    PROVE  Inv'
<1>0. TypeOK /\ job[i].step \in {"fail", "record", "error", "complete"} /\ job[i].step # "none"
  BY DEF Inv, InWork, Working
<1>1. /\ i \in 1 .. Len(notification) /\ RowOK(i) /\ job[i] \in Job /\ job[i].made \in Nat
      /\ job[i].stalls \in {0, 1} /\ Attempts \in Nat
      /\ job[i].made < Attempts /\ notification[i].status # "FAILED"
      /\ notification[i].status = "SENT" => job[i].stalls > 0
  BY <1>0, WorkedOn DEF JobOK, RowOK
<1>2. CASE n >= Attempts
  <2> DEFINE j == [job[i] EXCEPT !.step = "giveUp", !.made = n]
  <2>1. n = job[i].made + 1 /\ n = Attempts
    BY <1>1, <1>2
  <2>2. j \in Job /\ j.step = "giveUp" /\ j.made = n /\ j.stalls = job[i].stalls
    BY <1>1 DEF Job
  <2>3. SetJob(i, j) /\ UNCHANGED orphaned
    BY <1>2 DEF Failed, GivesUp
  <2> HIDE DEF j
  <2>4. j.made + j.stalls >= job[i].made + job[i].stalls + 1
    BY <1>1, <2>1, <2>2
  <2> QED
    BY <1>0, <1>1, <2>1, <2>2, <2>3, <2>4, JobGoesOn
<1>3. CASE ~(n >= Attempts)
  <2>1. SetJob(i, NoJob) /\ orphaned' = orphaned \union {i}
    BY <1>3 DEF Failed, GivesUp, LetGo
  <2>2. SameRows(i)
    BY <1>0, <1>1, NothingSet
  <2> QED
    BY <1>0, <1>1, <2>1, <2>2, JobEnds DEF RowOK
<1> QED
  BY <1>2, <1>3

LEMMA FailKeeps == ASSUME Inv, NEW i \in 1 .. MaxRows, Fail(i) PROVE Inv'
<1>0. TypeOK /\ job[i].step = "fail" /\ job[i].step # "none" /\ InWork(i) /\ faults' \in 0 .. MaxFaults
      /\ UNCHANGED <<now, rows, notification, scan, mails, overlapped>>
  BY DEF Inv, Fail, InWork, Working, TypeOK
<1>1. /\ i \in 1 .. Len(notification) /\ job[i] \in Job /\ job[i].made \in Nat
      /\ job[i].stalls \in {0, 1} /\ Attempts \in Nat /\ job[i].made < Attempts
      /\ notification[i].status = "SENT" => job[i].stalls > 0
  BY <1>0, WorkedOn DEF JobOK, RowOK
<1>n. PICK n \in 0 .. Attempts : n = job[i].made + 1
  BY <1>1
<1>2. CASE n < Attempts /\ Retry(i, n) /\ UNCHANGED orphaned
  <2> DEFINE j == [job[i] EXCEPT !.step = "waiting", !.made = n]
  <2>1. j \in Job /\ j.step = "waiting" /\ j.made = n /\ j.stalls = job[i].stalls
    BY <1>1 DEF Job
  <2>2. SetJob(i, j)
    BY <1>2 DEF Retry
  <2> HIDE DEF j
  <2>3. j.made + j.stalls >= job[i].made + job[i].stalls + 1 /\ j.made < Attempts
    BY <1>1, <1>2, <1>n, <2>1
  <2> QED
    BY <1>0, <1>1, <1>2, <2>1, <2>2, <2>3, JobGoesOn
<1>3. CASE Failed(i, n)
  BY <1>0, <1>n, <1>3, FailedKeeps
<1> QED
  BY <1>2, <1>3, <1>n DEF Fail

LEMMA GiveUpKeeps == ASSUME Inv, NEW i \in 1 .. MaxRows, GiveUp(i) PROVE Inv'
<1>0. TypeOK /\ job[i].step = "giveUp" /\ job[i].step # "none"
      /\ UNCHANGED <<now, rows, scan, mails, overlapped>> /\ SetJob(i, NoJob)
  BY DEF Inv, GiveUp
<1>1. /\ i \in 1 .. Len(notification) /\ RowOK(i) /\ job[i].made = Attempts
      /\ Attempts \in 0 .. Attempts
  BY <1>0, WorkedOn, NumbersAssumption DEF JobOK
<1>2. CASE SetStatus(i, "FAILED", job[i].made) /\ UNCHANGED orphaned /\ NoFault
  <2>1. /\ SameRows(i) /\ notification'[i].status = "FAILED"
        /\ notification'[i].attempts = Attempts
    BY <1>0, <1>1, <1>2, StatusSet DEF NotificationStatus
  <2> QED
    BY <1>0, <1>2, <2>1, FaultsAreFew, JobEnds
<1>3. CASE UNCHANGED notification /\ LetGo(i) /\ Fault
  <2>1. SameRows(i) /\ orphaned' = orphaned \union {i}
    BY <1>0, <1>1, <1>3, NothingSet DEF LetGo
  <2> QED
    BY <1>0, <1>1, <1>3, <2>1, FaultsAreFew, JobEnds DEF RowOK
<1> QED
  BY <1>2, <1>3 DEF GiveUp

LEMMA StallKeeps == ASSUME Inv, NEW i \in 1 .. MaxRows, Stall(i) PROVE Inv'
<1>0. /\ TypeOK /\ InWork(i) /\ job[i].step \in {"fail", "record", "error", "complete"}
      /\ job[i].step # "none" /\ faults' \in 0 .. MaxFaults
      /\ UNCHANGED <<now, rows, notification, scan, mails, overlapped>>
  BY FaultsAreFew DEF Inv, Stall, InWork, Working
<1>1. /\ i \in 1 .. Len(notification) /\ job[i] \in Job /\ job[i].made \in Nat
      /\ job[i].stalls \in {0, 1} /\ Attempts \in Nat /\ job[i].made < Attempts
  BY <1>0, WorkedOn DEF JobOK, RowOK
<1>2. CASE /\ job[i].stalls < MaxStalls
           /\ SetJob(i, [job[i] EXCEPT !.step = "waiting", !.stalls = job[i].stalls + 1])
           /\ UNCHANGED orphaned
  <2> DEFINE j == [job[i] EXCEPT !.step = "waiting", !.stalls = job[i].stalls + 1]
  <2>1. job[i].stalls + 1 \in 0 .. MaxStalls
    BY <1>1, <1>2 DEF MaxStalls
  <2>2. j \in Job /\ j.step = "waiting" /\ j.made = job[i].made /\ j.stalls = job[i].stalls + 1
    BY <1>1, <2>1 DEF Job
  <2> HIDE DEF j
  <2>3. j.made + j.stalls >= job[i].made + job[i].stalls + 1 /\ j.made < Attempts /\ j.stalls > 0
    BY <1>1, <2>2
  <2>4. SetJob(i, j)
    BY <1>2 DEF j
  <2> QED
    BY <1>0, <1>1, <1>2, <2>2, <2>3, <2>4, JobGoesOn
<1>3. ASSUME job[i].stalls = MaxStalls, NEW n \in {job[i].made, job[i].made + 1}, Failed(i, n)
      PROVE  Inv'
  <2>1. n \in 0 .. Attempts /\ job[i].stalls > 0
    BY <1>1, <1>3 DEF MaxStalls
  <2> QED
    BY <1>0, <1>1, <1>3, <2>1, FailedKeeps
<1> QED
  BY <1>2, <1>3 DEF Stall

-----------------------------------------------------------------------------
LEMMA CancelKeeps == ASSUME Inv, NEW e \in Events, Cancel(e) PROVE Inv'
<1>1. UNCHANGED <<now, marked, notification, job, scan, mails, orphaned, overlapped, faults>>
      /\ upcoming' \subseteq upcoming
  BY DEF Cancel
<1>2. TypeOK'
  BY <1>1 DEF Inv, TypeOK
<1> QED
  BY <1>1, <1>2, ScansMove

LEMMA NothingKeeps == ASSUME Inv, UNCHANGED vars PROVE Inv'
<1>1. TypeOK'
  BY DEF Inv, TypeOK, vars, rows
<1> QED
  BY <1>1, ScansMove DEF vars, rows

LEMMA InitHolds == Init => Inv
<1> SUFFICES ASSUME Init PROVE Inv
  OBVIOUS
<1>0. Len(notification) = 0 /\ \A p \in Scans : scan[p].step = "idle"
  BY IdleIsTyped DEF Init
<1>1. TypeOK
  <2>1. 0 \in 0 .. LastMoment /\ 0 \in 0 .. MaxFaults /\ 0 <= MaxRows
    BY NumbersAssumption
  <2>2. scan \in [Scans -> Scan]
    BY IdleIsTyped DEF Init
  <2>3. job \in [1 .. MaxRows -> Job] /\ mails \in [1 .. MaxRows -> Nat]
    BY NoJobTyped DEF Init
  <2>4. notification \in Seq(Row)
    BY DEF Init
  <2> QED
    BY <1>0, <2>1, <2>2, <2>3, <2>4 DEF Init, TypeOK
<1>2. Unused
  BY DEF Init, Unused
<1>3. ScansOK
  BY <1>0 DEF ScansOK, ScanOK, TutorFirst, Sending
<1>4. MarkedIsNotified
  BY DEF Init, MarkedIsNotified
<1> QED
  BY <1>0, <1>1, <1>2, <1>3, <1>4 DEF Inv

LEMMA NextKeeps == Inv /\ [Next]_vars => Inv'
<1> SUFFICES ASSUME Inv, [Next]_vars PROVE Inv'
  OBVIOUS
<1>1. ASSUME NEW p \in Scans, ScanStep(p) PROVE Inv'
  BY <1>1, QueryKeeps, NextEventKeeps, CreateRowKeeps, AddJobKeeps, SyncSendKeeps,
     SyncRecordKeeps, SyncErrorKeeps, SyncFinalKeeps, MarkEventKeeps DEF ScanStep
<1>2. CASE Work
  BY <1>2, SendKeeps, RecordKeeps, CompleteKeeps, ErrorKeeps, FailKeeps, GiveUpKeeps
  DEF Work, JobMoves
<1> QED
  BY <1>1, <1>2, TickKeeps, CancelKeeps, ScanDiesKeeps, StallKeeps, NothingKeeps DEF Next

LEMMA Always == Spec => []Inv
BY InitHolds, NextKeeps, PTL DEF Spec

(* What the invariant says of a row that has FAILED: nobody has it.        *)
LEMMA InvIsTrue == Inv => StatusIsTrue
<1> SUFFICES ASSUME Inv PROVE StatusIsTrue
  OBVIOUS
<1>1. TypeOK /\ DOMAIN notification = 1 .. Len(notification)
  BY RowsTyped DEF Inv
<1>2. ASSUME NEW i \in 1 .. Len(notification), notification[i].status = "FAILED"
      PROVE  ~InHand(i)
  <2>1. job[i].step = "none"
    BY <1>2 DEF Inv, RowOK, JobOK
  <2>2. \A p \in Scans : ~InScan(p, i)
    BY <1>2, Carried DEF InScan, Holds
  <2> QED
    BY <2>1, <2>2 DEF InHand
<1>3. ASSUME NEW i \in 1 .. Len(notification), notification[i].status = "SENT"
      PROVE  job[i].step \in {"none", "complete"} \/ job[i].stalls > 0
  BY <1>3 DEF Inv, RowOK, JobOK
<1> QED
  BY <1>1, <1>2, <1>3 DEF StatusIsTrue, Inv, RowOK

(* Notifications, jobs, scans and the counts of mails keep their types.    *)
THEOREM TypeCorrect == Spec => []TypeOK
<1>1. Inv => TypeOK
  BY DEF Inv
<1> QED
  BY <1>1, Always, PTL

(* The status of a notification is true, whatever fails or dies and        *)
(* however scans overlap: what is SENT was mailed and its job is done or   *)
(* stalled; what is FAILED was tried as often as it may be and is in       *)
(* nobody's hands; what is PENDING is in somebody's, unless whoever had it *)
(* died or could not write; and no row is mailed more often than its       *)
(* attempts and one stall allow.                                           *)
THEOREM StatusStaysTrue == Spec => []StatusIsTrue
BY InvIsTrue, Always, PTL

(* What counts as reminded of has a notification for either party,         *)
(* whatever fails or dies and however scans overlap.                       *)
THEOREM MarkedAfterNotified == Spec => []MarkedIsNotified
<1>1. Inv => MarkedIsNotified
  BY DEF Inv
<1> QED
  BY <1>1, Always, PTL
-----------------------------------------------------------------------------
(* Nobody is reminded twice, and nobody is left out. *)

(* Nothing has failed, and scans did not overlap.                          *)
Quiet == ~overlapped /\ faults = 0

OneScan == \A p, q \in Scans : scan[p].step # "idle" /\ scan[q].step # "idle" => p = q

(* A scan works on what is not marked yet, one event after the other.      *)
ScanOnce(p) ==
    /\ scan[p].step \in {"idle", "query", "next", "create", "add", "mark"}
    /\ scan[p].step = "idle" => scan[p] = Idle
    /\ scan[p].step = "query" => scan[p].left = {}
    /\ IF scan[p].step \in {"create", "add", "mark"}
       THEN scan[p].event \in Events /\ scan[p].event \notin marked \union scan[p].left
       ELSE scan[p].event = Nothing
    /\ scan[p].left \intersect marked \intersect Demos = {}

(* The scan p will not make row i again: it is past it.                    *)
Past(p, i) ==
    /\ scan[p].event = notification[i].event
    /\ \/ scan[p].step = "mark"
       \/ scan[p].step = "add" /\ scan[p].row = i
       \/ /\ scan[p].step \in {"create", "add"}
          /\ scan[p].party = "student" /\ notification[i].party = "tutor"

RowsOnce ==
    \A i \in 1 .. Len(notification) :
        /\ notification[i].event \in marked \/ \E p \in Scans : Past(p, i)
        /\ \A j \in 1 .. Len(notification) :
              notification[i].event = notification[j].event
              /\ notification[i].party = notification[j].party => i = j

(* No job failed or stalled, and a row without a job was mailed or is to   *)
(* get one.                                                                *)
JobsOnce ==
    \A i \in 1 .. Len(notification) :
        /\ job[i].step \in {"none", "waiting", "record", "complete"}
        /\ job[i].made = 0 /\ job[i].stalls = 0
        /\ job[i].step = "none" => mails[i] = 1 \/ \E p \in Scans : InScan(p, i)

Once == OneScan /\ (\A p \in Scans : ScanOnce(p)) /\ RowsOnce /\ JobsOnce

(* What was marked or will be by the scan in flight.                       *)
Covered == {e \in Events : e \in marked \/ \E p \in Scans : e \in scan[p].left \/ e = scan[p].event}

(* A query has run at the moment k of the window of e.                     *)
Reached(e, k) ==
    \/ StartOf[e] + k < now + Far
    \/ StartOf[e] + k = now + Far /\ \A p \in Scans : scan[p].step # "query"

(* Each query that left a demo out returned as many others as it takes.    *)
Demand ==
    \A e \in upcoming \ Covered :
        Far < StartOf[e] =>
            /\ e \in Demos => \A k \in 0 .. Far - Near :
                  Reached(e, k) => Cardinality(Covered \intersect Demos) >= Take * (k + 1)
            /\ e \in Lessons /\ Cardinality(Lessons) <= Take => ~Reached(e, 0)

Served == Quiet => Once /\ Demand

LEMMA OthersRest ==
    ASSUME Once, NEW p \in Scans, scan[p].step # "idle"
    PROVE  \A q \in Scans : q # p => scan[q] = Idle
BY DEF Once, OneScan, ScanOnce

LEMMA OnceAfter ==
    ASSUME NEW p \in Scans, \A q \in Scans : q # p => scan'[q] = Idle,
           ScanOnce(p)', RowsOnce', JobsOnce'
    PROVE  Once'
<1>1. Idle.step = "idle" /\ Idle.left = {} /\ Idle.event = Nothing
  BY DEF Idle
<1>2. \A q \in Scans : q # p => ScanOnce(q)'
  BY <1>1 DEF ScanOnce
<1>3. OneScan'
  BY <1>1 DEF OneScan
<1> QED
  BY <1>2, <1>3 DEF Once

(* No row is made, and what scans were past is marked or they still are.   *)
LEMMA RowsKept ==
    ASSUME RowsOnce, notification' = notification, marked \subseteq marked',
           \A i \in 1 .. Len(notification), q \in Scans : Past(q, i) =>
              notification[i].event \in marked' \/ \E r \in Scans : Past(r, i)'
    PROVE  RowsOnce'
<1>1. ASSUME NEW i \in 1 .. Len(notification)
      PROVE  notification'[i].event \in marked' \/ \E q \in Scans : Past(q, i)'
  BY DEF RowsOnce
<1> QED
  BY <1>1 DEF RowsOnce

(* The jobs stay as they are, and so do the rows that wait for theirs.     *)
LEMMA JobsKept ==
    ASSUME JobsOnce, job' = job, mails' = mails, Len(notification') = Len(notification),
           \A i \in 1 .. Len(notification), q \in Scans : InScan(q, i) => InScan(q, i)'
    PROVE  JobsOnce'
BY DEF JobsOnce

(* A step of a scan that neither makes a row nor sends or queues a mail.   *)
LEMMA ScanMovesOn ==
    ASSUME Inv, Once, NEW p \in Scans, scan[p].step # "idle",
           UNCHANGED <<notification, job, mails>>, marked \subseteq marked',
           \A q \in Scans : q # p => scan'[q] = scan[q],
           scan[p].step \notin Sending, ScanOnce(p)',
           \A i \in 1 .. Len(notification) :
              Past(p, i) => notification[i].event \in marked' \/ Past(p, i)'
    PROVE  Once'
<1>1. \A q \in Scans : q # p => scan[q] = Idle
  BY OthersRest
<1>2. RowsOnce'
  <2>1. \A q \in Scans, i \in 1 .. Len(notification) : Past(q, i) => q = p
    BY <1>1 DEF Past, Idle
  <2> QED
    BY <2>1, RowsKept DEF Once
<1>3. JobsOnce'
  <2>1. \A i \in 1 .. Len(notification), q \in Scans : InScan(q, i) => InScan(q, i)'
    BY DEF InScan
  <2> QED
    BY <2>1, JobsKept DEF Once
<1> QED
  BY <1>1, <1>2, <1>3, OnceAfter DEF Once

LEMMA NoFailure ==
    ASSUME Inv, Quiet, Quiet'
    PROVE  ~Fault /\ faults' = faults
BY DEF Inv, TypeOK, Quiet, Fault

LEMMA IdleFields ==
    /\ Idle.step = "idle" /\ Idle.left = {} /\ Idle.event = Nothing
    /\ \A step, left :
          LET r == [Idle EXCEPT !.step = step, !.left = left]
          IN  r.step = step /\ r.left = left /\ r.event = Nothing
BY DEF Idle

LEMMA QueryOnce == ASSUME Inv, Once, NEW p \in Scans, Query(p) PROVE Once'
<1>1. PICK D \in Answers(Due \intersect Demos), L \in Answers(Due \intersect Lessons) :
         Goto(p, [Idle EXCEPT !.step = "next", !.left = D \union L])
  BY DEF Query
<1>2. D \subseteq Due /\ L \subseteq Due
  BY DEF Answers
<1>3. /\ scan'[p].step = "next" /\ scan'[p].left = D \union L /\ scan'[p].event = Nothing
      /\ \A q \in Scans : q # p => scan'[q] = scan[q]
  BY <1>1, IdleFields DEF Goto, Inv, TypeOK
<1>4. scan[p].step = "query" /\ UNCHANGED <<rows, notification, job, mails>>
  BY DEF Query, At
<1>5. ScanOnce(p)'
  BY <1>2, <1>3, <1>4 DEF ScanOnce, Due, rows
<1> QED
  BY <1>3, <1>4, <1>5, ScanMovesOn DEF Past, Sending, rows

LEMMA NextEventOnce == ASSUME Inv, Once, NEW p \in Scans, NextEvent(p) PROVE Once'
<1>1. /\ scan[p].step = "next" /\ scan[p].step \notin Sending
      /\ UNCHANGED <<rows, notification, job, mails>>
  BY DEF NextEvent, At, Sending
<1>2. /\ scan[p].event = Nothing /\ scan[p].left \intersect marked \intersect Demos = {}
      /\ scan[p].left \subseteq Events /\ marked' = marked
  BY <1>1, ScanTyped DEF Inv, Once, ScanOnce, rows
<1>3. \A i \in 1 .. Len(notification) : ~Past(p, i)
  BY <1>1 DEF Past
<1>4. CASE Goto(p, Idle)
  <2>1. scan'[p] = Idle /\ \A q \in Scans : q # p => scan'[q] = scan[q]
    BY <1>4 DEF Goto, Inv, TypeOK
  <2>2. ScanOnce(p)' /\ scan'[p].step \notin Sending
    BY <2>1, IdleFields DEF ScanOnce, Sending
  <2> QED
    BY <1>1, <1>2, <1>3, <2>1, <2>2, ScanMovesOn
<1>5. ASSUME NEW e \in scan[p].left,
             Goto(p, [Idle EXCEPT !.step = "next", !.left = scan[p].left \ {e}])
      PROVE  Once'
  <2>1. /\ scan'[p].step = "next" /\ scan'[p].left = scan[p].left \ {e}
        /\ scan'[p].event = Nothing /\ \A q \in Scans : q # p => scan'[q] = scan[q]
    BY <1>5, IdleFields DEF Goto, Inv, TypeOK
  <2>2. ScanOnce(p)' /\ scan'[p].step \notin Sending
    BY <1>2, <2>1 DEF ScanOnce, Sending
  <2> QED
    BY <1>1, <1>2, <1>3, <2>1, <2>2, ScanMovesOn
<1>6. ASSUME NEW e \in scan[p].left, ~Already(e),
             Goto(p, [[Idle EXCEPT !.step = "next", !.left = scan[p].left \ {e}]
                         EXCEPT !.step = "create", !.event = e])
      PROVE  Once'
  <2>1. /\ scan'[p].step = "create" /\ scan'[p].left = scan[p].left \ {e}
        /\ scan'[p].event = e /\ \A q \in Scans : q # p => scan'[q] = scan[q]
    BY <1>6 DEF Goto, Inv, TypeOK, Idle
  <2>2. e \in Events /\ e \notin marked
    BY <1>2, <1>6 DEF Already, Events
  <2>3. ScanOnce(p)' /\ scan'[p].step \notin Sending
    BY <1>2, <2>1, <2>2 DEF ScanOnce, Sending
  <2> QED
    BY <1>1, <1>2, <1>3, <2>1, <2>3, ScanMovesOn
<1> QED
  BY <1>4, <1>5, <1>6 DEF NextEvent

(* The party it notifies has no row yet.                                   *)
LEMMA CreateRowOnce ==
    ASSUME Inv, Once, Quiet, Quiet', NEW p \in Scans, CreateRow(p)
    PROVE  Once'
<1>n. PICK n : n = Len(notification)
  OBVIOUS
<1> DEFINE new == [event |-> scan[p].event, party |-> scan[p].party,
                   status |-> "PENDING", attempts |-> 0]
<1>1. /\ scan[p].step = "create" /\ UNCHANGED <<rows, job, mails>> /\ n < MaxRows
      /\ notification' = Append(notification, new)
      /\ Goto(p, [scan[p] EXCEPT !.step = "add", !.row = n + 1])
  BY <1>n, NoFailure DEF CreateRow, At
<1>2. /\ n \in Nat /\ Len(notification') = n + 1 /\ notification'[n + 1] = new
      /\ n + 1 \in 1 .. MaxRows
      /\ \A i \in 1 .. n : notification'[i] = notification[i]
  <2>1. scan[p] \in Scan /\ scan[p].event \in Events /\ notification \in Seq(Row)
        /\ MaxRows \in Nat
    BY <1>1, NumbersAssumption DEF Inv, TypeOK, ScansOK, ScanOK
  <2>2. 0 \in 0 .. Attempts
    BY NumbersAssumption
  <2>3. new \in Row
    BY <2>1, <2>2 DEF Scan, Row, NotificationStatus
  <2> HIDE DEF new
  <2> QED
    BY <1>1, <1>n, <2>1, <2>3, Appended
<1>3. /\ scan'[p].step = "add" /\ scan'[p].row = n + 1 /\ scan'[p].left = scan[p].left
      /\ scan'[p].event = scan[p].event /\ scan'[p].party = scan[p].party
      /\ \A q \in Scans : q # p => scan'[q] = scan[q]
  BY <1>1 DEF Goto, Inv, TypeOK, Scan
<1>4. \A q \in Scans : q # p => scan[q] = Idle
  BY <1>1, OthersRest
<1>5. /\ scan[p].event \in Events /\ scan[p].event \notin marked \union scan[p].left
      /\ scan[p].left \intersect marked \intersect Demos = {}
      /\ scan[p].party \in Parties
  BY <1>1, ScanTyped DEF Inv, Once, ScanOnce
<1>6. ScanOnce(p)'
  BY <1>1, <1>3, <1>5 DEF ScanOnce, rows
<1>7. ASSUME NEW i \in 1 .. n
      PROVE  /\ notification[i].event \in marked' \/ Past(p, i)'
             /\ notification[i].event = scan[p].event => notification[i].party # scan[p].party
  <2>1. notification[i].event \in marked \/ Past(p, i)
    BY <1>4, <1>n DEF Once, RowsOnce, Past, Idle
  <2>2. Past(p, i) => Past(p, i)'
    BY <1>1, <1>2, <1>3, <1>7 DEF Past
  <2> QED
    BY <1>1, <1>5, <2>1, <2>2 DEF Past, rows
<1>8. RowsOnce'
  <2>1. Past(p, n + 1)'
    BY <1>2, <1>3 DEF Past
  <2>2. ASSUME NEW i \in 1 .. n + 1
        PROVE  notification'[i].event \in marked' \/ \E q \in Scans : Past(q, i)'
    BY <1>2, <1>7, <2>1
  <2>3. ASSUME NEW i \in 1 .. n + 1, NEW j \in 1 .. n + 1,
               notification'[i].event = notification'[j].event,
               notification'[i].party = notification'[j].party
        PROVE  i = j
    <3>1. CASE i \in 1 .. n /\ j \in 1 .. n
      BY <1>2, <1>n, <2>3, <3>1 DEF Once, RowsOnce
    <3>2. CASE i = n + 1 \/ j = n + 1
      BY <1>2, <1>7, <2>3, <3>2
    <3> QED
      BY <1>2, <3>1, <3>2
  <2> QED
    BY <1>2, <2>2, <2>3 DEF RowsOnce
<1>9. JobsOnce'
  <2>1. InScan(p, n + 1)' /\ job[n + 1] = NoJob
    BY <1>2, <1>3, <1>n DEF InScan, Sending, Inv, Unused
  <2>2. ASSUME NEW i \in 1 .. n, NEW q \in Scans, InScan(q, i) PROVE InScan(q, i)'
    BY <1>1, <1>3, <2>2 DEF InScan, Sending
  <2>3. ASSUME NEW i \in 1 .. n + 1
        PROVE  /\ job[i].step \in {"none", "waiting", "record", "complete"}
               /\ job[i].made = 0 /\ job[i].stalls = 0
               /\ job[i].step = "none" => mails[i] = 1 \/ \E q \in Scans : InScan(q, i)'
    <3>1. CASE i \in 1 .. n
      BY <1>n, <2>2, <3>1 DEF Once, JobsOnce
    <3>2. CASE i = n + 1
      BY <2>1, <3>2, NoJobTyped
    <3> QED
      BY <1>2, <3>1, <3>2
  <2> QED
    BY <1>1, <1>2, <2>3 DEF JobsOnce
<1> QED
  BY <1>3, <1>4, <1>6, <1>8, <1>9, OnceAfter DEF Once

LEMMA AddJobOnce ==
    ASSUME Inv, Once, Quiet, Quiet', NEW p \in Scans, AddJob(p)
    PROVE  Once'
<1>1. /\ scan[p].step = "add" /\ scan[p].step \in Sending
      /\ UNCHANGED <<rows, notification, mails>>
      /\ JobStep(scan[p].row, "waiting") /\ Enqueued(p)
  BY NoFailure DEF AddJob, At, Sending
<1>2. PICK row \in 1 .. Len(notification) :
         row = scan[p].row /\ row \in 1 .. MaxRows /\ Holds(p, row)
  BY <1>1, Carried
<1>3. \A q \in Scans : q # p => scan[q] = Idle
  BY <1>1, OthersRest
<1>4. /\ notification[row].event = scan[p].event /\ notification[row].party = scan[p].party
      /\ scan[p].event \in Events /\ scan[p].event \notin marked \union scan[p].left
      /\ scan[p].left \intersect marked \intersect Demos = {}
      /\ scan[p].party \in Parties
  BY <1>1, <1>2, ScanTyped DEF Inv, Once, ScanOnce, Holds
<1>5. /\ scan'[p].left = scan[p].left /\ scan'[p].event = scan[p].event
      /\ \/ scan[p].party = "tutor" /\ scan'[p].step = "create" /\ scan'[p].party = "student"
         \/ scan[p].party = "student" /\ scan'[p].step = "mark"
      /\ \A q \in Scans : q # p => scan'[q] = scan[q]
  BY <1>1, EnqueuedNext
<1>6. ScanOnce(p)'
  BY <1>1, <1>4, <1>5 DEF ScanOnce, rows
<1>7. ASSUME NEW i \in 1 .. Len(notification), Past(p, i)
      PROVE  Past(p, i)'
  BY <1>1, <1>2, <1>4, <1>5, <1>7 DEF Past
<1>8. RowsOnce'
  <2>1. \A q \in Scans, i \in 1 .. Len(notification) : Past(q, i) => q = p
    BY <1>3 DEF Past, Idle
  <2> QED
    BY <1>1, <1>7, <2>1, RowsKept DEF Once, rows
<1>9. JobsOnce'
  <2>1. /\ job'[row].step = "waiting" /\ job'[row].made = job[row].made
        /\ job'[row].stalls = job[row].stalls
        /\ \A k \in 1 .. MaxRows : k # row => job'[k] = job[k]
    BY <1>1, <1>2, JobStepSet DEF Inv
  <2>2. \A i \in 1 .. Len(notification), q \in Scans : InScan(q, i) => q = p /\ i = row
    BY <1>2, <1>3 DEF InScan, Idle, Sending
  <2>3. \A i \in 1 .. Len(notification) : i \in 1 .. MaxRows
    BY RowsTyped DEF Inv
  <2>4. ASSUME NEW i \in 1 .. Len(notification)
        PROVE  /\ job'[i].step \in {"none", "waiting", "record", "complete"}
               /\ job'[i].made = 0 /\ job'[i].stalls = 0
               /\ job'[i].step = "none" => mails[i] = 1
    <3>1. CASE i = row
      BY <2>1, <3>1 DEF Once, JobsOnce
    <3>2. CASE i # row
      BY <2>1, <2>2, <2>3, <3>2 DEF Once, JobsOnce
    <3> QED
      BY <3>1, <3>2
  <2> QED
    BY <1>1, <2>4 DEF JobsOnce
<1> QED
  BY <1>3, <1>5, <1>6, <1>8, <1>9, OnceAfter DEF Once

LEMMA MarkEventOnce ==
    ASSUME Inv, Once, Quiet, Quiet', NEW p \in Scans, MarkEvent(p)
    PROVE  Once'
<1>1. /\ scan[p].step = "mark" /\ UNCHANGED <<upcoming, notification, job, mails>>
      /\ marked' = marked \union {scan[p].event}
      /\ Goto(p, [Idle EXCEPT !.step = "next", !.left = scan[p].left])
  BY NoFailure DEF MarkEvent, At, Mark, Skip
<1>2. /\ scan'[p].step = "next" /\ scan'[p].left = scan[p].left /\ scan'[p].event = Nothing
      /\ \A q \in Scans : q # p => scan'[q] = scan[q]
  BY <1>1, IdleFields DEF Goto, Inv, TypeOK
<1>3. /\ scan[p].event \notin scan[p].left
      /\ scan[p].left \intersect marked \intersect Demos = {}
  BY <1>1 DEF Once, ScanOnce
<1>4. ScanOnce(p)' /\ scan'[p].step \notin Sending
  BY <1>1, <1>2, <1>3 DEF ScanOnce, Sending
<1>5. \A i \in 1 .. Len(notification) : Past(p, i) => notification[i].event \in marked'
  BY <1>1 DEF Past
<1> QED
  BY <1>1, <1>2, <1>4, <1>5, ScanMovesOn DEF Sending

(* Only the job of row i changes.                                          *)
LEMMA JobOnce ==
    ASSUME Inv, Once, NEW i \in 1 .. Len(notification), UNCHANGED <<rows, scan>>,
           SameRows(i), \A k \in 1 .. MaxRows : k # i => job'[k] = job[k] /\ mails'[k] = mails[k],
           job'[i].step \in {"none", "record", "complete"},
           job'[i].made = 0, job'[i].stalls = 0, job'[i].step = "none" => mails'[i] = 1
    PROVE  Once'
<1>0. /\ Len(notification') = Len(notification)
      /\ \A j \in 1 .. Len(notification) : /\ j \in 1 .. MaxRows
                                           /\ notification'[j].event = notification[j].event
                                           /\ notification'[j].party = notification[j].party
  BY RowsTyped DEF Inv, SameRows
<1>1. JobsOnce'
  <2>1. ASSUME NEW j \in 1 .. Len(notification)
        PROVE  /\ job'[j].step \in {"none", "waiting", "record", "complete"}
               /\ job'[j].made = 0 /\ job'[j].stalls = 0
               /\ job'[j].step = "none" => mails'[j] = 1 \/ \E p \in Scans : InScan(p, j)'
    <3>1. CASE j # i
      BY <1>0, <3>1 DEF Once, JobsOnce, InScan
    <3> QED
      BY <3>1
  <2> QED
    BY <1>0, <2>1 DEF JobsOnce
<1>2. RowsOnce'
  <2>1. \A j \in 1 .. Len(notification), p \in Scans : Past(p, j) => Past(p, j)'
    BY <1>0 DEF Past
  <2>2. \A j \in 1 .. Len(notification) :
           notification'[j].event \in marked' \/ \E p \in Scans : Past(p, j)'
    BY <1>0, <2>1 DEF Once, RowsOnce, rows
  <2> QED
    BY <1>0, <2>2 DEF Once, RowsOnce
<1>3. OneScan' /\ \A p \in Scans : ScanOnce(p)'
  BY DEF Once, OneScan, ScanOnce, rows
<1> QED
  BY <1>1, <1>2, <1>3 DEF Once

(* Every attempt is the first, and does not fail.                          *)
LEMMA WorkOnce == ASSUME Inv, Once, Quiet, Quiet', Work PROVE Once'
<1>1. PICK i \in 1 .. MaxRows : JobMoves(i)
  BY DEF Work
<1>2. TypeOK /\ job[i].step # "none" /\ UNCHANGED <<rows, scan>>
  BY <1>1 DEF Inv, JobMoves, Send, Record, Complete, Error, Fail, GiveUp, rows
<1>3. /\ i \in 1 .. Len(notification) /\ JobOK(i) /\ mails[i] \in Nat /\ Attempts \in Nat
      /\ Attempts > 0
  BY <1>2, WorkedOn
<1>4. /\ job[i].step \in {"waiting", "record", "complete"}
      /\ job[i].made = 0 /\ job[i].stalls = 0
  BY <1>2, <1>3 DEF Once, JobsOnce
<1>5. CASE Send(i)
  <2>1. JobStep(i, "record") /\ UNCHANGED notification /\ Mail(i)
    BY <1>5, NoFailure DEF Send
  <2>2. /\ job'[i].step = "record" /\ job'[i].made = job[i].made
        /\ job'[i].stalls = job[i].stalls
        /\ \A k \in 1 .. MaxRows : k # i => job'[k] = job[k]
    BY <1>2, <2>1, JobStepSet DEF Working
  <2>3. \A k \in 1 .. MaxRows : k # i => mails'[k] = mails[k]
    BY <1>2, <2>1, MailSent
  <2>4. SameRows(i)
    BY <1>2, <1>3, <2>1, NothingSet
  <2> QED
    BY <1>2, <1>3, <1>4, <2>2, <2>3, <2>4, JobOnce
<1>6. CASE Record(i)
  <2>1. JobStep(i, "complete") /\ SetStatus(i, "SENT", job[i].made + 1) /\ UNCHANGED mails
    BY <1>6, NoFailure DEF Record
  <2>2. /\ job'[i].step = "complete" /\ job'[i].made = job[i].made
        /\ job'[i].stalls = job[i].stalls
        /\ \A k \in 1 .. MaxRows : k # i => job'[k] = job[k]
    BY <1>2, <2>1, JobStepSet DEF Working
  <2>3. job[i].made + 1 \in 0 .. Attempts /\ "SENT" \in NotificationStatus
    BY <1>3, <1>4 DEF NotificationStatus
  <2>4. SameRows(i)
    BY <1>2, <1>3, <2>1, <2>3, StatusSet
  <2> QED
    BY <1>2, <1>3, <1>4, <2>1, <2>2, <2>4, JobOnce
<1>7. CASE Complete(i)
  <2>1. job[i].step = "complete" /\ SetJob(i, NoJob) /\ UNCHANGED <<notification, mails>>
    BY <1>7 DEF Complete
  <2>2. job'[i] = NoJob /\ \A k \in 1 .. MaxRows : k # i => job'[k] = job[k]
    BY <1>2, <2>1, NoJobTyped, JobSet
  <2>3. SameRows(i)
    BY <1>2, <1>3, <2>1, NothingSet
  <2>4. mails[i] = 1
    <3>1. mails[i] > 0 /\ mails[i] <= 0 + 0 + 1
      BY <1>3, <1>4, <2>1 DEF JobOK, RowOK, Inv, Runs, InWork, Working
    <3> QED
      BY <1>3, <3>1
  <2> QED
    BY <1>2, <1>3, <2>1, <2>2, <2>3, <2>4, NoJobTyped, JobOnce
<1> QED
  BY <1>1, <1>4, <1>5, <1>6, <1>7 DEF JobMoves, Error, Fail, GiveUp

LEMMA TickOnce == ASSUME Inv, Once, Quiet', Tick PROVE Once'
<1>1. PICK S \in SUBSET {p \in Scans : At(p, "idle")} :
         scan' = [p \in Scans |-> IF p \in S THEN [Idle EXCEPT !.step = "query"] ELSE scan[p]]
  BY DEF Tick
<1>2. UNCHANGED <<rows, notification, job, mails>>
      /\ ~\E p, q \in Scans : p # q /\ scan'[p] # Idle /\ scan'[q] # Idle
  BY DEF Tick, Quiet
<1>3. \A p \in Scans : \/ scan'[p] = scan[p]
                        \/ /\ scan[p].step = "idle" /\ scan'[p].step = "query"
                           /\ scan'[p].left = {} /\ scan'[p].event = Nothing
  BY <1>1 DEF At, Idle
<1>4. OneScan'
  BY <1>2 DEF OneScan, Idle
<1>5. \A p \in Scans : ScanOnce(p)'
  BY <1>2, <1>3 DEF Once, ScanOnce, rows
<1>6. RowsOnce'
  <2>1. \A i \in 1 .. Len(notification), p \in Scans : Past(p, i) => Past(p, i)'
    BY <1>2, <1>3 DEF Past
  <2> QED
    BY <1>2, <2>1, RowsKept DEF Once, rows
<1>7. JobsOnce'
  <2>1. \A i \in 1 .. Len(notification), q \in Scans : InScan(q, i) => InScan(q, i)'
    BY <1>2, <1>3 DEF InScan, Sending
  <2> QED
    BY <1>2, <2>1, JobsKept DEF Once
<1> QED
  BY <1>4, <1>5, <1>6, <1>7 DEF Once

LEMMA StillOnce ==
    ASSUME Once, UNCHANGED <<marked, notification, job, scan, mails>>
    PROVE  Once'
BY DEF Once, OneScan, ScanOnce, RowsOnce, JobsOnce, Past, InScan

LEMMA NextOnce == ASSUME Inv, Quiet, Once, Quiet', [Next]_vars PROVE Once'
<1>1. ASSUME NEW p \in Scans, ScanStep(p) PROVE Once'
  <2>1. scan[p].step \notin {"sync", "record", "error", "final"}
    BY DEF Once, ScanOnce
  <2> QED
    BY <1>1, <2>1, QueryOnce, NextEventOnce, CreateRowOnce, AddJobOnce, MarkEventOnce
    DEF ScanStep, SyncSend, SyncRecord, SyncError, SyncFinal, At
<1>2. CASE Work
  BY <1>2, WorkOnce
<1>3. ASSUME NEW e \in Events, Cancel(e) PROVE Once'
  BY <1>3, StillOnce DEF Cancel
<1>4. CASE UNCHANGED vars
  BY <1>4, StillOnce DEF vars, rows
<1> QED
  BY <1>1, <1>2, <1>3, <1>4, TickOnce, NoFailure DEF Next, ScanDies, Stall

(* Where only one scan runs, what is covered is what it covers.            *)
Covers(p, e) == e \in marked \/ e \in scan[p].left \/ e = scan[p].event

LEMMA CoveredOf ==
    ASSUME NEW p \in Scans, \A q \in Scans : q # p => scan[q] = Idle
    PROVE  Covered = {e \in Events : Covers(p, e)}
BY NothingAssumption DEF Covered, Covers, Idle

LEMMA CoveredNext ==
    ASSUME NEW p \in Scans, \A q \in Scans : q # p => scan'[q] = Idle
    PROVE  Covered' = {e \in Events : Covers(p, e)'}
BY NothingAssumption DEF Covered, Covers, Idle

LEMMA DemandKept ==
    ASSUME Inv, Demand, Covered' = Covered, upcoming' \subseteq upcoming,
           \A e \in Events : \A k \in 0 .. Far - Near : Reached(e, k)' => Reached(e, k)
    PROVE  Demand'
<1>1. upcoming \subseteq Events /\ 0 \in 0 .. Far - Near
  BY NumbersAssumption DEF Inv, TypeOK
<1> QED
  BY <1>1 DEF Demand

(* A step that covers nothing new, after the query.                        *)
LEMMA DemandStep ==
    ASSUME Inv, Once, Demand, NEW p \in Scans, scan[p].step \notin {"idle", "query"},
           scan'[p].step # "query", UNCHANGED <<now, upcoming>>,
           \A q \in Scans : q # p => scan'[q] = scan[q],
           \A e \in Events : Covers(p, e)' <=> Covers(p, e)
    PROVE  Demand'
<1>1. \A q \in Scans : q # p => scan[q] = Idle /\ scan'[q] = Idle
  BY OthersRest
<1>2. Covered' = Covered
  BY <1>1, CoveredOf, CoveredNext
<1>3. \A e, k : Reached(e, k)' => Reached(e, k)
  BY <1>1 DEF Reached, Idle
<1> QED
  BY <1>2, <1>3, DemandKept

LEMMA StillDemand ==
    ASSUME Inv, Demand, UNCHANGED <<now, marked, scan>>, upcoming' \subseteq upcoming
    PROVE  Demand'
BY DemandKept DEF Covered, Reached

LEMMA TickDemand == ASSUME Inv, Once, Demand, Tick PROVE Demand'
<1>1. PICK S \in SUBSET {p \in Scans : At(p, "idle")} :
         scan' = [p \in Scans |-> IF p \in S THEN [Idle EXCEPT !.step = "query"] ELSE scan[p]]
  BY DEF Tick
<1>2. /\ \A p \in Scans : scan[p].step # "query"
      /\ now' = now + 1 /\ UNCHANGED <<upcoming, marked>> /\ now \in Nat
  BY NumbersAssumption DEF Tick, At, rows, Inv, TypeOK
<1>3. \A p \in Scans : scan'[p].left = scan[p].left /\ scan'[p].event = scan[p].event
  <2>1. \A p \in S : scan[p] = Idle
    BY DEF At, Once, ScanOnce
  <2> QED
    BY <1>1, <2>1 DEF Idle
<1>4. Covered' = Covered
  BY <1>2, <1>3 DEF Covered
<1>5. ASSUME NEW e \in Events, NEW k \in 0 .. Far - Near, Reached(e, k)' PROVE Reached(e, k)
  <2>1. StartOf[e] \in Nat /\ k \in Nat /\ Far \in Nat
    BY NumbersAssumption
  <2>2. StartOf[e] + k <= now + 1 + Far
    BY <1>2, <1>5, <2>1 DEF Reached
  <2>3. StartOf[e] + k = now + 1 + Far => \A p \in Scans : scan'[p].step # "query"
    BY <1>2, <1>5, <2>1 DEF Reached
  <2>4. \E p \in Scans : scan'[p].step = "query"
    BY DEF Tick, At, Idle
  <2> QED
    BY <1>2, <2>1, <2>2, <2>3, <2>4 DEF Reached
<1> QED
  BY <1>2, <1>4, <1>5, DemandKept

LEMMA AnswerIsFull ==
    ASSUME NEW S, IsFiniteSet(S), NEW T \in Answers(S), NEW e \in S, e \notin T
    PROVE  Cardinality(T) = Take /\ Take < Cardinality(S)
<1>1. T \in SUBSET S /\ Cardinality(T) = IF Cardinality(S) > Take THEN Take ELSE Cardinality(S)
  BY DEF Answers
<1>2. Cardinality(S) = Cardinality(T) => S = T
  BY <1>1, FS_Subset
<1>3. Cardinality(S) \in Nat /\ Take \in Nat
  BY FS_CardinalityType, NumbersAssumption
<1> QED
  BY <1>1, <1>2, <1>3

(* The answer covers Take demos that nothing covered before.               *)
LEMMA QueryDemand == ASSUME Inv, Once, Demand, NEW p \in Scans, Query(p) PROVE Demand'
<1>1. PICK D \in Answers(Due \intersect Demos), L \in Answers(Due \intersect Lessons) :
         Goto(p, [Idle EXCEPT !.step = "next", !.left = D \union L])
  BY DEF Query
<1>2. D \subseteq Due \intersect Demos /\ L \subseteq Due \intersect Lessons /\ Due \subseteq Events
  BY DEF Answers, Due, Inv, TypeOK
<1>3. /\ scan'[p].step = "next" /\ scan'[p].left = D \union L /\ scan'[p].event = Nothing
      /\ \A q \in Scans : q # p => scan'[q] = scan[q]
  BY <1>1, IdleFields DEF Goto, Inv, TypeOK
<1>4. /\ scan[p].step = "query" /\ UNCHANGED <<now, upcoming, marked>>
      /\ scan[p].left = {} /\ scan[p].event = Nothing
  BY DEF Query, At, rows, Once, ScanOnce
<1>5. \A q \in Scans : q # p => scan[q] = Idle /\ scan'[q] = Idle
  BY <1>3, <1>4, OthersRest
<1>6. Covered = Events \intersect marked /\ Covered' = Covered \union D \union L
  <2>1. Covered = {e \in Events : Covers(p, e)} /\ Covered' = {e \in Events : Covers(p, e)'}
    BY <1>5, CoveredOf, CoveredNext
  <2> QED
    BY <1>2, <1>3, <1>4, <2>1, NothingAssumption DEF Covers
<1>7. /\ IsFiniteSet(Due \intersect Demos) /\ IsFiniteSet(Due \intersect Lessons)
      /\ Cardinality(Due \intersect Lessons) <= Cardinality(Lessons)
      /\ Cardinality(Lessons) \in Nat /\ Cardinality(Due \intersect Lessons) \in Nat
  BY FiniteAssumption, FS_Subset, FS_CardinalityType
<1>8. \A k \in 0 .. Far - Near : k \in Nat /\ now \in Nat /\ Near \in Nat /\ Far \in Nat /\ Take \in Nat
  BY NumbersAssumption DEF Inv, TypeOK
<1>9. ASSUME NEW e \in upcoming' \ Covered', NEW k \in 0 .. Far - Near,
             Reached(e, k)', ~Reached(e, k)
      PROVE  StartOf[e] + k = now + Far /\ e \in Due
  <2>1. e \in upcoming /\ e \in Events /\ e \notin marked /\ StartOf[e] \in Nat
    BY <1>4, <1>6, NumbersAssumption DEF Inv, TypeOK
  <2>2. StartOf[e] + k = now + Far
    BY <1>4, <1>9 DEF Reached
  <2>3. InWindow(e)
    BY <1>8, <2>1, <2>2, NumbersAssumption DEF InWindow
  <2> QED
    BY <2>1, <2>2, <2>3 DEF Due
<1>10. ASSUME NEW e \in upcoming' \ Covered', Far < StartOf[e], e \in Demos,
              NEW k \in 0 .. Far - Near, Reached(e, k)'
       PROVE  Cardinality(Covered \intersect Demos)' >= Take * (k + 1)
  <2> DEFINE C == Covered \intersect Demos
  <2>0. /\ e \in upcoming \ Covered /\ C' = C \union D \union (L \intersect Demos)
        /\ e \in Events /\ StartOf[e] \in Nat
    BY <1>2, <1>4, <1>6, NumbersAssumption DEF Inv, TypeOK
  <2>1. IsFiniteSet(C) /\ IsFiniteSet(C') /\ IsFiniteSet(D) /\ IsFiniteSet(C \union D)
        /\ Cardinality(C) \in Nat /\ Cardinality(C') \in Nat /\ Cardinality(D) \in Nat
    <3>1. C \subseteq Demos /\ C' \subseteq Demos /\ D \subseteq Demos
      BY <1>2
    <3> HIDE DEF C
    <3> QED
      BY <3>1, FiniteAssumption, FS_Subset, FS_CardinalityType, FS_Union
  <2>2. Cardinality(C) <= Cardinality(C') /\ Cardinality(C \union D) <= Cardinality(C')
    <3>1. C \subseteq C' /\ C \union D \subseteq C'
      BY <2>0
    <3> HIDE DEF C
    <3> QED
      BY <2>1, <3>1, FS_Subset
  <2>3. CASE Reached(e, k)
    <3>1. Cardinality(C) >= Take * (k + 1)
      BY <1>10, <2>0, <2>3 DEF Demand
    <3>2. Take * (k + 1) \in Nat
      BY <1>8
    <3> HIDE DEF C
    <3>3. Cardinality(C') >= Take * (k + 1)
      BY <2>1, <2>2, <3>1, <3>2
    <3> QED
      BY <3>3 DEF C
  <2>4. CASE ~Reached(e, k)
    <3>1. StartOf[e] + k = now + Far /\ e \in Due
      BY <1>9, <1>10, <2>4
    <3>2. Cardinality(D) = Take
      BY <1>6, <1>7, <1>10, <3>1, AnswerIsFull
    <3>3. C \intersect D = {}
      BY <1>2, <1>6 DEF Due
    <3> HIDE DEF C
    <3>4. Cardinality(C \union D) = Cardinality(C) + Take
      <4>1. Cardinality(C \intersect D) = 0
        BY <3>3, FS_EmptySet
      <4>2. Cardinality(C \union D) = Cardinality(C) + Cardinality(D) - Cardinality(C \intersect D)
        BY <2>1, FS_Union
      <4> QED
        BY <1>8, <2>1, <3>2, <4>1, <4>2
    <3>5. Cardinality(C) >= Take * k
      <4>1. CASE k = 0
        <5>1. Take * k = 0
          BY <1>8, <4>1
        <5> QED
          BY <2>1, <5>1
      <4>2. CASE k # 0
        <5>1. k - 1 \in 0 .. Far - Near /\ (k - 1) + 1 = k
          BY <1>8, <4>2
        <5>2. Reached(e, k - 1)
          BY <1>8, <2>0, <3>1, <5>1 DEF Reached
        <5>3. Cardinality(C) >= Take * ((k - 1) + 1)
          BY <1>10, <2>0, <5>1, <5>2 DEF Demand, C
        <5> QED
          BY <5>1, <5>3
      <4> QED
        BY <4>1, <4>2
    <3>6. Take * (k + 1) = Take * k + Take /\ Take * k \in Nat
      BY <1>8
    <3>7. Cardinality(C') >= Take * (k + 1)
      BY <1>8, <2>1, <2>2, <3>4, <3>5, <3>6
    <3> QED
      BY <3>7 DEF C
  <2> QED
    BY <2>3, <2>4
<1>11. ASSUME NEW e \in upcoming' \ Covered', Far < StartOf[e], e \in Lessons,
              Cardinality(Lessons) <= Take, Reached(e, 0)'
       PROVE  FALSE
  <2>1. 0 \in 0 .. Far - Near /\ e \in upcoming \ Covered
    BY <1>4, <1>6, NumbersAssumption
  <2>2. ~Reached(e, 0)
    BY <1>11, <2>1 DEF Demand
  <2>3. e \in Due
    BY <1>9, <1>11, <2>1, <2>2
  <2>4. Take < Cardinality(Due \intersect Lessons)
    BY <1>6, <1>7, <1>11, <2>3, AnswerIsFull
  <2> QED
    BY <1>7, <1>8, <1>11, <2>1, <2>4
<1> QED
  BY <1>10, <1>11 DEF Demand

LEMMA NextDemand == ASSUME Inv, Quiet, Once, Demand, Quiet', [Next]_vars PROVE Demand'
<1>1. ASSUME NEW p \in Scans, NextEvent(p) PROVE Demand'
  <2>1. /\ scan[p].step = "next" /\ UNCHANGED <<now, rows>>
        /\ scan[p].event = Nothing /\ scan[p].left \subseteq Events
    BY <1>1, ScanTyped DEF NextEvent, At, Once, ScanOnce, Inv
  <2>2. CASE scan[p].left = {} /\ Goto(p, Idle)
    <3>1. scan'[p] = Idle /\ \A q \in Scans : q # p => scan'[q] = scan[q]
      BY <2>2 DEF Goto, Inv, TypeOK
    <3>2. \A d \in Events : Covers(p, d)' <=> Covers(p, d)
      BY <2>1, <2>2, <3>1, IdleFields DEF Covers, rows
    <3>3. scan'[p].step # "query"
      BY <3>1, IdleFields
    <3> QED
      BY <2>1, <3>1, <3>2, <3>3, DemandStep DEF rows
  <2>3. ASSUME NEW e \in scan[p].left, Already(e),
               Goto(p, [Idle EXCEPT !.step = "next", !.left = scan[p].left \ {e}])
        PROVE  Demand'
    <3>1. /\ scan'[p].step = "next" /\ scan'[p].left = scan[p].left \ {e}
          /\ scan'[p].event = Nothing /\ \A q \in Scans : q # p => scan'[q] = scan[q]
      BY <2>3, IdleFields DEF Goto, Inv, TypeOK
    <3> QED
      BY <2>1, <2>3, <3>1, DemandStep DEF Already, Covers, rows
  <2>4. ASSUME NEW e \in scan[p].left,
               Goto(p, [[Idle EXCEPT !.step = "next", !.left = scan[p].left \ {e}]
                           EXCEPT !.step = "create", !.event = e])
        PROVE  Demand'
    <3>1. /\ scan'[p].step = "create" /\ scan'[p].left = scan[p].left \ {e}
          /\ scan'[p].event = e /\ \A q \in Scans : q # p => scan'[q] = scan[q]
      BY <2>4 DEF Goto, Inv, TypeOK, Idle
    <3>2. \A d \in Events : Covers(p, d)' <=> Covers(p, d)
      BY <2>1, <3>1, NothingAssumption DEF Covers, rows
    <3> QED
      BY <2>1, <3>1, <3>2, DemandStep DEF rows
  <2> QED
    BY <1>1, <2>2, <2>3, <2>4 DEF NextEvent
<1>2. ASSUME NEW p \in Scans, CreateRow(p) \/ AddJob(p) PROVE Demand'
  <2>1. /\ scan[p].step \in {"create", "add"} /\ UNCHANGED <<now, rows>>
        /\ scan'[p].step \in {"add", "create", "mark"}
        /\ scan'[p].left = scan[p].left /\ scan'[p].event = scan[p].event
        /\ \A q \in Scans : q # p => scan'[q] = scan[q]
    <3>1. CASE CreateRow(p)
      <4>1. /\ scan[p].step = "create" /\ UNCHANGED <<now, rows>>
            /\ Goto(p, [scan[p] EXCEPT !.step = "add", !.row = Len(notification) + 1])
        BY <3>1, NoFailure DEF CreateRow, At
      <4> QED
        BY <4>1 DEF Goto, Inv, TypeOK, Scan
    <3>2. CASE AddJob(p)
      <4>1. scan[p].step = "add" /\ UNCHANGED <<now, rows>> /\ Enqueued(p)
        BY <3>2, NoFailure DEF AddJob, At
      <4> QED
        BY <4>1 DEF Enqueued, Goto, Inv, TypeOK, Scan
    <3> QED
      BY <1>2, <3>1, <3>2
  <2> QED
    BY <2>1, DemandStep DEF Covers, rows
<1>3. ASSUME NEW p \in Scans, MarkEvent(p) PROVE Demand'
  <2>1. /\ scan[p].step = "mark" /\ UNCHANGED <<now, upcoming>>
        /\ marked' = marked \union {scan[p].event}
        /\ Goto(p, [Idle EXCEPT !.step = "next", !.left = scan[p].left])
    BY <1>3, NoFailure DEF MarkEvent, At, Mark, Skip
  <2>2. /\ scan'[p].step = "next" /\ scan'[p].left = scan[p].left /\ scan'[p].event = Nothing
        /\ \A q \in Scans : q # p => scan'[q] = scan[q]
    BY <2>1, IdleFields DEF Goto, Inv, TypeOK
  <2> QED
    BY <2>1, <2>2, NothingAssumption, DemandStep DEF Covers
<1>4. ASSUME NEW p \in Scans, ScanStep(p) PROVE Demand'
  <2>1. scan[p].step \notin {"sync", "record", "error", "final"}
    BY DEF Once, ScanOnce
  <2> QED
    BY <1>1, <1>2, <1>3, <1>4, <2>1, QueryDemand
    DEF ScanStep, SyncSend, SyncRecord, SyncError, SyncFinal, At
<1>5. CASE Work \/ UNCHANGED vars
  BY <1>5, StillDemand
  DEF Work, JobMoves, Send, Record, Complete, Error, Fail, GiveUp, vars, rows
<1>6. ASSUME NEW e \in Events, Cancel(e) PROVE Demand'
  BY <1>6, StillDemand DEF Cancel
<1> QED
  BY <1>4, <1>5, <1>6, TickDemand, NoFailure DEF Next, ScanDies, Stall

LEMMA AlwaysServed == Spec => [](Inv /\ Served)
<1>1. Init => Served
  <2> SUFFICES ASSUME Init PROVE Once /\ Demand
    BY DEF Served
  <2>1. \A p \in Scans : scan[p] = Idle /\ scan[p].step = "idle" /\ scan[p].left = {}
                         /\ scan[p].event = Nothing
    BY IdleFields DEF Init
  <2>2. Len(notification) = 0 /\ now = 0
    BY DEF Init
  <2>3. Once
    BY <2>1, <2>2 DEF Once, OneScan, ScanOnce, RowsOnce, JobsOnce
  <2>4. \A e \in Events : Far < StartOf[e] => \A k \in 0 .. Far - Near : ~Reached(e, k)
    BY <2>2, NumbersAssumption DEF Reached
  <2>5. upcoming = Events /\ 0 \in 0 .. Far - Near
    BY NumbersAssumption DEF Init
  <2> QED
    BY <2>3, <2>4, <2>5 DEF Demand
<1>2. Inv /\ Served /\ [Next]_vars => Served'
  <2> SUFFICES ASSUME Inv, Served, [Next]_vars, Quiet' PROVE Once' /\ Demand'
    BY DEF Served
  <2>1. Quiet
    <3>1. overlapped => overlapped'
      BY DEF Next, Tick, Cancel, ScanStep, ScanDies, Work, JobMoves, Stall, Query, NextEvent,
         CreateRow, AddJob, SyncSend, SyncRecord, SyncError, SyncFinal, MarkEvent,
         Send, Record, Complete, Error, Fail, GiveUp, vars
    <3>2. faults' = faults \/ faults' = faults + 1
      BY DEF Next, Tick, Cancel, ScanStep, ScanDies, Work, JobMoves, Stall, Query, NextEvent,
         CreateRow, AddJob, SyncSend, SyncRecord, SyncError, SyncFinal, SyncThrows, MarkEvent,
         Send, Record, Complete, Error, Fail, GiveUp, vars, Fault, NoFault
    <3>3. faults \in Nat
      BY DEF Inv, TypeOK
    <3> QED
      BY <3>1, <3>2, <3>3 DEF Quiet
  <2> QED
    BY <2>1, NextOnce, NextDemand DEF Served
<1> QED
  BY <1>1, <1>2, InitHolds, NextKeeps, PTL DEF Spec

(* What counts as reminded of has a notification for either party.  As     *)
(* long as scans do not overlap and nothing fails, nobody is reminded of   *)
(* the same thing twice, and each party to what takes place was sent the   *)
(* reminder or its job waits to be sent: of a demo as long as there are no *)
(* more of them than the scans of one window return together, however     *)
(* their windows overlap, of a lesson as long as one scan returns all.     *)
THEOREM RemindedOnTime == Spec => []RemindedExactlyOnce
<1>0. ASSUME Inv, Once, NEW i \in 1 .. Len(notification)
      PROVE  /\ mails[i] \in Nat /\ mails[i] <= 1
             /\ job[i].step # "waiting" /\ (\A p \in Scans : ~InScan(p, i)) => mails[i] = 1
  <2>1. mails[i] \in Nat /\ RowOK(i)
    BY <1>0, RowsTyped DEF Inv
  <2>2. /\ job[i].step \in {"none", "waiting", "record", "complete"}
        /\ job[i].made = 0 /\ job[i].stalls = 0
    BY <1>0 DEF Once, JobsOnce
  <2>3. CASE job[i].step = "none"
    <3>1. CASE mails[i] = 1
      BY <2>1, <3>1
    <3>2. ASSUME NEW p \in Scans, InScan(p, i) PROVE mails[i] = 0
      <4>1. scan[p].step = "add"
        BY <1>0, <3>2 DEF InScan, Sending, Once, ScanOnce
      <4> QED
        BY <1>0, <3>2, <4>1, Carried DEF InScan, Holds
    <3> QED
      BY <1>0, <2>1, <2>3, <3>1, <3>2 DEF Once, JobsOnce
  <2>4. CASE job[i].step = "waiting"
    <3>1. mails[i] <= 0 + 0 + 0
      BY <2>1, <2>2, <2>4 DEF RowOK, JobOK, Runs, InWork, Working
    <3> QED
      BY <2>1, <2>4, <3>1
  <2>5. CASE job[i].step \in {"record", "complete"}
    <3>1. mails[i] <= 0 + 0 + 1 /\ mails[i] > 0
      BY <2>1, <2>2, <2>5 DEF RowOK, JobOK, Runs, InWork, Working
    <3> QED
      BY <2>1, <2>5, <3>1
  <2> QED
    BY <2>2, <2>3, <2>4, <2>5
<1>1. ASSUME Inv, Served PROVE RemindedOnce
  BY <1>0, <1>1, RowsTyped DEF Served, Quiet, Once, RowsOnce, RemindedOnce, Inv
<1>2. ASSUME Inv, Served PROVE NobodyForgotten
  <2> SUFFICES ASSUME NEW e \in upcoming, Quiet, Far < StartOf[e], StartOf[e] < now + Near,
                      e \in Demos => Cardinality(Demos) <= Take * (Far - Near + 1),
                      e \in Lessons => Cardinality(Lessons) <= Take,
                      \A p \in Scans : At(p, "idle"), NEW who \in Parties
               PROVE  \E i \in DOMAIN notification :
                         /\ notification[i].event = e /\ notification[i].party = who
                         /\ mails[i] = 1 \/ job[i].step = "waiting"
    BY DEF NobodyForgotten, Quiet
  <2>7. e \in marked => \E i \in DOMAIN notification :
                         /\ notification[i].event = e /\ notification[i].party = who
                         /\ mails[i] = 1 \/ job[i].step = "waiting"
    <3> SUFFICES ASSUME e \in marked
                 PROVE  \E i \in DOMAIN notification :
                           /\ notification[i].event = e /\ notification[i].party = who
                           /\ mails[i] = 1 \/ job[i].step = "waiting"
      OBVIOUS
    <3>1. PICK i \in 1 .. Len(notification) :
             notification[i].event = e /\ notification[i].party = who
      BY <1>2, RowsTyped DEF Inv, MarkedIsNotified, Notified
    <3>2. \A p \in Scans : ~InScan(p, i)
      BY DEF At, InScan, Sending
    <3>3. mails[i] = 1 \/ job[i].step = "waiting"
      BY <1>0, <1>2, <3>2 DEF Served
    <3> QED
      BY <1>2, <3>1, <3>3, RowsTyped DEF Inv
  <2> SUFFICES ASSUME e \notin marked PROVE FALSE
    BY <2>7
  <2>1. Demand /\ \A p \in Scans : scan[p] = Idle
    BY <1>2 DEF Served, Once, ScanOnce, At
  <2>2. e \in Events /\ e \notin Covered
    BY <1>2, <2>1, NothingAssumption DEF Covered, Idle, Inv, TypeOK
  <2>3. /\ StartOf[e] \in Nat /\ now \in Nat /\ Near \in Nat /\ Far \in Nat /\ Near <= Far
        /\ Take \in Nat
    BY <1>2, <2>2, NumbersAssumption DEF Inv, TypeOK
  <2>4. Reached(e, Far - Near) /\ Reached(e, 0) /\ Far - Near \in 0 .. Far - Near
    BY <2>3 DEF Reached
  <2>5. CASE e \in Demos
    <3>1. Cardinality(Covered \intersect Demos) >= Take * (Far - Near + 1)
      BY <2>1, <2>2, <2>4, <2>5 DEF Demand
    <3>2. /\ Covered \intersect Demos \in SUBSET Demos
          /\ Cardinality(Covered \intersect Demos) \in Nat /\ Cardinality(Demos) \in Nat
          /\ Cardinality(Covered \intersect Demos) <= Cardinality(Demos)
          /\ Cardinality(Demos) = Cardinality(Covered \intersect Demos) =>
                Demos = Covered \intersect Demos
      BY FiniteAssumption, FS_Subset, FS_CardinalityType
    <3>3. Take * (Far - Near + 1) \in Nat
      BY <2>3
    <3>4. Cardinality(Demos) <= Take * (Far - Near + 1)
      BY <2>5
    <3>5. Cardinality(Demos) = Cardinality(Covered \intersect Demos)
      BY <3>1, <3>2, <3>3, <3>4
    <3> QED
      BY <2>2, <2>5, <3>2, <3>5
  <2>6. CASE e \in Lessons
    BY <2>1, <2>2, <2>4, <2>6 DEF Demand
  <2> QED
    BY <2>2, <2>5, <2>6 DEF Events
<1>3. Inv /\ Served => RemindedExactlyOnce
  BY <1>1, <1>2 DEF RemindedExactlyOnce, Inv
<1> QED
  BY <1>3, AlwaysServed, PTL
=============================================================================
