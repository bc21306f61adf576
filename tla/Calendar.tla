------------------------------ MODULE Calendar ------------------------------
(***************************************************************************)
(* One tutor's calendar: demo classes that students book, the lessons that *)
(* are booked when an agreement is activated, slots that are released and  *)
(* dates on which the tutor is away.                                       *)
(*                                                                         *)
(* A request in flight is the statement it runs next and what it           *)
(* remembers.  Rows inserted in a transaction carry the request that       *)
(* inserted them until it commits: other connections do not see them, nor  *)
(* does the conflict check of the same request, which runs outside its     *)
(* transaction.                                                            *)
(***************************************************************************)
EXTENDS Recurrence, Sequences

CONSTANTS Matches,     \* the tutor's shortlisted matches
          Schedule,    \* the agreed rows of each match
          Weeks,       \* how many weeks an activation books (4 in the code)
          Lead,        \* how long before its start a demo must be booked
          DemoStarts,  \* when students want demos
          DemoLength,
          Dates,       \* dates on which the tutor may be away
          LastMoment,  \* bound of the clock
          SlotIds,     \* 1 .. n: at most this many slot rows
          Requests, Faults,
          Nobody

ASSUME ScheduleAssumption == Schedule \in [Matches -> Seq(Rows)]
ASSUME NobodyAssumption == Nobody \notin Matches \union Requests
ASSUME NumbersAssumption ==
    /\ {Weeks, Lead, DemoLength, LastMoment} \subseteq Nat /\ DemoLength > 0
    /\ DemoStarts \subseteq Nat /\ Dates \subseteq Nat /\ SlotIds \subseteq Nat

VARIABLES
    slot,        \* ScheduleSlot rows
    demo,        \* DemoClass.status of each match, "none" before it exists
    active,      \* the matches whose agreement is ACTIVE (they are MATCHED)
    away,        \* TutorAvailabilityException: the dates
    now,         \* the clock
    request,     \* the requests in flight
    overlapped   \* history: two requests were in flight at once

rows == <<slot, demo, active, away>>
vars == <<rows, now, request, overlapped>>

DemoStatus == {"none", "SCHEDULED", "COMPLETED", "CANCELLED", "NO_SHOW"}

SlotRow == [status : {"none", "OCCUPIED", "RELEASED"},
            source : {"DEMO", "AGREEMENT"},
            owner  : Matches \union {Nobody},
            start  : Nat, end : Nat,
            tx     : Requests \union {Nobody}]  \* the uncommitted inserter

NoRow == [status |-> "none", source |-> "DEMO", owner |-> Nobody,
          start |-> 0, end |-> 0, tx |-> Nobody]

-----------------------------------------------------------------------------
(* Requests in flight. *)

Steps == {"idle", "bookCheck", "bookTx", "demoTx", "count", "occupy", "release"}

RequestSet == [step   : Steps,
               target : Matches \union SlotIds \union {Nobody},
               start  : Nat,          \* the demo's start; activation's clock
               next   : Nat,          \* lessons already tried
               status : DemoStatus]   \* the demo status asked for

Idle == [step |-> "idle", target |-> Nobody, start |-> 0, next |-> 0,
         status |-> "none"]

Local(step, target) == [Idle EXCEPT !.step = step, !.target = target]

At(p, step) == request[p].step = step

Busy == \E p \in Requests : ~At(p, "idle")

Start(p, local) == /\ request[p] = Idle
                   /\ request' = [request EXCEPT ![p] = local]
                   /\ overlapped' = (overlapped \/ Busy)

Goto(p, local) == request' = [request EXCEPT ![p] = local] /\ UNCHANGED overlapped

Return(p) == Goto(p, Idle)

Init ==
    /\ slot = [i \in SlotIds |-> NoRow]
    /\ demo = [m \in Matches |-> "none"]
    /\ active = {}
    /\ away = {}
    /\ now = 0
    /\ request = [p \in Requests |-> Idle]
    /\ overlapped = FALSE

-----------------------------------------------------------------------------
(* Slots. *)

Visible(i) == slot[i].status # "none" /\ slot[i].tx = Nobody

Occupied(i) == Visible(i) /\ slot[i].status = "OCCUPIED"

(* Mutant: only the date on which it starts is looked up.                  *)
PresentAtStart(x) == DateOf(x.start) \notin away

(* assertNoException *)
Present(x) == EndDates(x) \intersect away = {}

(* Mutant: only demos are looked at.                                       *)
FreeOfDemos(x) == \A i \in SlotIds : Occupied(i) /\ slot[i].source = "DEMO" => Apart(x, slot[i])

(* assertNoConflict after assertNoException.                               *)
Free(x) == \A i \in SlotIds : Occupied(i) => Apart(x, slot[i])

Insert(i, source, m, x, tx) ==
    /\ slot[i].status = "none"
    /\ \A j \in SlotIds : j < i => slot[j].status # "none"
    /\ slot' = [slot EXCEPT ![i] =
                  [status |-> "OCCUPIED", source |-> source, owner |-> m,
                   start |-> x.start, end |-> x.end, tx |-> tx]]

-----------------------------------------------------------------------------
(* Demo classes. *)

DemoTime(start) == [start |-> start, end |-> start + DemoLength]

(* The unique matchId: one demo per match, whatever became of it.          *)
Unbooked(m) == demo[m] = "none"

(* The match, and then the exceptions, are read; the conflict check and    *)
(* the transaction are steps of their own.                                 *)
BookRead(p, m, start) ==
    /\ m \notin active
    /\ Unbooked(m)
    /\ start >= now + Lead
    /\ Present(DemoTime(start))
    /\ Start(p, [Local("bookCheck", m) EXCEPT !.start = start])
    /\ UNCHANGED <<rows, now>>

BookCheck(p) ==
    /\ At(p, "bookCheck")
    /\ \/ /\ Free(DemoTime(request[p].start))
          /\ Goto(p, [request[p] EXCEPT !.step = "bookTx"])
       \/ /\ ~Free(DemoTime(request[p].start))
          /\ Return(p)
    /\ UNCHANGED <<rows, now>>

(* Demo and slot are created together, or, if the match already has a      *)
(* demo, neither is.                                                       *)
BookTx(p) ==
    LET m == request[p].target
    IN  /\ At(p, "bookTx")
        /\ \/ ~Unbooked(m) /\ UNCHANGED <<demo, slot>>
           \/ /\ Unbooked(m)
              /\ demo' = [demo EXCEPT ![m] = "SCHEDULED"]
              /\ \E i \in SlotIds : Insert(i, "DEMO", m, DemoTime(request[p].start), Nobody)
        /\ Return(p)
        /\ UNCHANGED <<active, away, now>>

(* Mutant: a demo that is over may be given another status.                *)
Existing(m) == demo[m] # "none"

Pending(m) == demo[m] = "SCHEDULED"

DemoRead(p, m, status) ==
    /\ Pending(m)
    /\ status \notin {"none", "SCHEDULED"}
    /\ Start(p, [Local("demoTx", m) EXCEPT !.status = status])
    /\ UNCHANGED <<rows, now>>

DemoTx(p) ==
    LET m == request[p].target
        held == {i \in SlotIds : /\ Occupied(i)
                                 /\ slot[i].source = "DEMO"
                                 /\ slot[i].owner = m}
    IN  /\ At(p, "demoTx")
        /\ demo' = [demo EXCEPT ![m] = request[p].status]
        /\ slot' = [i \in SlotIds |-> IF i \in held
                                      THEN [slot[i] EXCEPT !.status = "RELEASED"]
                                      ELSE slot[i]]
        /\ Return(p)
        /\ UNCHANGED <<active, away, now>>

-----------------------------------------------------------------------------
(* Activation of an agreement: count its slots, book its lessons one by    *)
(* one in a transaction, and commit them with the new status.              *)

ActivateRead(p, m) ==
    /\ m \notin active
    /\ Start(p, Local("count", m))
    /\ UNCHANGED <<rows, now>>

Lessons(m) == Weeks * Len(Schedule[m])

(* Week by week and row by row.                                            *)
LessonOf(m, n, from) ==
    LET rowsPerWeek == Len(Schedule[m])
    IN  Lesson(Schedule[m][(n % rowsPerWeek) + 1], n \div rowsPerWeek, from)

ActivateCount(p) ==
    LET m == request[p].target
        counted == {i \in SlotIds : /\ Occupied(i)
                                    /\ slot[i].source = "AGREEMENT"
                                    /\ slot[i].owner = m}
    IN  /\ At(p, "count")
        /\ Goto(p, [Local("occupy", m) EXCEPT
                      !.start = now,
                      !.next = IF counted = {} THEN 0 ELSE Lessons(m)])
        /\ UNCHANGED <<rows, now>>

(* assertNoConflict also refuses an interval that ends before it starts.   *)
Bookable(x) == x.end > x.start /\ Present(x) /\ Free(x)

(* A lesson that cannot be booked is passed over in silence.               *)
OccupyNext(p) ==
    LET m == request[p].target
        x == LessonOf(m, request[p].next, request[p].start)
    IN  /\ At(p, "occupy")
        /\ request[p].next < Lessons(m)
        /\ \/ ~Bookable(x) /\ UNCHANGED slot
           \/ /\ Bookable(x)
              /\ \E i \in SlotIds : Insert(i, "AGREEMENT", m, x, p)
        /\ Goto(p, [request[p] EXCEPT !.next = @ + 1])
        /\ UNCHANGED <<demo, active, away, now>>

(* Mutant: the lessons are never committed.                                *)
CommitNothing(p) == UNCHANGED slot

Commit(p) ==
    slot' = [i \in SlotIds |-> IF slot[i].tx = p THEN [slot[i] EXCEPT !.tx = Nobody]
                              ELSE slot[i]]

(* Mutant: the handler does not wait for the bookings.                     *)
AnyTried(p) == request[p].next >= 0

AllTried(p) == request[p].next >= Lessons(request[p].target)

ActivateTx(p) ==
    LET m == request[p].target
    IN  /\ At(p, "occupy")
        /\ AllTried(p)
        /\ Commit(p)
        /\ active' = active \union {m}
        /\ Return(p)
        /\ UNCHANGED <<demo, away, now>>

-----------------------------------------------------------------------------
(* Release of a lesson by the student, and the tutor's exception dates. *)

(* Mutant: a demo's slot may be released by itself.                        *)
AnySlot(i) == Occupied(i)

Releasable(i) == Occupied(i) /\ slot[i].source = "AGREEMENT"

ReleaseRead(p, i) ==
    /\ Releasable(i)
    /\ Start(p, Local("release", i))
    /\ UNCHANGED <<rows, now>>

ReleaseWrite(p) ==
    /\ At(p, "release")
    /\ slot' = [slot EXCEPT ![request[p].target].status = "RELEASED"]
    /\ Return(p)
    /\ UNCHANGED <<demo, active, away, now>>

AddException(d) ==
    /\ d \notin away
    /\ away' = away \union {d}
    /\ overlapped' = (overlapped \/ Busy)
    /\ UNCHANGED <<slot, demo, active, now, request>>

RemoveException(d) ==
    /\ d \in away
    /\ away' = away \ {d}
    /\ overlapped' = (overlapped \/ Busy)
    /\ UNCHANGED <<slot, demo, active, now, request>>

-----------------------------------------------------------------------------
(* The handler dies at an await; its transaction is rolled back.           *)
Die(p) ==
    /\ Faults
    /\ ~At(p, "idle")
    /\ slot' = [i \in SlotIds |-> IF slot[i].tx = p THEN NoRow ELSE slot[i]]
    /\ Return(p)
    /\ UNCHANGED <<demo, active, away, now>>

Tick ==
    /\ now < LastMoment
    /\ now' = now + 1
    /\ UNCHANGED <<rows, request, overlapped>>

Arrive(p) ==
    \/ \E m \in Matches : \/ \E start \in DemoStarts : BookRead(p, m, start)
                          \/ \E status \in DemoStatus : DemoRead(p, m, status)
                          \/ ActivateRead(p, m)
    \/ \E i \in SlotIds : ReleaseRead(p, i)

Resume(p) ==
    \/ BookCheck(p) \/ BookTx(p) \/ DemoTx(p)
    \/ ActivateCount(p) \/ OccupyNext(p) \/ ActivateTx(p)
    \/ ReleaseWrite(p)

Next ==
    \/ Tick
    \/ \E d \in Dates : AddException(d) \/ RemoveException(d)
    \/ \E p \in Requests : Arrive(p) \/ Resume(p) \/ Die(p)

Spec == Init /\ [][Next]_vars
-----------------------------------------------------------------------------
(* Types. *)

SlotsOK == \A i \in SlotIds : /\ slot[i] \in SlotRow
                              /\ slot[i].tx \in Requests => At(slot[i].tx, "occupy")

RequestsOK ==
    \A p \in Requests :
        /\ request[p] \in RequestSet
        /\ request[p].step \notin {"idle", "release"} => request[p].target \in Matches
        /\ At(p, "release") => request[p].target \in SlotIds
        /\ At(p, "demoTx") => request[p].status \notin {"none", "SCHEDULED"}

(* Every row has the columns of its table, and only an activation that is  *)
(* still booking has rows that are not committed.                          *)
TypeOK ==
    /\ slot \in [SlotIds -> SlotRow] /\ SlotsOK
    /\ demo \in [Matches -> DemoStatus]
    /\ active \subseteq Matches
    /\ away \subseteq Dates
    /\ now \in Nat
    /\ request \in [Requests -> RequestSet] /\ RequestsOK
    /\ overlapped \in BOOLEAN

-----------------------------------------------------------------------------
(* Safety. *)

DemoSlots(m) == {i \in SlotIds : /\ Occupied(i)
                                 /\ slot[i].source = "DEMO"
                                 /\ slot[i].owner = m}

(* The rows are well-formed.  A scheduled demo holds exactly one slot, and *)
(* a demo that was cancelled, completed or missed holds none: demo and     *)
(* slot never part, whatever bookings, updates and releases run beside one *)
(* another (book, updateStatus, releaseSlot).                              *)
DemoHoldsItsTime ==
    /\ TypeOK
    /\ \A m \in Matches : IF demo[m] = "SCHEDULED"
                          THEN \E i \in SlotIds : DemoSlots(m) = {i}
                          ELSE DemoSlots(m) = {}

SameAgreement(i, j) == /\ slot[i].source = "AGREEMENT" /\ slot[j].source = "AGREEMENT"
                       /\ slot[i].owner = slot[j].owner

(* docs/FUNCTIONALITY.md 11.3: the tutor cannot take a booking that        *)
(* overlaps another or breaks its buffer.  That is so as long as handlers  *)
(* do not overlap, except among the rows of one schedule, which are not    *)
(* compared with each other.                                               *)
NoDoubleBooking ==
    overlapped \/ \A i, j \in SlotIds :
        i # j /\ Occupied(i) /\ Occupied(j) =>
            Apart(slot[i], slot[j]) \/ SameAgreement(i, j)

(* As long as handlers do not overlap, no booking begins or ends on a date *)
(* on which the tutor is away.                                             *)
AwayIsRespected ==
    [][\A i \in SlotIds : Visible(i)' /\ ~Visible(i) =>
          overlapped' \/ EndDates(slot'[i]) \intersect away = {}]_vars

Holds(i, m, x) == Occupied(i)' /\ slot'[i].owner = m /\ slot'[i].start = x.start

(* An activation that commits has booked every agreed lesson in its full   *)
(* length; one is missing or has another length only if another booking    *)
(* or an exception was in its way, or if agreement was activated between   *)
(* the hours of that row (docs/FUNCTIONALITY.md 11.2 has no exception).    *)
ActivationBooks ==
    [][\A p \in Requests : At(p, "occupy") /\ ~At(p, "occupy")' =>
         LET m == request[p].target
         IN  m \in active' /\ ~overlapped' =>
               \A w \in 0 .. Weeks - 1, k \in 1 .. Len(Schedule[m]) :
                   LET row == Schedule[m][k]
                       x   == Lesson(row, w, request[p].start)
                   IN  \/ Straddles(row, request[p].start)
                       \/ ~Present(x)
                       \/ ~Free(x)
                       \/ \E i \in SlotIds : /\ Holds(i, m, x)
                                             /\ slot'[i].end = x.start + Length(row)]_vars

(* demo-classes.service.ts: "only SCHEDULED demos can be updated".  True   *)
(* as long as handlers do not overlap.                                     *)
DemoIsFinal ==
    [][\A m \in Matches : demo[m] \notin {"none", "SCHEDULED"} =>
          overlapped' \/ demo'[m] = demo[m]]_vars

(* What is booked keeps the tutor's exceptions and the agreed schedule,    *)
(* and what became of a demo stays so.                                     *)
CalendarStands == AwayIsRespected /\ ActivationBooks /\ DemoIsFinal
=============================================================================
