--------------------------- MODULE Calendar_proofs ---------------------------
(***************************************************************************)
(* Proofs about Calendar, for any number of matches, slots and requests,   *)
(* any schedule and any length of a day: whatever overlaps or dies, a      *)
(* scheduled demo holds exactly one slot; and as long as handlers do not   *)
(* overlap, no two bookings are closer than the buffer, except rows of one *)
(* schedule, no step books a date on which the tutor is away, changes a    *)
(* demo that is over, or activates an agreement without its lessons.       *)
(***************************************************************************)
EXTENDS Calendar, TLAPS

-----------------------------------------------------------------------------
(* Arithmetic. *)

LEMMA DivMod == \A n \in Nat, d \in Nat \ {0} : n % d \in 0 .. d - 1 /\ n \div d \in Nat
OBVIOUS

LEMMA FloorIsNat == \A n \in Nat, d \in Nat \ {0} : n - (n % d) \in Nat
OBVIOUS

LEMMA TimesIsNat == \A a, b \in Nat : a * b \in Nat
OBVIOUS

(* Every occurrence of a row lies in the time that is counted.             *)
LEMMA OccurrenceIsNat ==
    ASSUME NEW day \in Weekdays, NEW time \in Times, NEW week \in Nat, NEW from \in Nat
    PROVE  NextOccurrence(day, time, week, from) \in Nat
<1>1. Midnight(from) \in Nat
  BY FloorIsNat, DayAssumption DEF Midnight
<1>2. DaysAhead(day, time, from) \in Nat
  <2>1. Weekday(from) \in 0 .. 6
    <3>1. DateOf(from) \in Nat
      BY DivMod, DayAssumption DEF DateOf
    <3> QED
      BY <3>1 DEF Weekday
  <2>2. (day - Weekday(from) + 7) % 7 \in 0 .. 6
    <3>1. day - Weekday(from) + 7 \in Nat
      BY <2>1 DEF Weekdays
    <3> QED
      BY <3>1
  <2> QED
    BY <2>2 DEF DaysAhead
<1>3. DaysAhead(day, time, from) * Day \in Nat /\ week * Week \in Nat
  <2>1. Week \in Nat
    BY DayAssumption DEF Week
  <2> QED
    BY <1>2, <2>1, TimesIsNat, DayAssumption
<1> QED
  BY <1>1, <1>3, DayAssumption DEF NextOccurrence, Times

LEMMA LessonIsTyped ==
    ASSUME NEW row \in Rows, NEW week \in Nat, NEW from \in Nat
    PROVE  Lesson(row, week, from).start \in Nat /\ Lesson(row, week, from).end \in Nat
<1> DEFINE s == NextOccurrence(row.day, row.start, week, from)
           e == NextOccurrence(row.day, row.end, week, from)
<1>1. s \in Nat /\ e \in Nat
  BY OccurrenceIsNat DEF Rows
<1>2. Lesson(row, week, from) = [start |-> s, end |-> IF e <= s THEN e + Day ELSE e]
  BY DEF Lesson
<1> HIDE DEF s, e
<1> QED
  BY <1>1, <1>2, DayAssumption

LEMMA LessonOfIsTyped ==
    ASSUME NEW m \in Matches, NEW n \in Nat, n < Lessons(m), NEW from \in Nat
    PROVE  LessonOf(m, n, from).start \in Nat /\ LessonOf(m, n, from).end \in Nat
<1> DEFINE L == Len(Schedule[m])
           k == n % L
           w == n \div L
<1>1. Schedule[m] \in Seq(Rows) /\ L \in Nat
  BY ScheduleAssumption
<1>2. Weeks \in Nat
  BY NumbersAssumption
<1>3. L # 0
  BY <1>1, <1>2 DEF Lessons
<1>4. k \in 0 .. L - 1 /\ w \in Nat
  BY <1>1, <1>3, DivMod
<1>5. LessonOf(m, n, from) = Lesson(Schedule[m][k + 1], w, from)
  BY DEF LessonOf
<1> HIDE DEF k, w
<1>6. Schedule[m][k + 1] \in Rows
  <2>1. k + 1 \in 1 .. L
    BY <1>1, <1>4
  <2> QED
    BY <1>1, <2>1
<1> QED
  BY <1>4, <1>5, <1>6, LessonIsTyped

LEMMA DemoTimeIsTyped ==
    ASSUME NEW start \in Nat
    PROVE  DemoTime(start).start \in Nat /\ DemoTime(start).end \in Nat
BY NumbersAssumption DEF DemoTime

-----------------------------------------------------------------------------
(* Types. *)

(* A request knows the match or the slot that it is about, and the status  *)
(* that it will give to a demo.                                            *)
Good == {r \in RequestSet :
            /\ r.step \notin {"idle", "release"} => r.target \in Matches
            /\ r.step = "release" => r.target \in SlotIds
            /\ r.step = "demoTx" => r.status \notin {"none", "SCHEDULED"}}

TypeInv == TypeOK /\ request \in [Requests -> Good]

LEMMA IdleIsGood == Idle \in Good
BY DEF Idle, Good, RequestSet, Steps, DemoStatus

LEMMA GoodIsOK ==
    ASSUME request \in [Requests -> Good]
    PROVE  request \in [Requests -> RequestSet] /\ RequestsOK
BY DEF Good, RequestsOK, At

LEMMA NoRowIsTyped == NoRow \in SlotRow
BY DEF NoRow, SlotRow

(* Rows that are committed or released remain rows.                        *)
LEMMA EditedRow ==
    ASSUME NEW r \in SlotRow
    PROVE  /\ [r EXCEPT !.tx = Nobody] \in SlotRow /\ [r EXCEPT !.tx = Nobody].tx = Nobody
           /\ [r EXCEPT !.status = "RELEASED"] \in SlotRow
           /\ [r EXCEPT !.status = "RELEASED"].tx = r.tx
BY DEF SlotRow

LEMMA RowTyped == ASSUME TypeInv, NEW i \in SlotIds PROVE slot[i] \in SlotRow
BY DEF TypeInv, TypeOK

(* The rows after a step of p, which has a row of its own that is not      *)
(* committed only while it books lessons.                                  *)
OwnRows(p) == \A i \in SlotIds : /\ slot'[i] \in SlotRow
                                 /\ slot'[i].tx \notin {Nobody, p} => slot'[i].tx = slot[i].tx
                                 /\ slot'[i].tx = p => request'[p].step = "occupy"

LEMMA StepTyped ==
    ASSUME TypeInv, NEW p \in Requests, OwnRows(p), DOMAIN slot' = SlotIds,
           slot' = [i \in SlotIds |-> slot'[i]],
           NEW local \in Good, request' = [request EXCEPT ![p] = local]
    PROVE  /\ slot' \in [SlotIds -> SlotRow] /\ SlotsOK'
           /\ request' \in [Requests -> Good]
           /\ request' \in [Requests -> RequestSet] /\ RequestsOK'
<1>1. request' \in [Requests -> Good]
  BY DEF TypeInv
<1>2. request' \in [Requests -> RequestSet] /\ RequestsOK'
  BY <1>1 DEF Good, RequestsOK, At
<1>3. slot' \in [SlotIds -> SlotRow]
  BY DEF OwnRows
<1>4. SlotsOK'
  <2> SUFFICES ASSUME NEW i \in SlotIds, slot'[i].tx \in Requests
               PROVE  request'[slot'[i].tx].step = "occupy"
    BY <1>3 DEF SlotsOK, At
  <2>1. CASE slot'[i].tx = p
    BY <2>1 DEF OwnRows
  <2>2. CASE slot'[i].tx # p
    <3>1. slot'[i].tx = slot[i].tx
      BY <2>2, NobodyAssumption DEF OwnRows
    <3>2. request[slot[i].tx].step = "occupy"
      BY <3>1 DEF TypeInv, TypeOK, SlotsOK, At
    <3> QED
      BY <2>2, <3>1, <3>2 DEF TypeInv, TypeOK
  <2> QED
    BY <2>1, <2>2
<1> QED
  BY <1>1, <1>2, <1>3, <1>4

(* A request that begins or goes on and leaves the slots alone.            *)
LEMMA SlotsStay ==
    ASSUME TypeInv, NEW p \in Requests, ~At(p, "occupy"), UNCHANGED slot
    PROVE  OwnRows(p) /\ DOMAIN slot' = SlotIds /\ slot' = [i \in SlotIds |-> slot'[i]]
BY NobodyAssumption DEF TypeInv, TypeOK, SlotsOK, OwnRows, At

LEMMA InsertTyped ==
    ASSUME TypeInv, NEW p \in Requests, NEW i \in SlotIds, NEW source \in {"DEMO", "AGREEMENT"},
           NEW m \in Matches, NEW x, x.start \in Nat, x.end \in Nat,
           NEW tx \in {Nobody, p}, Insert(i, source, m, x, tx),
           request'[p].step = "occupy" \/ (tx = Nobody /\ ~At(p, "occupy"))
    PROVE  OwnRows(p) /\ DOMAIN slot' = SlotIds /\ slot' = [j \in SlotIds |-> slot'[j]]
<1> DEFINE row == [status |-> "OCCUPIED", source |-> source, owner |-> m,
                   start |-> x.start, end |-> x.end, tx |-> tx]
<1>1. row \in SlotRow
  BY DEF SlotRow
<1>2. slot' = [slot EXCEPT ![i] = row] /\ row.tx = tx
  BY DEF Insert
<1> HIDE DEF row
<1>3. ASSUME NEW j \in SlotIds
      PROVE  /\ slot'[j] \in SlotRow
             /\ slot'[j].tx \notin {Nobody, p} => slot'[j].tx = slot[j].tx
             /\ slot'[j].tx = p => request'[p].step = "occupy"
  <2>1. CASE j = i
    BY <1>1, <1>2, <2>1, NobodyAssumption DEF TypeInv, TypeOK
  <2>2. CASE j # i
    <3>1. slot'[j] = slot[j] /\ slot[j] \in SlotRow
      BY <1>2, <2>2 DEF TypeInv, TypeOK
    <3>2. slot[j].tx = p => At(p, "occupy")
      BY DEF TypeInv, TypeOK, SlotsOK
    <3> QED
      BY <3>1, <3>2, NobodyAssumption DEF At
  <2> QED
    BY <2>1, <2>2
<1>4. DOMAIN slot' = SlotIds /\ slot' = [j \in SlotIds |-> slot'[j]]
  BY <1>2 DEF TypeInv, TypeOK
<1> QED
  BY <1>3, <1>4 DEF OwnRows

LEMMA TypeArrive ==
    ASSUME TypeInv, NEW p \in Requests, Arrive(p)
    PROVE  TypeInv'
<1> USE DEF rows
<1>0. ASSUME NEW local \in Good, Start(p, local), UNCHANGED <<rows, now>>
      PROVE  TypeInv'
  <2>1. ~At(p, "occupy") /\ request' = [request EXCEPT ![p] = local]
    BY <1>0 DEF Start, Idle, At
  <2>2. overlapped' \in BOOLEAN
    BY <1>0 DEF Start, TypeInv, TypeOK
  <2> QED
    BY <1>0, <2>1, <2>2, SlotsStay, StepTyped DEF TypeInv, TypeOK
<1>1. ASSUME NEW m \in Matches, NEW start \in DemoStarts, BookRead(p, m, start)
      PROVE  TypeInv'
  <2>1. start \in Nat
    BY NumbersAssumption
  <2>2. [Local("bookCheck", m) EXCEPT !.start = start] \in Good
    BY <2>1 DEF Good, Local, Idle, RequestSet, Steps, DemoStatus
  <2> QED
    BY <1>0, <1>1, <2>2 DEF BookRead
<1>2. ASSUME NEW m \in Matches, NEW status \in DemoStatus, DemoRead(p, m, status)
      PROVE  TypeInv'
  <2>1. [Local("demoTx", m) EXCEPT !.status = status] \in Good
    BY <1>2 DEF DemoRead, Good, Local, Idle, RequestSet, Steps
  <2> QED
    BY <1>0, <1>2, <2>1 DEF DemoRead
<1>3. ASSUME NEW m \in Matches, ActivateRead(p, m) PROVE TypeInv'
  <2>1. Local("count", m) \in Good
    BY DEF Good, Local, Idle, RequestSet, Steps, DemoStatus
  <2> QED
    BY <1>0, <1>3, <2>1 DEF ActivateRead
<1>4. ASSUME NEW i \in SlotIds, ReleaseRead(p, i) PROVE TypeInv'
  <2>1. Local("release", i) \in Good
    BY DEF Good, Local, Idle, RequestSet, Steps, DemoStatus
  <2> QED
    BY <1>0, <1>4, <2>1 DEF ReleaseRead
<1> QED
  BY <1>1, <1>2, <1>3, <1>4 DEF Arrive

LEMMA TypeResume ==
    ASSUME TypeInv, NEW p \in Requests, Resume(p)
    PROVE  TypeInv'
<1>0. request[p] \in Good
  BY DEF TypeInv
<1>1. CASE BookCheck(p)
  <2>1. [request[p] EXCEPT !.step = "bookTx"] \in Good
    BY <1>0, <1>1 DEF BookCheck, At, Good, RequestSet, Steps
  <2>2. PICK local \in Good : Goto(p, local)
    BY <1>1, <2>1, IdleIsGood DEF BookCheck, Return
  <2>3. ~At(p, "occupy") /\ UNCHANGED <<rows, now>>
    BY <1>1 DEF BookCheck, At
  <2> QED
    BY <2>2, <2>3, SlotsStay, StepTyped DEF Goto, rows, TypeInv, TypeOK
<1>2. CASE BookTx(p)
  <2> DEFINE m == request[p].target
  <2>1. m \in Matches /\ request[p].start \in Nat /\ ~At(p, "occupy")
    BY <1>0, <1>2 DEF BookTx, At, Good, RequestSet
  <2>2. OwnRows(p) /\ DOMAIN slot' = SlotIds /\ slot' = [j \in SlotIds |-> slot'[j]]
    <3>1. CASE UNCHANGED slot
      BY <2>1, <3>1, SlotsStay
    <3>2. ASSUME NEW i \in SlotIds, Insert(i, "DEMO", m, DemoTime(request[p].start), Nobody)
          PROVE  OwnRows(p) /\ DOMAIN slot' = SlotIds /\ slot' = [j \in SlotIds |-> slot'[j]]
      BY <2>1, <3>2, DemoTimeIsTyped, InsertTyped
    <3> QED
      BY <1>2, <3>1, <3>2 DEF BookTx
  <2>3. demo' \in [Matches -> DemoStatus]
    BY <1>2, <2>1 DEF BookTx, TypeInv, TypeOK, DemoStatus
  <2>4. request' = [request EXCEPT ![p] = Idle] /\ UNCHANGED <<active, away, now, overlapped>>
    BY <1>2 DEF BookTx, Return, Goto
  <2> QED
    BY <2>2, <2>3, <2>4, IdleIsGood, StepTyped DEF TypeInv, TypeOK
<1>3. CASE DemoTx(p)
  <2>1. request[p].target \in Matches /\ request[p].status \in DemoStatus /\ ~At(p, "occupy")
    BY <1>0, <1>3 DEF DemoTx, At, Good, RequestSet
  <2>2. OwnRows(p) /\ DOMAIN slot' = SlotIds /\ slot' = [j \in SlotIds |-> slot'[j]]
    <3>1. \A i \in SlotIds : slot'[i] \in {slot[i], [slot[i] EXCEPT !.status = "RELEASED"]}
      BY <1>3 DEF DemoTx
    <3>2. \A i \in SlotIds : slot'[i] \in SlotRow /\ slot'[i].tx = slot[i].tx
      BY <3>1, RowTyped, EditedRow
    <3>3. \A i \in SlotIds : slot[i].tx # p
      BY <2>1, NobodyAssumption DEF TypeInv, TypeOK, SlotsOK
    <3> QED
      BY <1>3, <3>2, <3>3 DEF DemoTx, OwnRows
  <2>3. demo' \in [Matches -> DemoStatus]
    BY <1>3, <2>1 DEF DemoTx, TypeInv, TypeOK
  <2>4. request' = [request EXCEPT ![p] = Idle] /\ UNCHANGED <<active, away, now, overlapped>>
    BY <1>3 DEF DemoTx, Return, Goto
  <2> QED
    BY <2>2, <2>3, <2>4, IdleIsGood, StepTyped DEF TypeInv, TypeOK
<1>4. CASE ActivateCount(p)
  <2> DEFINE m == request[p].target
  <2>1. m \in Matches /\ ~At(p, "occupy") /\ now \in Nat
    BY <1>0, <1>4 DEF ActivateCount, At, Good, TypeInv, TypeOK
  <2>2. Lessons(m) \in Nat
    <3>1. Schedule[m] \in Seq(Rows)
      BY <2>1, ScheduleAssumption
    <3>2. Len(Schedule[m]) \in Nat
      BY <3>1
    <3> QED
      BY <3>2, TimesIsNat, NumbersAssumption DEF Lessons
  <2>3. PICK n \in Nat : Goto(p, [Local("occupy", m) EXCEPT !.start = now, !.next = n])
    BY <1>4, <2>2 DEF ActivateCount
  <2>4. [Local("occupy", m) EXCEPT !.start = now, !.next = n] \in Good
    BY <2>1 DEF Good, Local, Idle, RequestSet, Steps, DemoStatus
  <2>5. UNCHANGED <<rows, now>>
    BY <1>4 DEF ActivateCount
  <2> QED
    BY <2>1, <2>3, <2>4, <2>5, SlotsStay, StepTyped DEF Goto, rows, TypeInv, TypeOK
<1>5. CASE OccupyNext(p)
  <2> DEFINE m == request[p].target
             x == LessonOf(m, request[p].next, request[p].start)
             local == [request[p] EXCEPT !.next = request[p].next + 1]
  <2>1. m \in Matches /\ request[p].start \in Nat /\ request[p].next \in Nat
    BY <1>0, <1>5 DEF OccupyNext, At, Good, RequestSet
  <2>2. x.start \in Nat /\ x.end \in Nat
    BY <1>5, <2>1, LessonOfIsTyped DEF OccupyNext
  <2>3. local \in Good /\ local.step = "occupy"
    BY <1>0, <1>5, <2>1 DEF OccupyNext, At, Good, RequestSet
  <2>4. request' = [request EXCEPT ![p] = local] /\ UNCHANGED <<demo, active, away, now, overlapped>>
    BY <1>5 DEF OccupyNext, Goto
  <2>5. \/ UNCHANGED slot
        \/ \E i \in SlotIds : Insert(i, "AGREEMENT", m, x, p)
    BY <1>5 DEF OccupyNext
  <2> HIDE DEF m, x, local
  <2>6. request'[p].step = "occupy"
    BY <2>3, <2>4 DEF TypeInv, TypeOK
  <2>7. OwnRows(p) /\ DOMAIN slot' = SlotIds /\ slot' = [j \in SlotIds |-> slot'[j]]
    <3>1. CASE UNCHANGED slot
      BY <2>6, <3>1 DEF OwnRows, TypeInv, TypeOK
    <3>2. ASSUME NEW i \in SlotIds, Insert(i, "AGREEMENT", m, x, p)
          PROVE  OwnRows(p) /\ DOMAIN slot' = SlotIds /\ slot' = [j \in SlotIds |-> slot'[j]]
      BY <2>1, <2>2, <2>6, <3>2, InsertTyped
    <3> QED
      BY <2>5, <3>1, <3>2
  <2> QED
    BY <2>3, <2>4, <2>7, StepTyped DEF TypeInv, TypeOK
<1>6. CASE ActivateTx(p)
  <2>1. request[p].target \in Matches
    BY <1>0, <1>6 DEF ActivateTx, At, Good
  <2>2. OwnRows(p) /\ DOMAIN slot' = SlotIds /\ slot' = [j \in SlotIds |-> slot'[j]]
    <3>1. \A i \in SlotIds : \/ slot[i].tx = p /\ slot'[i] = [slot[i] EXCEPT !.tx = Nobody]
                             \/ slot[i].tx # p /\ slot'[i] = slot[i]
      BY <1>6 DEF ActivateTx, Commit
    <3>2. ASSUME NEW i \in SlotIds
          PROVE  slot'[i] \in SlotRow /\ slot'[i].tx # p /\ slot'[i].tx \in {Nobody, slot[i].tx}
      <4>1. slot[i] \in SlotRow /\ p # Nobody
        BY RowTyped, NobodyAssumption
      <4>2. CASE slot[i].tx = p /\ slot'[i] = [slot[i] EXCEPT !.tx = Nobody]
        BY <4>1, <4>2, EditedRow
      <4>3. CASE slot[i].tx # p /\ slot'[i] = slot[i]
        BY <4>1, <4>3
      <4> QED
        BY <3>1, <4>2, <4>3
    <3> QED
      BY <1>6, <3>2 DEF ActivateTx, Commit, OwnRows
  <2>3. active' \subseteq Matches
    BY <1>6, <2>1 DEF ActivateTx, TypeInv, TypeOK
  <2>4. request' = [request EXCEPT ![p] = Idle] /\ UNCHANGED <<demo, away, now, overlapped>>
    BY <1>6 DEF ActivateTx, Return, Goto
  <2> QED
    BY <2>2, <2>3, <2>4, IdleIsGood, StepTyped DEF TypeInv, TypeOK
<1>7. CASE ReleaseWrite(p)
  <2>1. request[p].target \in SlotIds /\ ~At(p, "occupy")
    BY <1>0, <1>7 DEF ReleaseWrite, At, Good
  <2>2. OwnRows(p) /\ DOMAIN slot' = SlotIds /\ slot' = [j \in SlotIds |-> slot'[j]]
    <3>1. ASSUME NEW i \in SlotIds PROVE slot'[i] \in SlotRow /\ slot'[i].tx = slot[i].tx
      <4>1. slot'[i] \in {slot[i], [slot[i] EXCEPT !.status = "RELEASED"]}
        BY <1>7, <2>1 DEF ReleaseWrite, TypeInv, TypeOK
      <4> QED
        BY <4>1, RowTyped, EditedRow
    <3>2. \A i \in SlotIds : slot[i].tx # p
      BY <2>1, NobodyAssumption DEF TypeInv, TypeOK, SlotsOK
    <3> QED
      BY <1>7, <3>1, <3>2 DEF ReleaseWrite, OwnRows, TypeInv, TypeOK
  <2>3. request' = [request EXCEPT ![p] = Idle]
        /\ UNCHANGED <<demo, active, away, now, overlapped>>
    BY <1>7 DEF ReleaseWrite, Return, Goto
  <2> QED
    BY <2>2, <2>3, IdleIsGood, StepTyped DEF TypeInv, TypeOK
<1> QED
  BY <1>1, <1>2, <1>3, <1>4, <1>5, <1>6, <1>7 DEF Resume

LEMMA TypeInit == Init => TypeInv
<1> SUFFICES ASSUME Init PROVE TypeInv
  OBVIOUS
<1>1. request \in [Requests -> Good]
  BY IdleIsGood DEF Init
<1>2. SlotsOK /\ slot \in [SlotIds -> SlotRow]
  BY NoRowIsTyped, NobodyAssumption DEF Init, SlotsOK, NoRow
<1> QED
  BY <1>1, <1>2, GoodIsOK DEF Init, TypeInv, TypeOK, DemoStatus

LEMMA TypeNext == TypeInv /\ [Next]_vars => TypeInv'
<1> SUFFICES ASSUME TypeInv, [Next]_vars PROVE TypeInv'
  OBVIOUS
<1>1. CASE Tick
  BY <1>1 DEF Tick, rows, TypeInv, TypeOK, SlotsOK, RequestsOK, At
<1>2. ASSUME NEW d \in Dates, AddException(d) \/ RemoveException(d) PROVE TypeInv'
  BY <1>2 DEF AddException, RemoveException, TypeInv, TypeOK, SlotsOK, RequestsOK, At
<1>3. ASSUME NEW p \in Requests, Arrive(p) PROVE TypeInv'
  BY <1>3, TypeArrive
<1>4. ASSUME NEW p \in Requests, Resume(p) PROVE TypeInv'
  BY <1>4, TypeResume
<1>5. ASSUME NEW p \in Requests, Die(p) PROVE TypeInv'
  <2>1. OwnRows(p) /\ DOMAIN slot' = SlotIds /\ slot' = [j \in SlotIds |-> slot'[j]]
    <3>1. \A i \in SlotIds : \/ slot[i].tx = p /\ slot'[i] = NoRow
                             \/ slot[i].tx # p /\ slot'[i] = slot[i]
      BY <1>5 DEF Die
    <3>2. \A i \in SlotIds : slot'[i].tx # p /\ slot'[i].tx \in {Nobody, slot[i].tx}
      BY <3>1, NobodyAssumption DEF NoRow
    <3> QED
      BY <1>5, <3>1, <3>2, NoRowIsTyped DEF Die, OwnRows, TypeInv, TypeOK
  <2>2. request' = [request EXCEPT ![p] = Idle]
        /\ UNCHANGED <<demo, active, away, now, overlapped>>
    BY <1>5 DEF Die, Return, Goto
  <2> QED
    BY <2>1, <2>2, IdleIsGood, StepTyped DEF TypeInv, TypeOK
<1>6. CASE UNCHANGED vars
  BY <1>6 DEF vars, rows, TypeInv, TypeOK, SlotsOK, RequestsOK, At
<1> QED
  BY <1>1, <1>2, <1>3, <1>4, <1>5, <1>6 DEF Next

(* The rows keep their columns' types, and only a request that is booking  *)
(* lessons has rows that are not committed.                                *)
THEOREM TypeCorrect == Spec => []TypeInv
<1> QED
  BY TypeInit, TypeNext, PTL DEF Spec

-----------------------------------------------------------------------------
(* A scheduled demo holds exactly one slot.                                *)

DemoRow(i, m) == Occupied(i) /\ slot[i].source = "DEMO" /\ slot[i].owner = m

HoldsItsTime ==
    \A m \in Matches : IF demo[m] = "SCHEDULED"
                       THEN \E i \in SlotIds : \A j \in SlotIds : DemoRow(j, m) <=> j = i
                       ELSE \A j \in SlotIds : ~DemoRow(j, m)

(* The slot of a lesson that is committed: only such a one is released.    *)
Booked(i) == slot[i].source = "AGREEMENT" /\ Visible(i)

ReleasesLessons == \A p \in Requests : At(p, "release") => Booked(request[p].target)

(* A demo's row is never waiting for a commit.                             *)
DemosAreCommitted == \A i \in SlotIds : slot[i].source = "DEMO" => slot[i].tx = Nobody

DemoInv == TypeInv /\ HoldsItsTime /\ ReleasesLessons /\ DemosAreCommitted

(* A step of p that keeps what lessons have been booked.                   *)
LEMMA ReleasesLessonsStays ==
    ASSUME DemoInv, TypeInv', NEW p \in Requests,
           \A q \in Requests : q # p => request'[q] = request[q],
           \A i \in SlotIds : Booked(i) => Booked(i)',
           request'[p].step = "release" => Booked(request'[p].target)
    PROVE  ReleasesLessons'
<1> SUFFICES ASSUME NEW q \in Requests, NEW i,
                    request'[q].step = "release", i = request'[q].target
             PROVE  Booked(i)'
  BY DEF ReleasesLessons, At, Booked, Visible
<1>1. i \in SlotIds
  BY DEF TypeInv, Good
<1>2. Booked(i)
  BY DEF DemoInv, ReleasesLessons, At
<1> QED
  BY <1>1, <1>2

(* A step of p that leaves the demos and their slots alone.                *)
LEMMA DemosStay ==
    ASSUME DemoInv, UNCHANGED demo,
           \A i \in SlotIds, m \in Matches : DemoRow(i, m)' <=> DemoRow(i, m)
    PROVE  HoldsItsTime'
BY DEF DemoInv, HoldsItsTime

(* A row that is inserted was nobody's.                                    *)
LEMMA InsertKeeps ==
    ASSUME DemoInv, NEW i \in SlotIds, NEW source, NEW owner, NEW x, NEW tx,
           Insert(i, source, owner, x, tx)
    PROVE  /\ \A j \in SlotIds : j # i => slot'[j] = slot[j]
           /\ slot[i].status = "none"
           /\ slot'[i].status = "OCCUPIED" /\ slot'[i].source = source
           /\ slot'[i].owner = owner /\ slot'[i].tx = tx
           /\ \A j \in SlotIds : Booked(j) => Booked(j)'
           /\ \A j \in SlotIds, m \in Matches : j # i => (DemoRow(j, m)' <=> DemoRow(j, m))
<1>1. /\ \A j \in SlotIds : j # i => slot'[j] = slot[j]
      /\ slot[i].status = "none"
      /\ slot'[i].status = "OCCUPIED" /\ slot'[i].source = source
      /\ slot'[i].owner = owner /\ slot'[i].tx = tx
  BY DEF Insert, DemoInv, TypeInv, TypeOK
<1>2. \A j \in SlotIds : Booked(j) => Booked(j)'
  BY <1>1 DEF Booked, Visible
<1>3. \A j \in SlotIds, m \in Matches : j # i => (DemoRow(j, m)' <=> DemoRow(j, m))
  BY <1>1 DEF DemoRow, Occupied, Visible
<1> QED
  BY <1>1, <1>2, <1>3

LEMMA DemoResume ==
    ASSUME DemoInv, TypeInv', NEW p \in Requests, Resume(p)
    PROVE  HoldsItsTime' /\ ReleasesLessons' /\ DemosAreCommitted'
<1> DEFINE M == request[p].target
<1>0. request \in [Requests -> Good] /\ TypeOK
  BY DEF DemoInv, TypeInv
<1>a. ASSUME NEW local \in Good, request' = [request EXCEPT ![p] = local]
      PROVE  /\ \A q \in Requests : q # p => request'[q] = request[q]
             /\ request'[p] = local
  BY <1>0, <1>a
<1>b. ASSUME UNCHANGED slot, UNCHANGED demo, NEW local \in Good,
             request' = [request EXCEPT ![p] = local], local.step # "release"
      PROVE  HoldsItsTime' /\ ReleasesLessons' /\ DemosAreCommitted'
  <2>1. \A i \in SlotIds, m \in Matches : DemoRow(i, m)' <=> DemoRow(i, m)
    BY <1>b DEF DemoRow, Occupied, Visible
  <2>2. \A i \in SlotIds : Booked(i) => Booked(i)'
    BY <1>b DEF Booked, Visible
  <2>3. ReleasesLessons'
    BY <1>a, <1>b, <2>2, ReleasesLessonsStays
  <2>4. DemosAreCommitted'
    BY <1>b DEF DemoInv, DemosAreCommitted
  <2> QED
    BY <1>b, <2>1, <2>3, <2>4, DemosStay
<1>1. CASE BookCheck(p)
  <2>1. [request[p] EXCEPT !.step = "bookTx"] \in Good
    BY <1>0, <1>1 DEF BookCheck, At, Good, RequestSet, Steps
  <2>2. PICK local \in Good : Goto(p, local) /\ local.step # "release"
    BY <1>1, <2>1, IdleIsGood DEF BookCheck, Return, Idle, Good, RequestSet
  <2> QED
    BY <1>b, <1>1, <2>2 DEF BookCheck, Goto, rows
<1>2. CASE BookTx(p)
  <2>1. M \in Matches /\ request' = [request EXCEPT ![p] = Idle] /\ Idle.step # "release"
    BY <1>0, <1>2 DEF BookTx, At, Good, Return, Goto, Idle
  <2>2. CASE UNCHANGED <<demo, slot>>
    BY <1>b, <2>1, <2>2, IdleIsGood
  <2>3. ASSUME Unbooked(M), demo' = [demo EXCEPT ![M] = "SCHEDULED"], NEW i \in SlotIds,
               Insert(i, "DEMO", M, DemoTime(request[p].start), Nobody)
        PROVE  HoldsItsTime' /\ ReleasesLessons' /\ DemosAreCommitted'
    <3>1. /\ \A j \in SlotIds : j # i => slot'[j] = slot[j]
          /\ slot[i].status = "none"
          /\ slot'[i].status = "OCCUPIED" /\ slot'[i].source = "DEMO"
          /\ slot'[i].owner = M /\ slot'[i].tx = Nobody
          /\ \A j \in SlotIds : Booked(j) => Booked(j)'
          /\ \A j \in SlotIds, m \in Matches : j # i => (DemoRow(j, m)' <=> DemoRow(j, m))
      BY <2>3, InsertKeeps
    <3>2. ASSUME NEW m \in Matches
          PROVE  IF demo'[m] = "SCHEDULED"
                 THEN \E k \in SlotIds : \A j \in SlotIds : DemoRow(j, m)' <=> j = k
                 ELSE \A j \in SlotIds : ~DemoRow(j, m)'
      <4>1. CASE m = M
        <5>1. \A j \in SlotIds : ~DemoRow(j, m)
          BY <2>3, <4>1 DEF DemoInv, HoldsItsTime, Unbooked
        <5>2. DemoRow(i, m)'
          BY <3>1, <4>1 DEF DemoRow, Occupied, Visible
        <5>3. demo'[m] = "SCHEDULED"
          BY <1>0, <2>3, <4>1 DEF TypeOK
        <5> QED
          BY <3>1, <5>1, <5>2, <5>3
      <4>2. CASE m # M
        <5>1. ~DemoRow(i, m) /\ ~DemoRow(i, m)'
          BY <3>1, <4>2 DEF DemoRow, Occupied, Visible
        <5>2. demo'[m] = demo[m]
          BY <1>0, <2>3, <4>2 DEF TypeOK
        <5>3. \A j \in SlotIds : DemoRow(j, m)' <=> DemoRow(j, m)
          BY <3>1, <5>1
        <5> QED
          BY <5>2, <5>3 DEF DemoInv, HoldsItsTime
      <4> QED
        BY <4>1, <4>2
    <3>3. HoldsItsTime'
      BY <3>2 DEF HoldsItsTime
    <3>4. ReleasesLessons'
      <4>1. request'[p] = Idle /\ \A q \in Requests : q # p => request'[q] = request[q]
        BY <1>a, <2>1, IdleIsGood
      <4>2. \A j \in SlotIds : Booked(j) => Booked(j)'
        BY <3>1
      <4> QED
        BY <2>1, <4>1, <4>2, ReleasesLessonsStays
    <3>5. DemosAreCommitted'
      BY <3>1 DEF DemoInv, DemosAreCommitted
    <3> QED
      BY <3>3, <3>4, <3>5
  <2> QED
    BY <1>2, <2>2, <2>3 DEF BookTx
<1>3. CASE DemoTx(p)
  <2>0. PICK done \in Matches : done = M
    BY <1>0, <1>3 DEF DemoTx, At, Good
  <2>1. request[p].status # "SCHEDULED"
        /\ request' = [request EXCEPT ![p] = Idle] /\ Idle.step # "release"
    BY <1>0, <1>3 DEF DemoTx, At, Good, Return, Goto, Idle
  <2>2. \A i \in SlotIds : \/ DemoRow(i, done) /\ slot'[i] = [slot[i] EXCEPT !.status = "RELEASED"]
                           \/ ~DemoRow(i, done) /\ slot'[i] = slot[i]
    BY <1>3, <2>0 DEF DemoTx, DemoRow
  <2>3. \A i \in SlotIds : DemoRow(i, done) => slot'[i].status = "RELEASED"
    BY <1>0, <2>2 DEF TypeOK, SlotRow
  <2>4. \A i \in SlotIds : ~DemoRow(i, done)'
    BY <2>2, <2>3 DEF DemoRow, Occupied, Visible
  <2>5. ASSUME NEW m \in Matches, m # done
        PROVE  /\ demo'[m] = demo[m]
               /\ \A i \in SlotIds : DemoRow(i, m)' <=> DemoRow(i, m)
    <3>1. demo'[m] = demo[m]
      BY <1>0, <1>3, <2>0, <2>5 DEF DemoTx, TypeOK
    <3>2. ASSUME NEW i \in SlotIds PROVE DemoRow(i, m)' <=> DemoRow(i, m)
      <4>1. CASE DemoRow(i, done)
        <5>1. ~DemoRow(i, m)
          BY <2>5, <4>1 DEF DemoRow
        <5>2. ~DemoRow(i, m)'
          BY <2>3, <4>1 DEF DemoRow, Occupied
        <5> QED
          BY <5>1, <5>2
      <4>2. CASE ~DemoRow(i, done)
        <5>1. slot'[i] = slot[i]
          BY <2>2, <4>2
        <5> QED
          BY <5>1 DEF DemoRow, Occupied, Visible
      <4> QED
        BY <4>1, <4>2
    <3> QED
      BY <3>1, <3>2
  <2>6. demo'[done] # "SCHEDULED"
    BY <1>0, <1>3, <2>0, <2>1 DEF DemoTx, TypeOK
  <2>7. HoldsItsTime'
    BY <2>4, <2>5, <2>6 DEF DemoInv, HoldsItsTime
  <2>8. \A i \in SlotIds : Booked(i) => Booked(i)'
    BY <2>2 DEF Booked, Visible, DemoRow
  <2>9. DemosAreCommitted'
    <3>1. \A i \in SlotIds : slot'[i].source = slot[i].source /\ slot'[i].tx = slot[i].tx
      BY <1>0, <2>2 DEF TypeOK, SlotRow
    <3> QED
      BY <3>1 DEF DemoInv, DemosAreCommitted
  <2>10. ReleasesLessons'
    BY <1>a, <2>1, <2>8, IdleIsGood, ReleasesLessonsStays
  <2> QED
    BY <2>7, <2>9, <2>10
<1>4. CASE ActivateCount(p)
  <2>1. PICK n : request' = [request EXCEPT ![p] =
                                [Local("occupy", M) EXCEPT !.start = now, !.next = n]]
    BY <1>4 DEF ActivateCount, Goto
  <2>2. request'[p] \in Good
    BY DEF TypeInv
  <2>3. request'[p].step # "release" /\ request' = [request EXCEPT ![p] = request'[p]]
    BY <1>0, <2>1 DEF Local, Idle
  <2> QED
    BY <1>b, <1>4, <2>2, <2>3 DEF ActivateCount, rows
<1>5. CASE OccupyNext(p)
  <2> DEFINE x == LessonOf(M, request[p].next, request[p].start)
  <2>1. request' = [request EXCEPT ![p] = [request[p] EXCEPT !.next = @ + 1]] /\ UNCHANGED demo
    BY <1>5 DEF OccupyNext, Goto
  <2>2. request'[p] \in Good
    BY DEF TypeInv
  <2>3. request'[p].step = "occupy" /\ request' = [request EXCEPT ![p] = request'[p]]
    BY <1>0, <1>5, <2>1 DEF OccupyNext, At, Good, RequestSet
  <2>4. CASE UNCHANGED slot
    BY <1>b, <2>1, <2>2, <2>3, <2>4
  <2>5. ASSUME NEW i \in SlotIds, Insert(i, "AGREEMENT", M, x, p)
        PROVE  HoldsItsTime' /\ ReleasesLessons' /\ DemosAreCommitted'
    <3>1. /\ \A j \in SlotIds : j # i => slot'[j] = slot[j]
          /\ slot[i].status = "none" /\ slot'[i].source = "AGREEMENT"
          /\ \A j \in SlotIds : Booked(j) => Booked(j)'
          /\ \A j \in SlotIds, m \in Matches : j # i => (DemoRow(j, m)' <=> DemoRow(j, m))
      BY <2>5, InsertKeeps
    <3>2. \A m \in Matches : ~DemoRow(i, m) /\ ~DemoRow(i, m)'
      BY <3>1 DEF DemoRow, Occupied, Visible
    <3>3. HoldsItsTime'
      BY <2>1, <3>1, <3>2, DemosStay
    <3>4. ReleasesLessons'
      BY <1>a, <2>2, <2>3, <3>1, ReleasesLessonsStays
    <3>5. DemosAreCommitted'
      BY <3>1 DEF DemoInv, DemosAreCommitted
    <3> QED
      BY <3>3, <3>4, <3>5
  <2> QED
    BY <1>5, <2>4, <2>5 DEF OccupyNext
<1>6. CASE ActivateTx(p)
  <2>1. \A i \in SlotIds : \/ slot[i].tx = p /\ slot'[i] = [slot[i] EXCEPT !.tx = Nobody]
                           \/ slot[i].tx # p /\ slot'[i] = slot[i]
    BY <1>6 DEF ActivateTx, Commit
  <2>2. \A i \in SlotIds : /\ slot'[i].source = slot[i].source
                           /\ slot[i].tx = Nobody => slot'[i] = slot[i]
    BY <1>0, <2>1, NobodyAssumption DEF TypeOK, SlotRow
  <2>3. \A i \in SlotIds, m \in Matches : DemoRow(i, m)' <=> DemoRow(i, m)
    BY <2>2 DEF DemoInv, DemosAreCommitted, DemoRow, Occupied, Visible
  <2>4. \A i \in SlotIds : Booked(i) => Booked(i)'
    BY <2>2 DEF Booked, Visible
  <2>5. DemosAreCommitted'
    BY <2>2 DEF DemoInv, DemosAreCommitted
  <2>6. request' = [request EXCEPT ![p] = Idle] /\ Idle.step # "release" /\ UNCHANGED demo
    BY <1>6 DEF ActivateTx, Return, Goto, Idle
  <2>7. ReleasesLessons'
    BY <1>a, <2>4, <2>6, IdleIsGood, ReleasesLessonsStays
  <2> QED
    BY <2>3, <2>5, <2>6, <2>7, DemosStay
<1>7. CASE ReleaseWrite(p)
  <2>1. M \in SlotIds /\ Booked(M)
    BY <1>0, <1>7 DEF ReleaseWrite, At, Good, DemoInv, ReleasesLessons
  <2>2. /\ slot'[M] = [slot[M] EXCEPT !.status = "RELEASED"]
        /\ \A i \in SlotIds : i # M => slot'[i] = slot[i]
    BY <1>0, <1>7, <2>1 DEF ReleaseWrite, TypeOK
  <2>3. slot'[M].source = "AGREEMENT" /\ slot'[M].tx = Nobody /\ slot'[M].status # "none"
    BY <1>0, <2>1, <2>2 DEF Booked, Visible, TypeOK, SlotRow
  <2>4. \A i \in SlotIds, m \in Matches : DemoRow(i, m)' <=> DemoRow(i, m)
    BY <2>1, <2>2, <2>3 DEF DemoRow, Occupied, Visible, Booked
  <2>5. \A i \in SlotIds : Booked(i) => Booked(i)'
    BY <2>2, <2>3 DEF Booked, Visible
  <2>6. DemosAreCommitted'
    BY <2>2, <2>3 DEF DemoInv, DemosAreCommitted
  <2>7. request' = [request EXCEPT ![p] = Idle] /\ Idle.step # "release" /\ UNCHANGED demo
    BY <1>7 DEF ReleaseWrite, Return, Goto, Idle
  <2>8. ReleasesLessons'
    BY <1>a, <2>5, <2>7, IdleIsGood, ReleasesLessonsStays
  <2> QED
    BY <2>4, <2>6, <2>7, <2>8, DemosStay
<1> QED
  BY <1>1, <1>2, <1>3, <1>4, <1>5, <1>6, <1>7 DEF Resume

LEMMA DemoNext == DemoInv /\ [Next]_vars => DemoInv'
<1> SUFFICES ASSUME DemoInv, [Next]_vars PROVE DemoInv'
  OBVIOUS
<1>0. TypeInv' /\ TypeInv
  BY TypeNext DEF DemoInv
<1>a. ASSUME UNCHANGED slot
      PROVE  /\ \A i \in SlotIds, m \in Matches : DemoRow(i, m)' <=> DemoRow(i, m)
             /\ \A i \in SlotIds : Booked(i) => Booked(i)'
             /\ DemosAreCommitted'
  BY <1>a DEF DemoInv, DemosAreCommitted, DemoRow, Booked, Occupied, Visible
<1>b. ASSUME UNCHANGED slot, UNCHANGED demo, UNCHANGED request
      PROVE  DemoInv'
  <2>1. ReleasesLessons'
    BY <1>b DEF DemoInv, ReleasesLessons, At, Booked, Visible
  <2> QED
    BY <1>0, <1>a, <1>b, <2>1, DemosStay DEF DemoInv
<1>1. CASE Tick
  BY <1>b, <1>1 DEF Tick, rows
<1>2. ASSUME NEW d \in Dates, AddException(d) \/ RemoveException(d) PROVE DemoInv'
  BY <1>b, <1>2 DEF AddException, RemoveException
<1>3. ASSUME NEW p \in Requests, Arrive(p) PROVE DemoInv'
  <2>1. UNCHANGED rows
    BY <1>3 DEF Arrive, BookRead, DemoRead, ActivateRead, ReleaseRead
  <2>2. \A q \in Requests : q # p => request'[q] = request[q]
    BY <1>0, <1>3 DEF Arrive, BookRead, DemoRead, ActivateRead, ReleaseRead, Start,
                      TypeInv, TypeOK
  <2>3. request'[p].step = "release" => Booked(request'[p].target)
    <3>1. ASSUME NEW i \in SlotIds, ReleaseRead(p, i)
          PROVE  Booked(request'[p].target)
      BY <1>0, <3>1 DEF ReleaseRead, Start, Local, Idle, Releasable, Occupied, Booked,
                        TypeInv, TypeOK
    <3>2. ASSUME NEW m \in Matches, ActivateRead(p, m)
          PROVE  request'[p].step # "release"
      BY <1>0, <3>2 DEF ActivateRead, Start, Local, Idle, TypeInv, TypeOK
    <3>3. ASSUME NEW m \in Matches, NEW start, BookRead(p, m, start)
          PROVE  request'[p].step # "release"
      BY <1>0, <3>3 DEF BookRead, Start, Local, Idle, TypeInv, TypeOK
    <3>4. ASSUME NEW m \in Matches, NEW status, DemoRead(p, m, status)
          PROVE  request'[p].step # "release"
      BY <1>0, <3>4 DEF DemoRead, Start, Local, Idle, TypeInv, TypeOK
    <3> QED
      BY <1>3, <3>1, <3>2, <3>3, <3>4 DEF Arrive
  <2>4. ReleasesLessons'
    BY <1>0, <1>a, <2>1, <2>2, <2>3, ReleasesLessonsStays DEF rows
  <2> QED
    BY <1>0, <1>a, <2>1, <2>4, DemosStay DEF DemoInv, rows
<1>4. ASSUME NEW p \in Requests, Resume(p) PROVE DemoInv'
  BY <1>0, <1>4, DemoResume DEF DemoInv
<1>5. ASSUME NEW p \in Requests, Die(p) PROVE DemoInv'
  <2>1. \A i \in SlotIds : \/ slot[i].tx = p /\ slot'[i] = NoRow
                           \/ slot[i].tx # p /\ slot'[i] = slot[i]
    BY <1>5 DEF Die
  <2>2. \A i \in SlotIds : slot[i].tx = p => slot[i].source # "DEMO" /\ ~Visible(i)
    BY NobodyAssumption DEF DemoInv, DemosAreCommitted, Visible
  <2>3. \A i \in SlotIds : slot[i].tx = p => ~Visible(i)'
    BY <2>1 DEF Visible, NoRow
  <2>4. \A i \in SlotIds, m \in Matches : DemoRow(i, m)' <=> DemoRow(i, m)
    BY <2>1, <2>2, <2>3 DEF DemoRow, Occupied, Visible
  <2>5. \A i \in SlotIds : Booked(i) => Booked(i)'
    BY <2>1, <2>2 DEF Booked, Visible
  <2>6. DemosAreCommitted'
    BY <2>1 DEF DemoInv, DemosAreCommitted, NoRow
  <2>7. request' = [request EXCEPT ![p] = Idle] /\ Idle.step # "release" /\ UNCHANGED demo
    BY <1>5 DEF Die, Return, Goto, Idle
  <2>8. ReleasesLessons'
    BY <1>0, <2>5, <2>7, ReleasesLessonsStays DEF TypeInv, TypeOK
  <2> QED
    BY <1>0, <2>4, <2>6, <2>7, <2>8, DemosStay DEF DemoInv
<1>6. CASE UNCHANGED vars
  BY <1>b, <1>6 DEF vars, rows
<1> QED
  BY <1>1, <1>2, <1>3, <1>4, <1>5, <1>6 DEF Next

LEMMA DemoInit == Init => DemoInv
<1> SUFFICES ASSUME Init PROVE DemoInv
  OBVIOUS
<1>1. HoldsItsTime
  BY DEF Init, HoldsItsTime, DemoRow, Occupied, Visible, NoRow
<1>2. ReleasesLessons /\ DemosAreCommitted
  BY DEF Init, ReleasesLessons, DemosAreCommitted, At, Idle, NoRow
<1> QED
  BY <1>1, <1>2, TypeInit DEF DemoInv

(* Under every interleaving of bookings, updates, activations and          *)
(* releases, and wherever they die, a scheduled demo holds exactly one     *)
(* slot and any other demo none.                                           *)
THEOREM DemosHoldTheirTime == Spec => []DemoHoldsItsTime
<1>1. DemoInv => DemoHoldsItsTime
  <2> SUFFICES ASSUME DemoInv, NEW m \in Matches
               PROVE  IF demo[m] = "SCHEDULED"
                      THEN \E i \in SlotIds : DemoSlots(m) = {i}
                      ELSE DemoSlots(m) = {}
    BY DEF DemoHoldsItsTime, DemoInv, TypeInv
  <2>1. DemoSlots(m) = {j \in SlotIds : DemoRow(j, m)}
    BY DEF DemoSlots, DemoRow
  <2> QED
    BY <2>1 DEF DemoInv, HoldsItsTime
<1> QED
  BY <1>1, DemoInit, DemoNext, PTL DEF Spec

-----------------------------------------------------------------------------
(* No double booking, as long as handlers do not overlap.                  *)

Alone == \A p, q \in Requests : ~At(p, "idle") /\ ~At(q, "idle") => p = q

(* A checked demo stays free until it is inserted.                         *)
CheckedIsFree == \A p \in Requests : At(p, "bookTx") => Free(DemoTime(request[p].start))

KeptApart ==
    \A i, j \in SlotIds :
        i # j /\ Occupied(i) /\ Occupied(j) => Apart(slot[i], slot[j]) \/ SameAgreement(i, j)

(* The rows of an activation that is still booking belong to its match     *)
(* and keep the buffer to everything that is committed.                    *)
WaitingApart ==
    \A i \in SlotIds :
        slot[i].tx \in Requests =>
            /\ slot[i].owner = request[slot[i].tx].target
            /\ \A j \in SlotIds : Occupied(j) => Apart(slot[i], slot[j])

Serial == Alone /\ CheckedIsFree /\ KeptApart /\ WaitingApart

SerialInv == DemoInv /\ (overlapped \/ Serial)

LEMMA ApartIsSymmetric ==
    ASSUME NEW x, NEW y, Apart(x, y)
    PROVE  Apart(y, x)
BY DEF Apart

(* The others are idle while p runs.                                       *)
LEMMA OthersIdle ==
    ASSUME TypeInv, Serial, NEW p \in Requests, ~At(p, "idle")
    PROVE  /\ \A q \in Requests : q # p => At(q, "idle")
           /\ \A i \in SlotIds : slot[i].tx \in {Nobody, p}
           /\ ~At(p, "occupy") => \A i \in SlotIds : slot[i].tx = Nobody
<1>1. \A q \in Requests : q # p => At(q, "idle")
  BY DEF Serial, Alone
<1>2. \A i \in SlotIds : slot[i].tx \in Requests \union {Nobody}
                         /\ (slot[i].tx \in Requests => At(slot[i].tx, "occupy"))
  BY DEF TypeInv, TypeOK, SlotsOK, SlotRow
<1> QED
  BY <1>1, <1>2 DEF At

(* A step of p leaves the others idle.                                     *)
LEMMA AloneStays ==
    ASSUME TypeInv, Serial, NEW p \in Requests, ~At(p, "idle"),
           NEW local, request' = [request EXCEPT ![p] = local]
    PROVE  /\ Alone'
           /\ \A q \in Requests : q # p => request'[q].step = "idle"
           /\ request'[p] = local
<1>1. \A q \in Requests : q # p => At(q, "idle")
  BY OthersIdle
<1>2. \A q \in Requests : q # p => request'[q] = request[q]
  BY DEF TypeInv, TypeOK
<1>3. request'[p] = local
  BY DEF TypeInv, TypeOK
<1> QED
  BY <1>1, <1>2, <1>3 DEF Alone, At

(* No booking is new: those that are left are still apart.                 *)
LEMMA FewerStayApart ==
    ASSUME Serial,
           \A i \in SlotIds : Occupied(i)' =>
               /\ Occupied(i)
               /\ slot'[i].start = slot[i].start /\ slot'[i].end = slot[i].end
               /\ slot'[i].source = slot[i].source /\ slot'[i].owner = slot[i].owner
    PROVE  KeptApart'
<1> SUFFICES ASSUME NEW i \in SlotIds, NEW j \in SlotIds, i # j, Occupied(i)', Occupied(j)'
             PROVE  Apart(slot'[i], slot'[j]) \/ SameAgreement(i, j)'
  BY DEF KeptApart
<1>1. Apart(slot[i], slot[j]) \/ SameAgreement(i, j)
  BY DEF Serial, KeptApart
<1> QED
  BY <1>1 DEF Apart, SameAgreement

(* Nothing waits for a commit after a step of p that leaves none of its    *)
(* own rows waiting.                                                       *)
LEMMA NothingWaits ==
    ASSUME \A i \in SlotIds : slot'[i].tx = Nobody
    PROVE  WaitingApart'
BY NobodyAssumption DEF WaitingApart

LEMMA InsertApart ==
    ASSUME TypeInv, Serial, NEW i \in SlotIds, NEW source, NEW m, NEW x, NEW tx,
           Insert(i, source, m, x, tx), Free(x)
    PROVE  /\ \A j \in SlotIds : j # i => slot'[j] = slot[j]
           /\ ~Occupied(i)
           /\ slot'[i].tx = tx /\ slot'[i].owner = m
           /\ \A j \in SlotIds : Occupied(j) => Apart(slot'[i], slot[j])
           /\ \A j \in SlotIds : j # i => (Occupied(j)' <=> Occupied(j))
<1>1. /\ \A j \in SlotIds : j # i => slot'[j] = slot[j]
      /\ slot[i].status = "none"
      /\ slot'[i].tx = tx /\ slot'[i].owner = m
      /\ slot'[i].start = x.start /\ slot'[i].end = x.end
  BY DEF Insert, TypeInv, TypeOK
<1>2. \A j \in SlotIds : Occupied(j) => Apart(slot'[i], slot[j])
  BY <1>1 DEF Free, Apart
<1>3. \A j \in SlotIds : j # i => (Occupied(j)' <=> Occupied(j))
  BY <1>1 DEF Occupied, Visible
<1> QED
  BY <1>1, <1>2, <1>3 DEF Occupied, Visible

LEMMA SerialResume ==
    ASSUME DemoInv, Serial, NEW p \in Requests, Resume(p)
    PROVE  Serial'
<1> DEFINE M == request[p].target
<1>0. TypeInv /\ TypeOK /\ ~At(p, "idle")
  BY DEF DemoInv, TypeInv, Resume, BookCheck, BookTx, DemoTx, ActivateCount, OccupyNext,
         ActivateTx, ReleaseWrite, At
<1>a. ASSUME NEW local, request' = [request EXCEPT ![p] = local], local.step # "bookTx"
      PROVE  Alone' /\ CheckedIsFree'
  <2>1. \A q \in Requests : request'[q].step # "bookTx"
    BY <1>0, <1>a, AloneStays
  <2> QED
    BY <1>0, <1>a, <2>1, AloneStays DEF CheckedIsFree, At
<1>b. ASSUME UNCHANGED slot PROVE KeptApart'
  <2>1. \A i \in SlotIds : Occupied(i)' => Occupied(i)
    BY <1>b DEF Occupied, Visible
  <2> QED
    BY <1>b, <2>1, FewerStayApart
<1>c. Idle.step # "bookTx"
  BY DEF Idle
<1>d. ~At(p, "occupy") => \A i \in SlotIds : slot[i].tx = Nobody
  BY <1>0, OthersIdle
<1>1. CASE BookCheck(p)
  <2>1. ~At(p, "occupy") /\ UNCHANGED slot
    BY <1>1 DEF BookCheck, At, rows
  <2>2. KeptApart' /\ WaitingApart'
    BY <1>b, <1>d, <2>1, NothingWaits
  <2>3. CASE Return(p)
    BY <1>a, <1>c, <2>2, <2>3 DEF Return, Goto, Serial
  <2>4. CASE Free(DemoTime(request[p].start))
             /\ Goto(p, [request[p] EXCEPT !.step = "bookTx"])
    <3> DEFINE local == [request[p] EXCEPT !.step = "bookTx"]
    <3>1. /\ Alone' /\ request'[p] = local
          /\ \A q \in Requests : q # p => request'[q].step = "idle"
      BY <1>0, <2>4, AloneStays DEF Goto
    <3>2. request'[p].start = request[p].start
      BY <1>0, <3>1 DEF TypeOK, RequestSet
    <3>3. ASSUME NEW start, start = request'[p].start
          PROVE  Free(DemoTime(start))'
      <4>1. Free(DemoTime(start))
        BY <2>4, <3>2, <3>3
      <4> QED
        BY <2>1, <4>1 DEF Free, Occupied, Visible, DemoTime
    <3>4. CheckedIsFree'
      BY <3>1, <3>3 DEF CheckedIsFree, At, Free, DemoTime, Occupied, Visible
    <3> QED
      BY <2>2, <3>1, <3>4 DEF Serial
  <2> QED
    BY <1>1, <2>3, <2>4 DEF BookCheck
<1>2. CASE BookTx(p)
  <2>1. request' = [request EXCEPT ![p] = Idle] /\ ~At(p, "occupy")
        /\ Free(DemoTime(request[p].start))
    BY <1>2 DEF BookTx, Return, Goto, At, Serial, CheckedIsFree
  <2>2. CASE UNCHANGED slot
    BY <1>a, <1>b, <1>c, <1>d, <2>1, <2>2, NothingWaits DEF Serial
  <2>3. ASSUME NEW i \in SlotIds, Insert(i, "DEMO", M, DemoTime(request[p].start), Nobody)
        PROVE  Serial'
    <3>1. /\ \A j \in SlotIds : j # i => slot'[j] = slot[j]
          /\ slot'[i].tx = Nobody
          /\ \A j \in SlotIds : Occupied(j) => Apart(slot'[i], slot[j])
          /\ \A j \in SlotIds : j # i => (Occupied(j)' <=> Occupied(j))
      BY <1>0, <2>1, <2>3, InsertApart
    <3>2. KeptApart'
      <4> SUFFICES ASSUME NEW j \in SlotIds, NEW k \in SlotIds, j # k,
                          Occupied(j)', Occupied(k)'
                   PROVE  Apart(slot'[j], slot'[k]) \/ SameAgreement(j, k)'
        BY DEF KeptApart
      <4>1. CASE j = i
        BY <3>1, <4>1
      <4>2. CASE k = i
        BY <3>1, <4>2, ApartIsSymmetric
      <4>3. CASE j # i /\ k # i
        <5>1. slot'[j] = slot[j] /\ slot'[k] = slot[k] /\ Occupied(j) /\ Occupied(k)
          BY <3>1, <4>3
        <5> QED
          BY <5>1 DEF Serial, KeptApart, SameAgreement
      <4> QED
        BY <4>1, <4>2, <4>3
    <3>3. \A j \in SlotIds : slot'[j].tx = Nobody
      BY <1>d, <2>1, <3>1
    <3> QED
      BY <1>a, <1>c, <2>1, <3>2, <3>3, NothingWaits DEF Serial
  <2> QED
    BY <1>2, <2>2, <2>3 DEF BookTx
<1>3. CASE DemoTx(p)
  <2>1. request' = [request EXCEPT ![p] = Idle] /\ ~At(p, "occupy")
    BY <1>3 DEF DemoTx, Return, Goto, At
  <2>2. \A i \in SlotIds : \/ slot'[i] = [slot[i] EXCEPT !.status = "RELEASED"]
                           \/ slot'[i] = slot[i]
    BY <1>3 DEF DemoTx
  <2>3. \A i \in SlotIds : Occupied(i)' => slot'[i] = slot[i] /\ Occupied(i)
    BY <1>0, <2>2 DEF Occupied, Visible, TypeOK, SlotRow
  <2>4. \A i \in SlotIds : slot'[i].tx = Nobody
    BY <1>0, <1>d, <2>1, <2>2 DEF TypeOK, SlotRow
  <2>5. KeptApart'
    BY <2>3, FewerStayApart
  <2> QED
    BY <1>a, <1>c, <2>1, <2>4, <2>5, NothingWaits DEF Serial
<1>4. CASE ActivateCount(p)
  <2>1. PICK n : request' = [request EXCEPT ![p] =
                                [Local("occupy", M) EXCEPT !.start = now, !.next = n]]
    BY <1>4 DEF ActivateCount, Goto
  <2>2. [Local("occupy", M) EXCEPT !.start = now, !.next = n].step # "bookTx"
    BY DEF Local, Idle
  <2>3. UNCHANGED slot /\ ~At(p, "occupy")
    BY <1>4 DEF ActivateCount, rows, At
  <2> QED
    BY <1>a, <1>b, <1>d, <2>1, <2>2, <2>3, NothingWaits DEF Serial
<1>5. CASE OccupyNext(p)
  <2> DEFINE x == LessonOf(M, request[p].next, request[p].start)
             local == [request[p] EXCEPT !.next = @ + 1]
  <2>1. request' = [request EXCEPT ![p] = local]
    BY <1>5 DEF OccupyNext, Goto
  <2>2. local.step = "occupy" /\ local.target = M
    BY <1>0, <1>5 DEF OccupyNext, At, TypeOK, RequestSet
  <2> HIDE DEF local
  <2>3. Alone' /\ CheckedIsFree' /\ request'[p] = local
    BY <1>0, <1>a, <2>1, <2>2, AloneStays
  <2>4. \A i \in SlotIds : slot[i].tx \in {Nobody, p}
    BY <1>0, OthersIdle
  <2>5. CASE UNCHANGED slot
    <3>1. WaitingApart'
      BY <2>2, <2>3, <2>4, <2>5, NobodyAssumption
      DEF Serial, WaitingApart, Occupied, Visible
    <3> QED
      BY <1>b, <2>3, <2>5, <3>1 DEF Serial
  <2>6. ASSUME Bookable(x), NEW i \in SlotIds, Insert(i, "AGREEMENT", M, x, p)
        PROVE  Serial'
    <3>1. /\ \A j \in SlotIds : j # i => slot'[j] = slot[j]
          /\ ~Occupied(i) /\ slot'[i].tx = p /\ slot'[i].owner = M
          /\ \A j \in SlotIds : Occupied(j) => Apart(slot'[i], slot[j])
          /\ \A j \in SlotIds : j # i => (Occupied(j)' <=> Occupied(j))
      BY <1>0, <2>6, InsertApart DEF Bookable
    <3>2. ~Occupied(i)'
      BY <3>1, NobodyAssumption DEF Occupied, Visible
    <3>3. \A j \in SlotIds : Occupied(j)' => Occupied(j) /\ slot'[j] = slot[j]
      BY <3>1, <3>2
    <3>4. KeptApart'
      BY <3>3, FewerStayApart
    <3>5. ASSUME NEW j \in SlotIds, slot'[j].tx \in Requests
          PROVE  /\ slot'[j].owner = request'[slot'[j].tx].target
                 /\ \A k \in SlotIds : Occupied(k)' => Apart(slot'[j], slot'[k])
      <4>1. CASE j = i
        BY <2>2, <2>3, <3>1, <3>3, <4>1
      <4>2. CASE j # i
        <5>1. slot'[j] = slot[j] /\ slot[j].tx = p
          BY <2>4, <3>1, <3>5, <4>2, NobodyAssumption
        <5>2. /\ slot[j].owner = M
              /\ \A k \in SlotIds : Occupied(k) => Apart(slot[j], slot[k])
          BY <5>1 DEF Serial, WaitingApart
        <5> QED
          BY <2>2, <2>3, <3>3, <5>1, <5>2
      <4> QED
        BY <4>1, <4>2
    <3>6. WaitingApart'
      BY <3>5 DEF WaitingApart
    <3> QED
      BY <2>3, <3>4, <3>6 DEF Serial
  <2> QED
    BY <1>5, <2>5, <2>6 DEF OccupyNext
<1>6. CASE ActivateTx(p)
  <2>1. request' = [request EXCEPT ![p] = Idle]
    BY <1>6 DEF ActivateTx, Return, Goto
  <2>2. \A i \in SlotIds : \/ slot[i].tx = p /\ slot'[i] = [slot[i] EXCEPT !.tx = Nobody]
                           \/ slot[i].tx # p /\ slot'[i] = slot[i]
    BY <1>6 DEF ActivateTx, Commit
  <2>3. \A i \in SlotIds : slot[i].tx \in {Nobody, p}
    BY <1>0, OthersIdle
  <2>4. \A i \in SlotIds : /\ slot'[i].tx = Nobody
                           /\ slot'[i].start = slot[i].start /\ slot'[i].end = slot[i].end
                           /\ slot'[i].source = slot[i].source
                           /\ slot'[i].owner = slot[i].owner
                           /\ slot'[i].status = slot[i].status
    <3> TAKE i \in SlotIds
    <3>1. slot[i] \in SlotRow
      BY <1>0 DEF TypeOK
    <3>2. CASE slot'[i] = [slot[i] EXCEPT !.tx = Nobody]
      BY <3>1, <3>2 DEF SlotRow
    <3>3. CASE slot[i].tx # p /\ slot'[i] = slot[i]
      BY <2>3, <3>3
    <3> QED
      BY <2>2, <3>2, <3>3
  <2>5. \A i \in SlotIds : Occupied(i)' => slot[i].tx = p \/ Occupied(i)
    BY <2>3, <2>4 DEF Occupied, Visible
  <2>6. \A i \in SlotIds : slot[i].tx = p => /\ slot[i].source = "AGREEMENT"
                                             /\ slot[i].owner = M
                                             /\ \A j \in SlotIds : Occupied(j) => Apart(slot[i], slot[j])
    BY <1>0, NobodyAssumption DEF Serial, WaitingApart, DemoInv, DemosAreCommitted, TypeOK, SlotRow
  <2>7. KeptApart'
    <3> SUFFICES ASSUME NEW j \in SlotIds, NEW k \in SlotIds, j # k,
                        Occupied(j)', Occupied(k)'
                 PROVE  Apart(slot'[j], slot'[k]) \/ SameAgreement(j, k)'
      BY DEF KeptApart
    <3>1. Apart(slot[j], slot[k]) => Apart(slot'[j], slot'[k])
      BY <2>4 DEF Apart
    <3>2. SameAgreement(j, k) => SameAgreement(j, k)'
      BY <2>4 DEF SameAgreement
    <3>3. CASE Occupied(j) /\ Occupied(k)
      BY <3>1, <3>2, <3>3 DEF Serial, KeptApart
    <3>4. CASE slot[j].tx = p /\ slot[k].tx = p
      BY <2>6, <3>2, <3>4 DEF SameAgreement
    <3>5. CASE slot[j].tx = p /\ Occupied(k)
      BY <2>6, <3>1, <3>5
    <3>6. CASE Occupied(j) /\ slot[k].tx = p
      BY <2>6, <3>1, <3>6, ApartIsSymmetric
    <3> QED
      BY <2>5, <3>3, <3>4, <3>5, <3>6
  <2> QED
    BY <1>a, <1>c, <2>1, <2>4, <2>7, NothingWaits DEF Serial
<1>7. CASE ReleaseWrite(p)
  <2>1. request' = [request EXCEPT ![p] = Idle] /\ ~At(p, "occupy") /\ M \in SlotIds
    BY <1>0, <1>7 DEF ReleaseWrite, Return, Goto, At, TypeInv, Good
  <2>2. \A i \in SlotIds : \/ slot'[i] = [slot[i] EXCEPT !.status = "RELEASED"]
                           \/ slot'[i] = slot[i]
    BY <1>0, <1>7, <2>1 DEF ReleaseWrite, TypeOK
  <2>3. \A i \in SlotIds : Occupied(i)' => slot'[i] = slot[i] /\ Occupied(i)
    BY <1>0, <2>2 DEF Occupied, Visible, TypeOK, SlotRow
  <2>4. \A i \in SlotIds : slot'[i].tx = Nobody
    BY <1>0, <1>d, <2>1, <2>2 DEF TypeOK, SlotRow
  <2>5. KeptApart'
    BY <2>3, FewerStayApart
  <2> QED
    BY <1>a, <1>c, <2>1, <2>4, <2>5, NothingWaits DEF Serial
<1> QED
  BY <1>1, <1>2, <1>3, <1>4, <1>5, <1>6, <1>7 DEF Resume

LEMMA SerialNext == SerialInv /\ [Next]_vars => SerialInv'
<1> SUFFICES ASSUME SerialInv, [Next]_vars PROVE SerialInv'
  OBVIOUS
<1>0. DemoInv /\ DemoInv' /\ TypeInv /\ TypeOK
  BY DemoNext DEF SerialInv, DemoInv, TypeInv
<1> SUFFICES ASSUME ~overlapped' PROVE Serial'
  BY <1>0 DEF SerialInv
<1>a. ASSUME UNCHANGED <<slot, request, overlapped>> PROVE Serial'
  BY <1>a DEF SerialInv, Serial, Alone, CheckedIsFree, KeptApart, WaitingApart, At, Free,
              Occupied, Visible, SameAgreement, DemoTime
<1>1. CASE Tick
  BY <1>a, <1>1 DEF Tick, rows
<1>2. ASSUME NEW d \in Dates, AddException(d) \/ RemoveException(d) PROVE Serial'
  <2>1. ~overlapped /\ ~overlapped'
    BY <1>0, <1>2 DEF AddException, RemoveException, TypeOK
  <2>2. UNCHANGED <<slot, request, overlapped>>
    BY <1>0, <1>2, <2>1 DEF AddException, RemoveException, TypeOK, DemoInv, TypeInv
  <2> QED
    BY <1>a, <2>2
<1>3. ASSUME NEW p \in Requests, Arrive(p) PROVE Serial'
  <2>1. PICK local : Start(p, local) /\ local.step # "bookTx"
    <3>1. \/ \E m \in Matches : \/ \E start \in DemoStarts : Start(p, [Local("bookCheck", m) EXCEPT !.start = start])
                                \/ \E status \in DemoStatus : Start(p, [Local("demoTx", m) EXCEPT !.status = status])
                                \/ Start(p, Local("count", m))
          \/ \E i \in SlotIds : Start(p, Local("release", i))
      BY <1>3 DEF Arrive, BookRead, DemoRead, ActivateRead, ReleaseRead
    <3>2. \A m : Local("count", m).step # "bookTx" /\ Local("release", m).step # "bookTx"
      BY DEF Local, Idle
    <3>3. \A m, start : [Local("bookCheck", m) EXCEPT !.start = start].step # "bookTx"
      BY DEF Local, Idle
    <3>4. \A m, status : [Local("demoTx", m) EXCEPT !.status = status].step # "bookTx"
      BY DEF Local, Idle
    <3> QED
      BY <3>1, <3>2, <3>3, <3>4
  <2>2. UNCHANGED slot
    BY <1>3 DEF Arrive, BookRead, DemoRead, ActivateRead, ReleaseRead, rows
  <2>3. ~overlapped /\ ~Busy
    BY <1>0, <2>1 DEF Start, TypeOK
  <2>4. /\ \A q \in Requests : At(q, "idle")
        /\ \A q \in Requests : q # p => request'[q] = request[q]
        /\ request'[p] = local
    BY <1>0, <2>1, <2>3 DEF Busy, Start, TypeOK
  <2>5. Alone' /\ CheckedIsFree'
    BY <2>1, <2>4 DEF Alone, CheckedIsFree, At
  <2>6. \A i \in SlotIds : slot'[i].tx = Nobody
    BY <1>0, <2>2, <2>4 DEF TypeOK, SlotsOK, SlotRow, At
  <2>7. KeptApart'
    BY <2>2, <2>3 DEF SerialInv, Serial, KeptApart, Occupied, Visible, SameAgreement
  <2> QED
    BY <2>5, <2>6, <2>7, NothingWaits DEF Serial
<1>4. ASSUME NEW p \in Requests, Resume(p) PROVE Serial'
  <2>1. UNCHANGED overlapped
    BY <1>4 DEF Resume, BookCheck, BookTx, DemoTx, ActivateCount, OccupyNext, ActivateTx,
                ReleaseWrite, Return, Goto
  <2> QED
    BY <1>0, <1>4, <2>1, SerialResume DEF SerialInv
<1>5. ASSUME NEW p \in Requests, Die(p) PROVE Serial'
  <2>1. request' = [request EXCEPT ![p] = Idle] /\ UNCHANGED overlapped
    BY <1>5 DEF Die, Return, Goto
  <2>2. Serial /\ ~At(p, "idle")
    BY <1>5, <2>1 DEF SerialInv, Die
  <2>3. /\ Alone' /\ request'[p] = Idle
        /\ \A q \in Requests : q # p => request'[q].step = "idle"
    BY <1>0, <2>1, <2>2, AloneStays
  <2>4. CheckedIsFree'
    BY <2>3 DEF CheckedIsFree, At, Idle
  <2>5. \A i \in SlotIds : \/ slot[i].tx = p /\ slot'[i] = NoRow
                           \/ slot[i].tx # p /\ slot'[i] = slot[i]
    BY <1>5 DEF Die
  <2>6. \A i \in SlotIds : slot'[i].tx = Nobody
    BY <1>0, <2>2, <2>5, OthersIdle DEF NoRow
  <2>7. \A i \in SlotIds : Occupied(i)' => Occupied(i) /\ slot'[i] = slot[i]
    BY <2>5 DEF Occupied, Visible, NoRow
  <2>8. KeptApart'
    BY <2>2, <2>7, FewerStayApart
  <2> QED
    BY <2>3, <2>4, <2>6, <2>8, NothingWaits DEF Serial
<1>6. CASE UNCHANGED vars
  BY <1>a, <1>6 DEF vars, rows
<1> QED
  BY <1>1, <1>2, <1>3, <1>4, <1>5, <1>6 DEF Next

LEMMA SerialInit == Init => SerialInv
<1> SUFFICES ASSUME Init PROVE SerialInv
  OBVIOUS
<1>1. Alone /\ CheckedIsFree
  BY DEF Init, Alone, CheckedIsFree, At, Idle
<1>2. KeptApart /\ WaitingApart
  BY NobodyAssumption DEF Init, KeptApart, WaitingApart, Occupied, Visible, NoRow
<1> QED
  BY <1>1, <1>2, DemoInit DEF SerialInv, Serial

(* As long as handlers do not overlap, no two bookings of the tutor are    *)
(* closer than the buffer, except rows of one schedule (assertNoConflict   *)
(* before every insert).                                                   *)
THEOREM BookingsKeepApart == Spec => []NoDoubleBooking
<1>1. SerialInv => NoDoubleBooking
  BY DEF SerialInv, Serial, KeptApart, NoDoubleBooking
<1> QED
  BY <1>1, SerialInit, SerialNext, PTL DEF Spec

-----------------------------------------------------------------------------
(* The lessons of an activation, by week and row. *)

LEMMA TimesGrows ==
    ASSUME NEW d \in Nat, NEW a \in Int, NEW b \in Int, a + 1 <= b
    PROVE  d * a + d <= d * b /\ d * a \in Int /\ d * b \in Int
<1>1. d * (b - (a + 1)) >= 0
  OBVIOUS
<1>2. d * (b - (a + 1)) = d * b - (d * a + d) /\ d * a \in Int /\ d * b \in Int
  OBVIOUS
<1> QED
  BY <1>1, <1>2

LEMMA WeekAndRow ==
    ASSUME NEW L \in Nat \ {0}, NEW w \in Nat, NEW j \in 0 .. L - 1
    PROVE  (w * L + j) \div L = w /\ (w * L + j) % L = j
<1> DEFINE n == w * L + j
           q == n \div L
           r == n % L
<1>0. n \in Nat /\ w * L \in Nat /\ n = w * L + j
  BY TimesIsNat
<1>1. q \in Int /\ r \in 0 .. L - 1 /\ n = L * q + r
  BY <1>0
<1> HIDE DEF n, q, r
<1>2. L * w = w * L /\ L * q \in Int
  BY <1>1
<1>3. ASSUME q + 1 <= w PROVE FALSE
  <2>1. L * q + L <= L * w
    BY <1>1, <1>3, TimesGrows
  <2> QED
    BY <1>0, <1>1, <1>2, <2>1
<1>4. ASSUME w + 1 <= q PROVE FALSE
  <2>1. L * w + L <= L * q
    BY <1>1, <1>4, TimesGrows
  <2> QED
    BY <1>0, <1>1, <1>2, <2>1
<1>5. q = w
  BY <1>1, <1>3, <1>4
<1>6. r = j
  BY <1>0, <1>1, <1>2, <1>5
<1> QED
  BY <1>5, <1>6 DEF q, r, n

LEMMA LessonOfRow ==
    ASSUME NEW m \in Matches, NEW w \in 0 .. Weeks - 1, NEW k \in 1 .. Len(Schedule[m]),
           NEW from \in Nat
    PROVE  \E n \in 0 .. Lessons(m) - 1 :
              LessonOf(m, n, from) = Lesson(Schedule[m][k], w, from)
<1> DEFINE L == Len(Schedule[m])
           n == w * L + (k - 1)
<1>1. Schedule[m] \in Seq(Rows) /\ L \in Nat
  BY ScheduleAssumption
<1>2. Weeks \in Nat
  BY NumbersAssumption
<1>3. L \in Nat \ {0} /\ w \in Nat /\ k - 1 \in 0 .. L - 1
  BY <1>1, <1>2
<1>4. n \div L = w /\ n % L = k - 1
  BY <1>3, WeekAndRow
<1>5. LessonOf(m, n, from) = Lesson(Schedule[m][k], w, from)
  <2>1. (k - 1) + 1 = k
    OBVIOUS
  <2> QED
    BY <1>4, <2>1 DEF LessonOf
<1>6. n \in 0 .. Lessons(m) - 1
  <2>1. Lessons(m) = Weeks * L
    BY DEF Lessons
  <2> HIDE DEF L
  <2>2. L * w + L <= L * Weeks
    BY <1>2, <1>3, TimesGrows
  <2>3. w * L = L * w /\ Weeks * L = L * Weeks /\ L * w \in Nat /\ L * Weeks \in Nat
    BY <1>2, <1>3, TimesIsNat
  <2> QED
    BY <1>3, <2>1, <2>2, <2>3
<1> QED
  BY <1>5, <1>6

(* A lesson takes as long as its row says, whatever the week, unless the   *)
(* schedule starts between the hours of the row.                           *)
LEMMA LessonLasts ==
    ASSUME NEW row \in Rows, NEW w \in Nat, NEW from \in Nat, ~Straddles(row, from)
    PROVE  LET x == Lesson(row, w, from)
           IN  x.end = x.start + Length(row) /\ x.end > x.start
<1> DEFINE x == Lesson(row, w, from)
           t == from % Day
           mid == from - t
           wd == Weekday(from)
           d == (row.day - wd + 7) % 7
           ahead(time) == IF d = 0 /\ mid + time <= from THEN 7 ELSE d
           s == NextOccurrence(row.day, row.start, w, from)
           e == NextOccurrence(row.day, row.end, w, from)
           W == w * Week
<1>1. Day \in Nat \ {0} /\ row.start \in 0 .. Day - 1 /\ row.end \in 0 .. Day - 1 /\ row.day \in 0 .. 6
  BY DayAssumption DEF Rows, Times, Weekdays
<1>2. t \in 0 .. Day - 1 /\ mid \in Nat /\ from = mid + t
  <2>1. t \in 0 .. Day - 1
    BY <1>1, DivMod
  <2>2. mid \in Nat
    BY <1>1, FloorIsNat
  <2> HIDE DEF t
  <2> QED
    BY <2>1, <2>2
<1>3. wd \in 0 .. 6
  <2>1. DateOf(from) \in Nat
    BY <1>1, DivMod DEF DateOf
  <2> QED
    BY <2>1 DEF Weekday
<1>4. d \in 0 .. 6 /\ (d = 0 => row.day = wd)
  <2> HIDE DEF wd
  <2>1. row.day - wd + 7 \in 1 .. 13
    BY <1>1, <1>3
  <2> QED
    BY <1>1, <1>3, <2>1
<1>5. W \in Nat
  <2>1. Week \in Nat
    BY DayAssumption DEF Week
  <2> QED
    BY <2>1, TimesIsNat
<1>6. /\ s = mid + row.start + ahead(row.start) * Day + W
      /\ e = mid + row.end + ahead(row.end) * Day + W
  BY DEF NextOccurrence, Midnight, DaysAhead
<1>7. x = [start |-> s, end |-> IF e <= s THEN e + Day ELSE e]
  BY DEF Lesson
<1>8. ahead(row.start) = ahead(row.end)
  <2>1. CASE d # 0
    BY <2>1
  <2>2. CASE d = 0
    <3>1. row.day = Weekday(from)
      BY <1>4, <2>2
    <3>2. ~(row.start <= t /\ t < row.end) /\ ~(row.end <= t /\ t < row.start)
      BY <3>1 DEF Straddles
    <3>3. row.start <= t <=> row.end <= t
      <4> HIDE DEF t
      <4> QED
        BY <1>1, <1>2, <3>2
    <3>4. (mid + row.start <= from <=> row.start <= t) /\ (mid + row.end <= from <=> row.end <= t)
      <4> HIDE DEF t, mid
      <4> QED
        BY <1>1, <1>2
    <3> QED
      BY <3>3, <3>4
  <2> QED
    BY <2>1, <2>2
<1>9. ahead(row.start) \in 0 .. 7
  BY <1>4
<1> DEFINE B == mid + ahead(row.start) * Day + W
<1>10. B \in Nat /\ s = B + row.start /\ e = B + row.end
  <2> DEFINE a == ahead(row.start)
  <2>1. a \in Nat
    BY <1>9
  <2> HIDE DEF a
  <2>2. a * Day \in Nat
    BY <1>1, <2>1, TimesIsNat
  <2>3. s = mid + row.start + a * Day + W /\ e = mid + row.end + a * Day + W /\ B = mid + a * Day + W
    BY <1>6, <1>8 DEF a
  <2> HIDE DEF s, e, B, W, mid
  <2> QED
    BY <1>1, <1>2, <1>5, <2>2, <2>3
<1> HIDE DEF s, e, B
<1>11. Length(row) = IF row.end > row.start THEN row.end - row.start
                     ELSE row.end - row.start + Day
  <2> DEFINE n == row.end - row.start + Day
  <2>1. n \in Nat /\ n < 2 * Day /\ n >= 1
    BY <1>1
  <2>2. CASE row.end > row.start
    <3>1. n - Day \in 1 .. Day - 1 /\ n = 1 * Day + (n - Day) /\ n - Day \in 0 .. Day - 1
      BY <1>1, <2>2
    <3>2. n % Day = n - Day
      BY <1>1, <3>1, WeekAndRow
    <3> QED
      BY <1>1, <2>2, <3>1, <3>2 DEF Length
  <2>3. CASE row.end = row.start
    <3>1. n = 1 * Day + 0 /\ 0 \in 0 .. Day - 1
      BY <1>1, <2>3
    <3>2. n % Day = 0
      BY <1>1, <3>1, WeekAndRow
    <3> QED
      BY <1>1, <2>3, <3>2 DEF Length
  <2>4. CASE row.end < row.start
    <3>1. n \in 1 .. Day - 1 /\ n = 0 * Day + n /\ n \in 0 .. Day - 1
      BY <1>1, <2>4
    <3>2. n % Day = n
      BY <1>1, <3>1, WeekAndRow
    <3> QED
      BY <1>1, <2>4, <3>1, <3>2 DEF Length
  <2> QED
    BY <1>1, <2>2, <2>3, <2>4
<1>12. x.start = s /\ x.end = IF e <= s THEN e + Day ELSE e
  BY <1>7
<1> HIDE DEF x
<1>13. x.end = x.start + Length(row) /\ x.end > x.start
  BY <1>1, <1>10, <1>11, <1>12
<1> QED
  BY <1>13 DEF x

-----------------------------------------------------------------------------
(* What an undisturbed handler has read still holds when it writes. *)

(* Only activations that committed have lessons.                           *)
LessonsOwned == \A i \in SlotIds : Booked(i) => slot[i].owner \in active

Current(r) ==
    /\ r.step \in {"count", "occupy"} => r.target \notin active
    /\ r.step \in {"bookCheck", "bookTx"} => Present(DemoTime(r.start))
    /\ r.step = "demoTx" => Pending(r.target)

AllCurrent == \A p \in Requests : Current(request[p])

WaitingPresent == \A i \in SlotIds : slot[i].tx \in Requests => Present(slot[i])

(* The row that p has inserted for the lesson x of m.                      *)
Written(p, m, x) ==
    \E i \in SlotIds : /\ slot[i].tx = p /\ slot[i].status = "OCCUPIED"
                       /\ slot[i].owner = m
                       /\ slot[i].start = x.start /\ slot[i].end = x.end

(* Every lesson that an activation has passed is written, or could not be  *)
(* booked and still cannot.                                                *)
Tried(p, r) ==
    \A n \in 0 .. Lessons(r.target) - 1 : n < r.next =>
        LET x == LessonOf(r.target, n, r.start)
        IN  ~Bookable(x) \/ Written(p, r.target, x)

AllWritten == \A p \in Requests : At(p, "occupy") => Tried(p, request[p])

Kept == LessonsOwned /\ AllCurrent /\ WaitingPresent /\ AllWritten

KeptInv == SerialInv /\ (overlapped \/ Kept)

LEMMA KeptInit == Init => KeptInv
<1> SUFFICES ASSUME Init PROVE Kept
  BY SerialInit DEF KeptInv
<1>1. LessonsOwned
  BY DEF Init, LessonsOwned, Booked, Visible, NoRow
<1>2. AllCurrent /\ AllWritten
  BY DEF Init, AllCurrent, Current, AllWritten, At, Idle
<1>3. WaitingPresent
  BY NobodyAssumption DEF Init, WaitingPresent, NoRow
<1> QED
  BY <1>1, <1>2, <1>3 DEF Kept

(* Nothing is remembered once all are idle and nothing waits.              *)
LEMMA IdleRemembersNothing ==
    ASSUME \A q \in Requests : request'[q].step = "idle"
    PROVE  AllCurrent' /\ AllWritten'
BY DEF AllCurrent, Current, AllWritten, At

LEMMA NothingWaitsPresent ==
    ASSUME \A i \in SlotIds : slot'[i].tx = Nobody
    PROVE  WaitingPresent'
BY NobodyAssumption DEF WaitingPresent

(* What p goes on with is all that is remembered.                          *)
LEMMA OneIsCurrent ==
    ASSUME NEW p \in Requests, NEW local, request'[p] = local,
           \A q \in Requests : q # p => request'[q].step = "idle",
           Current(local)'
    PROVE  AllCurrent'
<1> SUFFICES ASSUME NEW q \in Requests PROVE Current(request[q])'
  BY DEF AllCurrent
<1>1. CASE q = p
  BY <1>1
<1>2. CASE q # p
  BY <1>2 DEF Current
<1> QED
  BY <1>1, <1>2

(* Lessons that were committed, or become so with their match, are owned.  *)
LEMMA OwnersStay ==
    ASSUME LessonsOwned, active \subseteq active',
           \A i \in SlotIds : Booked(i)' => Booked(i) /\ slot'[i].owner = slot[i].owner
    PROVE  LessonsOwned'
BY DEF LessonsOwned

LEMMA KeptResume ==
    ASSUME DemoInv, Serial, Kept, NEW p \in Requests, Resume(p)
    PROVE  Kept'
<1> DEFINE M == request[p].target
<1>0. TypeInv /\ TypeOK /\ ~At(p, "idle")
  BY DEF DemoInv, TypeInv, Resume, BookCheck, BookTx, DemoTx, ActivateCount, OccupyNext,
         ActivateTx, ReleaseWrite, At
<1>1. /\ Current(request[p])
      /\ ~At(p, "occupy") => \A i \in SlotIds : slot[i].tx = Nobody
      /\ \A i \in SlotIds : slot[i].tx \in {Nobody, p}
  BY <1>0, OthersIdle DEF Kept, AllCurrent
<1>2. ASSUME NEW local, request' = [request EXCEPT ![p] = local]
      PROVE  request'[p] = local /\ \A q \in Requests : q # p => request'[q].step = "idle"
  BY <1>0, <1>2, AloneStays
<1>3. ASSUME request' = [request EXCEPT ![p] = Idle]
      PROVE  AllCurrent' /\ AllWritten'
  <2>1. \A q \in Requests : request'[q].step = "idle"
    BY <1>2, <1>3 DEF Idle
  <2> QED
    BY <2>1, IdleRemembersNothing
<1>4. CASE BookCheck(p)
  <2>1. UNCHANGED <<slot, active, away>> /\ ~At(p, "occupy")
    BY <1>4 DEF BookCheck, rows, At
  <2>2. LessonsOwned' /\ WaitingPresent'
    BY <1>1, <2>1, NothingWaitsPresent, OwnersStay DEF Kept, Booked, Visible
  <2>3. CASE Return(p)
    BY <1>3, <2>2, <2>3 DEF Return, Goto, Kept
  <2>4. CASE Goto(p, [request[p] EXCEPT !.step = "bookTx"])
    <3> DEFINE local == [request[p] EXCEPT !.step = "bookTx"]
    <3>1. local.step = "bookTx" /\ local.start = request[p].start
      BY <1>0 DEF TypeOK, RequestSet
    <3>2. Present(DemoTime(request[p].start))
      BY <1>1, <1>4 DEF Current, BookCheck, At
    <3>3. request' = [request EXCEPT ![p] = local]
      BY <2>4 DEF Goto
    <3> HIDE DEF local
    <3>4. request'[p] = local /\ \A q \in Requests : q # p => request'[q].step = "idle"
      BY <1>2, <3>3
    <3>5. \A q \in Requests : Current(request[q])'
      <4> TAKE q \in Requests
      <4>1. CASE q = p
        <5>1. EndDates(DemoTime(request'[p].start)) \intersect away' = {}
          BY <2>1, <3>1, <3>2, <3>4 DEF Present
        <5> QED
          BY <3>1, <3>4, <4>1, <5>1 DEF Current, Present
      <4>2. CASE q # p
        BY <3>4, <4>2 DEF Current
      <4> QED
        BY <4>1, <4>2
    <3>6. AllWritten'
      BY <3>1, <3>4 DEF AllWritten, At
    <3> QED
      BY <2>2, <3>5, <3>6 DEF Kept, AllCurrent
  <2> QED
    BY <1>4, <2>3, <2>4 DEF BookCheck
<1>5. CASE BookTx(p)
  <2>1. request' = [request EXCEPT ![p] = Idle] /\ ~At(p, "occupy") /\ UNCHANGED active
    BY <1>5 DEF BookTx, Return, Goto, At
  <2>2. \/ UNCHANGED slot
        \/ \E i \in SlotIds : Insert(i, "DEMO", M, DemoTime(request[p].start), Nobody)
    BY <1>5 DEF BookTx
  <2>3. \A i \in SlotIds : slot'[i] = slot[i] \/ (slot'[i].source = "DEMO" /\ slot'[i].tx = Nobody)
    BY <1>0, <2>2 DEF Insert, TypeOK
  <2>4. LessonsOwned'
    BY <2>1, <2>3, OwnersStay DEF Kept, Booked, Visible
  <2>5. WaitingPresent'
    BY <1>1, <2>1, <2>3, NothingWaitsPresent
  <2> QED
    BY <1>3, <2>1, <2>4, <2>5 DEF Kept
<1>6. CASE DemoTx(p) \/ ReleaseWrite(p)
  <2>1. request' = [request EXCEPT ![p] = Idle] /\ ~At(p, "occupy") /\ UNCHANGED active
    BY <1>6 DEF DemoTx, ReleaseWrite, Return, Goto, At
  <2>2. \A i \in SlotIds : \/ slot'[i] = [slot[i] EXCEPT !.status = "RELEASED"]
                           \/ slot'[i] = slot[i]
    <3>1. CASE DemoTx(p)
      BY <3>1 DEF DemoTx
    <3>2. CASE ReleaseWrite(p)
      <4>1. M \in SlotIds
        BY <1>0, <3>2 DEF ReleaseWrite, At, TypeInv, Good
      <4> QED
        BY <1>0, <3>2, <4>1 DEF ReleaseWrite, TypeOK
    <3> QED
      BY <1>6, <3>1, <3>2
  <2>3. \A i \in SlotIds : /\ slot'[i].tx = slot[i].tx
                           /\ slot'[i].source = slot[i].source /\ slot'[i].owner = slot[i].owner
    BY <1>0, <2>2 DEF TypeOK, SlotRow
  <2>4. \A i \in SlotIds : slot[i].status = "none" => slot[i].source = "DEMO" \/ slot'[i] = slot[i]
    <3>1. CASE DemoTx(p)
      BY <3>1 DEF DemoTx, Occupied, Visible
    <3>2. CASE ReleaseWrite(p)
      <4>1. M \in SlotIds /\ Booked(M)
        BY <1>0, <3>2 DEF ReleaseWrite, At, TypeInv, Good, DemoInv, ReleasesLessons
      <4> QED
        BY <1>0, <3>2, <4>1 DEF ReleaseWrite, TypeOK, Booked, Visible
    <3> QED
      BY <1>6, <3>1, <3>2
  <2>5. LessonsOwned'
    <3>1. \A i \in SlotIds : Booked(i)' => Booked(i) /\ slot'[i].owner = slot[i].owner
      BY <2>3, <2>4 DEF Booked, Visible
    <3> QED
      BY <2>1, <3>1, OwnersStay DEF Kept
  <2>6. WaitingPresent'
    BY <1>1, <2>1, <2>3, NothingWaitsPresent
  <2> QED
    BY <1>3, <2>1, <2>5, <2>6 DEF Kept
<1>7. CASE ActivateCount(p)
  <2> DEFINE counted == {i \in SlotIds : /\ Occupied(i)
                                         /\ slot[i].source = "AGREEMENT"
                                         /\ slot[i].owner = M}
             local == [Local("occupy", M) EXCEPT !.start = now,
                          !.next = IF counted = {} THEN 0 ELSE Lessons(M)]
  <2>1. /\ request' = [request EXCEPT ![p] = local]
        /\ UNCHANGED <<slot, active, away>> /\ ~At(p, "occupy") /\ At(p, "count")
    BY <1>7 DEF ActivateCount, Goto, rows, At
  <2>2. M \notin active
    BY <1>1, <2>1 DEF Current, At
  <2>3. counted = {}
    BY <2>2 DEF Kept, LessonsOwned, Booked, Occupied
  <2>4. local.step = "occupy" /\ local.target = M /\ local.next = 0
    BY <2>3 DEF Local, Idle
  <2> HIDE DEF local, counted
  <2>5. request'[p] = local /\ \A q \in Requests : q # p => request'[q].step = "idle"
    BY <1>2, <2>1
  <2>6. AllCurrent'
    <3> SUFFICES ASSUME NEW q \in Requests PROVE Current(request[q])'
      BY DEF AllCurrent
    <3> QED
      BY <2>1, <2>2, <2>4, <2>5 DEF Current
  <2>7. AllWritten'
    <3> SUFFICES ASSUME NEW q \in Requests, At(q, "occupy")' PROVE Tried(q, request[q])'
      BY DEF AllWritten
    <3>1. request'[q].next = 0
      BY <2>4, <2>5 DEF At
    <3>2. \A n \in 0 .. Lessons(request'[q].target) - 1 : ~(n < request'[q].next)
      BY <3>1
    <3> QED
      BY <3>2 DEF Tried
  <2>8. LessonsOwned' /\ WaitingPresent'
    BY <1>1, <2>1, NothingWaitsPresent, OwnersStay DEF Kept, Booked, Visible
  <2> QED
    BY <2>6, <2>7, <2>8 DEF Kept
<1>8. CASE OccupyNext(p)
  <2>1. PICK m, n, from : m = M /\ n = request[p].next /\ from = request[p].start
    OBVIOUS
  <2>2. PICK x : x = LessonOf(m, n, from)
    OBVIOUS
  <2>3. PICK local : local = [request[p] EXCEPT !.next = @ + 1]
    OBVIOUS
  <2>4. /\ request' = [request EXCEPT ![p] = local]
        /\ UNCHANGED <<active, away>> /\ At(p, "occupy")
        /\ \/ ~Bookable(x) /\ UNCHANGED slot
           \/ /\ Bookable(x)
              /\ \E i \in SlotIds : Insert(i, "AGREEMENT", m, x, p)
    BY <1>8, <2>1, <2>2, <2>3 DEF OccupyNext, Goto
  <2>5. /\ local.step = "occupy" /\ local.target = m /\ local.start = from
        /\ local.next = n + 1 /\ n \in Nat
    BY <1>0, <2>1, <2>3, <2>4 DEF TypeOK, RequestSet, At
  <2>6. request'[p] = local /\ \A q \in Requests : q # p => request'[q].step = "idle"
    BY <1>2, <2>4
  <2>7. /\ \A j \in SlotIds : slot[j].status # "none" => slot'[j] = slot[j]
        /\ \A j \in SlotIds : slot'[j] = slot[j] \/
              /\ slot'[j].tx = p /\ slot'[j].status = "OCCUPIED" /\ slot'[j].owner = m
              /\ slot'[j].start = x.start /\ slot'[j].end = x.end /\ Bookable(x)
        /\ Bookable(x) => \E j \in SlotIds :
              /\ slot'[j].tx = p /\ slot'[j].status = "OCCUPIED" /\ slot'[j].owner = m
              /\ slot'[j].start = x.start /\ slot'[j].end = x.end
    <3>1. CASE UNCHANGED slot /\ ~Bookable(x)
      BY <3>1
    <3>2. ASSUME NEW i \in SlotIds, Insert(i, "AGREEMENT", m, x, p), Bookable(x)
          PROVE  /\ slot[i].status = "none"
                 /\ \A j \in SlotIds : j # i => slot'[j] = slot[j]
                 /\ slot'[i].tx = p /\ slot'[i].status = "OCCUPIED" /\ slot'[i].owner = m
                 /\ slot'[i].start = x.start /\ slot'[i].end = x.end
      BY <1>0, <3>2 DEF Insert, TypeOK
    <3> QED
      BY <2>4, <3>1, <3>2
  <2>8. \A j \in SlotIds : /\ Visible(j)' <=> Visible(j)
                           /\ Visible(j) => slot'[j] = slot[j]
    BY <2>7, NobodyAssumption DEF Visible
  <2>9. \A y : Bookable(y)' <=> Bookable(y)
    BY <2>4, <2>8 DEF Bookable, Free, Present, Occupied
  <2>10. AllCurrent'
    <3>1. m \notin active
      BY <1>1, <2>1, <2>4 DEF Current, At
    <3> SUFFICES ASSUME NEW q \in Requests PROVE Current(request[q])'
      BY DEF AllCurrent
    <3> QED
      BY <2>4, <2>5, <2>6, <3>1 DEF Current
  <2>11. LessonsOwned'
    BY <2>4, <2>8, OwnersStay DEF Kept, Booked
  <2>12. WaitingPresent'
    <3> SUFFICES ASSUME NEW j \in SlotIds, slot'[j].tx \in Requests
                 PROVE  EndDates(slot'[j]) \intersect away = {}
      BY <2>4 DEF WaitingPresent, Present
    <3>1. CASE slot'[j] = slot[j]
      BY <3>1 DEF Kept, WaitingPresent, Present
    <3>2. CASE /\ slot'[j].start = x.start /\ slot'[j].end = x.end /\ Bookable(x)
      BY <3>2 DEF Bookable, Present, EndDates
    <3> QED
      BY <2>7, <3>1, <3>2
  <2>13. Tried(p, request[p])
    BY <2>4 DEF Kept, AllWritten
  <2>14. ASSUME NEW k \in 0 .. Lessons(m) - 1, k < n + 1, NEW y, y = LessonOf(m, k, from), Bookable(y)'
         PROVE  \E j \in SlotIds :
                  /\ slot'[j].tx = p /\ slot'[j].status = "OCCUPIED" /\ slot'[j].owner = m
                  /\ slot'[j].start = y.start /\ slot'[j].end = y.end
    <3>1. Bookable(y)
      BY <2>9, <2>14
    <3>2. CASE k = n
      BY <2>2, <2>7, <2>14, <3>1, <3>2
    <3>3. CASE k < n
      <4>1. Written(p, m, y)
        BY <2>1, <2>13, <2>14, <3>1, <3>3 DEF Tried
      <4>2. PICK j \in SlotIds : /\ slot[j].tx = p /\ slot[j].status = "OCCUPIED"
                                 /\ slot[j].owner = m
                                 /\ slot[j].start = y.start /\ slot[j].end = y.end
        BY <4>1 DEF Written
      <4>3. slot'[j] = slot[j]
        BY <2>7, <4>2
      <4> QED
        BY <4>2, <4>3
    <3> QED
      BY <2>5, <2>14, <3>2, <3>3
  <2>15. AllWritten'
    <3> SUFFICES ASSUME NEW q \in Requests, At(q, "occupy")',
                        NEW k \in 0 .. Lessons(request'[q].target) - 1, k < request'[q].next
                 PROVE  (LET y == LessonOf(request[q].target, k, request[q].start)
                         IN  ~Bookable(y) \/ Written(q, request[q].target, y))'
      BY DEF AllWritten, Tried
    <3>1. q = p /\ request'[q].target = m /\ request'[q].start = from /\ request'[q].next = n + 1
      BY <2>5, <2>6 DEF At
    <3>2. PICK y : y = LessonOf(m, k, from)
      OBVIOUS
    <3>3. ~Bookable(y)' \/ Written(p, m, y)'
      BY <2>14, <3>1, <3>2 DEF Written
    <3> QED
      BY <3>1, <3>2, <3>3 DEF Bookable, Present, Free, Written
  <2> QED
    BY <2>10, <2>11, <2>12, <2>15 DEF Kept
<1>9. CASE ActivateTx(p)
  <2>1. /\ request' = [request EXCEPT ![p] = Idle]
        /\ active' = active \union {M}
        /\ \A i \in SlotIds : \/ slot[i].tx = p /\ slot'[i] = [slot[i] EXCEPT !.tx = Nobody]
                              \/ slot[i].tx # p /\ slot'[i] = slot[i]
    BY <1>9 DEF ActivateTx, Commit, Return, Goto
  <2>2. \A i \in SlotIds : slot'[i].tx = Nobody /\ slot'[i].owner = slot[i].owner
                           /\ (slot[i].tx # p => slot'[i] = slot[i])
    <3> TAKE i \in SlotIds
    <3>1. slot[i] \in SlotRow
      BY <1>0 DEF TypeOK
    <3> QED
      BY <1>1, <2>1, <3>1 DEF SlotRow
  <2>3. LessonsOwned'
    <3> SUFFICES ASSUME NEW i \in SlotIds, Booked(i)'
                 PROVE  slot'[i].owner \in active'
      BY DEF LessonsOwned
    <3>1. CASE slot[i].tx = p
      BY <2>1, <2>2, <3>1 DEF Serial, WaitingApart
    <3>2. CASE slot[i].tx # p
      BY <2>1, <2>2, <3>2 DEF Kept, LessonsOwned, Booked, Visible
    <3> QED
      BY <3>1, <3>2
  <2> QED
    BY <1>3, <2>1, <2>2, <2>3, NothingWaitsPresent DEF Kept
<1> QED
  BY <1>4, <1>5, <1>6, <1>7, <1>8, <1>9 DEF Resume

LEMMA KeptNext == KeptInv /\ [Next]_vars => KeptInv'
<1> SUFFICES ASSUME KeptInv, [Next]_vars PROVE KeptInv'
  OBVIOUS
<1>0. SerialInv /\ SerialInv' /\ DemoInv /\ TypeInv /\ TypeOK
  BY SerialNext DEF KeptInv, SerialInv, DemoInv, TypeInv
<1> SUFFICES ASSUME ~overlapped' PROVE Kept'
  BY <1>0 DEF KeptInv
<1>a. ASSUME UNCHANGED <<rows, request, overlapped>> PROVE Kept'
  BY <1>a DEF rows, KeptInv, Kept, LessonsOwned, AllCurrent, Current, WaitingPresent, AllWritten,
              Tried, Written, At, Booked, Visible, Bookable, Free, Present, Occupied, Pending,
              DemoTime
<1>b. ASSUME ~Busy PROVE /\ \A q \in Requests : At(q, "idle")
                         /\ \A i \in SlotIds : slot[i].tx = Nobody
  BY <1>0, <1>b DEF Busy, TypeOK, SlotsOK, SlotRow, At
<1>1. CASE Tick
  BY <1>a, <1>1 DEF Tick
<1>2. ASSUME NEW d \in Dates, AddException(d) \/ RemoveException(d) PROVE Kept'
  <2>1. ~overlapped /\ ~Busy /\ UNCHANGED <<slot, active, request>>
    BY <1>0, <1>2 DEF AddException, RemoveException, TypeOK
  <2>2. AllCurrent' /\ AllWritten'
    BY <1>b, <2>1, IdleRemembersNothing DEF At
  <2>3. WaitingPresent'
    BY <1>b, <2>1, NothingWaitsPresent
  <2>4. LessonsOwned'
    BY <2>1 DEF KeptInv, Kept, LessonsOwned, Booked, Visible
  <2> QED
    BY <2>2, <2>3, <2>4 DEF Kept
<1>3. ASSUME NEW p \in Requests, Arrive(p) PROVE Kept'
  <2>1. PICK local : /\ Start(p, local) /\ UNCHANGED rows /\ local.step # "occupy"
                     /\ local.step = "count" => local.target \notin active
                     /\ local.step \in {"bookCheck", "bookTx"} => Present(DemoTime(local.start))
                     /\ local.step = "demoTx" => Pending(local.target)
    <3>1. ASSUME NEW m \in Matches, NEW start \in DemoStarts, BookRead(p, m, start),
                 NEW local, local = [Local("bookCheck", m) EXCEPT !.start = start]
          PROVE  /\ Start(p, local) /\ UNCHANGED rows /\ local.step = "bookCheck"
                 /\ Present(DemoTime(local.start))
      BY <3>1 DEF BookRead, Local, Idle
    <3>2. ASSUME NEW m \in Matches, NEW status \in DemoStatus, DemoRead(p, m, status),
                 NEW local, local = [Local("demoTx", m) EXCEPT !.status = status]
          PROVE  /\ Start(p, local) /\ UNCHANGED rows /\ local.step = "demoTx"
                 /\ Pending(local.target)
      BY <3>2 DEF DemoRead, Local, Idle
    <3>3. ASSUME NEW m \in Matches, ActivateRead(p, m), NEW local, local = Local("count", m)
          PROVE  /\ Start(p, local) /\ UNCHANGED rows /\ local.step = "count"
                 /\ local.target \notin active
      BY <3>3 DEF ActivateRead, Local, Idle
    <3>4. ASSUME NEW i \in SlotIds, ReleaseRead(p, i), NEW local, local = Local("release", i)
          PROVE  /\ Start(p, local) /\ UNCHANGED rows /\ local.step = "release"
      BY <3>4 DEF ReleaseRead, Local, Idle
    <3>5. CASE \E m \in Matches, start \in DemoStarts : BookRead(p, m, start)
      BY <3>1, <3>5
    <3>6. CASE \E m \in Matches, status \in DemoStatus : DemoRead(p, m, status)
      BY <3>2, <3>6
    <3>7. CASE \E m \in Matches : ActivateRead(p, m)
      BY <3>3, <3>7
    <3>8. CASE \E i \in SlotIds : ReleaseRead(p, i)
      BY <3>4, <3>8
    <3> QED
      BY <1>3, <3>5, <3>6, <3>7, <3>8 DEF Arrive
  <2>2. ~overlapped /\ ~Busy
    BY <1>0, <2>1 DEF Start, TypeOK
  <2>3. /\ \A q \in Requests : q # p => request'[q].step = "idle"
        /\ request'[p] = local
    BY <1>0, <1>b, <2>1, <2>2 DEF Start, TypeOK, At
  <2>4. AllCurrent'
    <3> SUFFICES ASSUME NEW q \in Requests PROVE Current(request[q])'
      BY DEF AllCurrent
    <3>1. CASE q = p
      <4>1. local.step \in {"bookCheck", "bookTx"} => EndDates(DemoTime(local.start)) \intersect away' = {}
        BY <2>1 DEF Present, rows
      <4> QED
        BY <2>1, <2>3, <3>1, <4>1 DEF Current, Present, Pending, rows
    <3>2. CASE q # p
      BY <2>3, <3>2 DEF Current
    <3> QED
      BY <3>1, <3>2
  <2>5. AllWritten'
    BY <2>1, <2>3 DEF AllWritten, At
  <2>6. WaitingPresent'
    BY <1>b, <2>1, <2>2, NothingWaitsPresent DEF rows
  <2>7. LessonsOwned'
    BY <2>1, <2>2 DEF rows, KeptInv, Kept, LessonsOwned, Booked, Visible
  <2> QED
    BY <2>4, <2>5, <2>6, <2>7 DEF Kept
<1>4. ASSUME NEW p \in Requests, Resume(p) PROVE Kept'
  <2>1. UNCHANGED overlapped
    BY <1>4 DEF Resume, BookCheck, BookTx, DemoTx, ActivateCount, OccupyNext, ActivateTx,
                ReleaseWrite, Return, Goto
  <2> QED
    BY <1>0, <1>4, <2>1, KeptResume DEF KeptInv, SerialInv
<1>5. ASSUME NEW p \in Requests, Die(p) PROVE Kept'
  <2>1. /\ request' = [request EXCEPT ![p] = Idle] /\ UNCHANGED <<overlapped, active>>
        /\ ~At(p, "idle")
        /\ \A i \in SlotIds : \/ slot[i].tx = p /\ slot'[i] = NoRow
                              \/ slot[i].tx # p /\ slot'[i] = slot[i]
    BY <1>5 DEF Die, Return, Goto
  <2>2. Serial /\ Kept
    BY <2>1 DEF SerialInv, KeptInv
  <2>3. \A q \in Requests : request'[q].step = "idle"
    <3>1. request'[p] = Idle /\ \A q \in Requests : q # p => request'[q].step = "idle"
      BY <1>0, <2>1, <2>2, AloneStays
    <3> QED
      BY <3>1 DEF Idle
  <2>4. \A i \in SlotIds : slot'[i].tx = Nobody
    BY <1>0, <2>1, <2>2, OthersIdle DEF NoRow
  <2>5. \A i \in SlotIds : Booked(i)' => Booked(i) /\ slot'[i].owner = slot[i].owner
    BY <2>1 DEF Booked, Visible, NoRow
  <2> QED
    BY <2>1, <2>2, <2>3, <2>4, <2>5, IdleRemembersNothing, NothingWaitsPresent, OwnersStay DEF Kept
<1>6. CASE UNCHANGED vars
  BY <1>a, <1>6 DEF vars
<1> QED
  BY <1>1, <1>2, <1>3, <1>4, <1>5, <1>6 DEF Next

-----------------------------------------------------------------------------
(* What a step may not do. *)

LEMMA KeepsAway ==
    KeptInv /\ [Next]_vars =>
        [\A i \in SlotIds : Visible(i)' /\ ~Visible(i) =>
            overlapped' \/ EndDates(slot'[i]) \intersect away = {}]_vars
<1> SUFFICES ASSUME KeptInv, Next, NEW i \in SlotIds, Visible(i)', ~Visible(i), ~overlapped'
             PROVE  EndDates(slot'[i]) \intersect away = {}
  OBVIOUS
<1>0. DemoInv /\ TypeInv /\ TypeOK
  BY DEF KeptInv, SerialInv, DemoInv, TypeInv
<1>1. slot'[i] # slot[i] /\ slot'[i].tx = Nobody
  BY DEF Visible
<1>2. PICK p \in Requests : BookTx(p) \/ ActivateTx(p)
  <2>1. ~Tick /\ \A d \in Dates : ~AddException(d) /\ ~RemoveException(d)
    BY <1>1 DEF Tick, AddException, RemoveException, rows
  <2>2. PICK p \in Requests : Arrive(p) \/ Resume(p) \/ Die(p)
    BY <2>1 DEF Next
  <2>3. ~Arrive(p) /\ ~BookCheck(p) /\ ~ActivateCount(p)
    BY <1>1 DEF Arrive, BookRead, DemoRead, ActivateRead, ReleaseRead, BookCheck, ActivateCount, rows
  <2>4. ~Die(p)
    <3> SUFFICES ASSUME Die(p) PROVE FALSE
      OBVIOUS
    <3>1. slot'[i] = NoRow
      BY <1>1 DEF Die
    <3> QED
      BY <3>1 DEF Visible, NoRow
  <2>5. ~DemoTx(p)
    <3> SUFFICES ASSUME DemoTx(p) PROVE FALSE
      OBVIOUS
    <3>1. Occupied(i)
      BY <1>1 DEF DemoTx
    <3> QED
      BY <3>1 DEF Occupied
  <2>6. ~ReleaseWrite(p)
    <3> SUFFICES ASSUME ReleaseWrite(p) PROVE FALSE
      OBVIOUS
    <3>1. request[p].target = i
      BY <1>0, <1>1 DEF ReleaseWrite, TypeOK
    <3>2. Booked(i)
      BY <3>1 DEF ReleaseWrite, DemoInv, ReleasesLessons, KeptInv, SerialInv
    <3> QED
      BY <3>2 DEF Booked
  <2>7. ~OccupyNext(p)
    <3> SUFFICES ASSUME OccupyNext(p) PROVE FALSE
      OBVIOUS
    <3>1. PICK m, x : \E j \in SlotIds : Insert(j, "AGREEMENT", m, x, p)
      BY <1>1 DEF OccupyNext
    <3>2. slot'[i].tx = p
      BY <1>0, <1>1, <3>1 DEF Insert, TypeOK
    <3> QED
      BY <1>1, <3>2, NobodyAssumption
  <2> QED
    BY <2>2, <2>3, <2>4, <2>5, <2>6, <2>7 DEF Resume
<1>3. ~overlapped
  BY <1>2 DEF BookTx, ActivateTx, Return, Goto
<1>4. Serial /\ Kept
  BY <1>3 DEF KeptInv, SerialInv
<1>5. CASE BookTx(p)
  <2>1. Present(DemoTime(request[p].start))
    BY <1>4, <1>5 DEF Kept, AllCurrent, Current, BookTx, At
  <2>2. PICK x : x = DemoTime(request[p].start)
    OBVIOUS
  <2>3. \E j \in SlotIds : Insert(j, "DEMO", request[p].target, x, Nobody)
    BY <1>1, <1>5, <2>2 DEF BookTx
  <2>4. slot'[i].start = x.start /\ slot'[i].end = x.end
    BY <1>0, <1>1, <2>3 DEF Insert, TypeOK
  <2> QED
    BY <2>1, <2>2, <2>4 DEF Present, EndDates
<1>6. CASE ActivateTx(p)
  <2>1. slot[i].tx = p /\ slot'[i] = [slot[i] EXCEPT !.tx = Nobody]
    BY <1>1, <1>6 DEF ActivateTx, Commit
  <2>2. slot'[i].start = slot[i].start /\ slot'[i].end = slot[i].end
    BY <1>0, <2>1 DEF TypeOK, SlotRow
  <2>3. Present(slot[i])
    BY <1>4, <2>1 DEF Kept, WaitingPresent
  <2> QED
    BY <2>2, <2>3 DEF Present, EndDates
<1> QED
  BY <1>2, <1>5, <1>6

LEMMA KeepsDemos ==
    KeptInv /\ [Next]_vars =>
        [\A m \in Matches : demo[m] \notin {"none", "SCHEDULED"} =>
            overlapped' \/ demo'[m] = demo[m]]_vars
<1> SUFFICES ASSUME KeptInv, Next, NEW m \in Matches, demo[m] \notin {"none", "SCHEDULED"},
                    ~overlapped', demo'[m] # demo[m]
             PROVE  FALSE
  OBVIOUS
<1>0. TypeOK
  BY DEF KeptInv, SerialInv, DemoInv, TypeInv
<1>1. PICK p \in Requests : BookTx(p) \/ DemoTx(p)
  <2>1. ~Tick /\ \A d \in Dates : ~AddException(d) /\ ~RemoveException(d)
    BY DEF Tick, AddException, RemoveException, rows
  <2>2. PICK p \in Requests : Arrive(p) \/ Resume(p) \/ Die(p)
    BY <2>1 DEF Next
  <2>3. /\ ~Arrive(p) /\ ~BookCheck(p) /\ ~ActivateCount(p) /\ ~Die(p)
        /\ ~OccupyNext(p) /\ ~ActivateTx(p) /\ ~ReleaseWrite(p)
    BY DEF Arrive, BookRead, DemoRead, ActivateRead, ReleaseRead, BookCheck, ActivateCount, rows,
           Die, OccupyNext, ActivateTx, ReleaseWrite
  <2> QED
    BY <2>2, <2>3 DEF Resume
<1>2. CASE BookTx(p)
  BY <1>0, <1>2 DEF BookTx, Unbooked, TypeOK
<1>3. CASE DemoTx(p)
  <2>1. Kept
    BY <1>3 DEF KeptInv, DemoTx, Return, Goto
  <2>2. Pending(request[p].target)
    BY <1>3, <2>1 DEF Kept, AllCurrent, Current, DemoTx, At
  <2>3. request[p].target # m
    BY <2>2 DEF Pending
  <2> QED
    BY <1>0, <1>3, <2>3 DEF DemoTx, TypeOK
<1> QED
  BY <1>1, <1>2, <1>3

(* Only the commit of an activation that is not disturbed makes its        *)
(* agreement active.                                                       *)
LEMMA ActivatedByCommit ==
    ASSUME KeptInv, Next, ~overlapped', NEW p \in Requests, At(p, "occupy"), ~At(p, "occupy")',
           request[p].target \in active'
    PROVE  ActivateTx(p) /\ Serial /\ Kept
<1>0. TypeOK
  BY DEF KeptInv, SerialInv, DemoInv, TypeInv
<1>1. request'[p] # request[p]
  BY DEF At
<1>2. PICK q \in Requests : Arrive(q) \/ Resume(q) \/ Die(q)
  <2>1. ~Tick /\ \A d \in Dates : ~AddException(d) /\ ~RemoveException(d)
    BY <1>1 DEF Tick, AddException, RemoveException, rows
  <2> QED
    BY <2>1 DEF Next
<1>3. ~Arrive(q)
  <2> SUFFICES ASSUME NEW local, Start(q, local) PROVE FALSE
    BY DEF Arrive, BookRead, DemoRead, ActivateRead, ReleaseRead
  <2>1. q # p
    BY DEF Start, At, Idle
  <2> QED
    BY <1>0, <1>1, <2>1 DEF Start, TypeOK
<1>4. PICK local : request' = [request EXCEPT ![q] = local] /\ UNCHANGED overlapped
  <2>1. PICK local : Goto(q, local)
    BY <1>2, <1>3 DEF Resume, Die, BookCheck, BookTx, DemoTx, ActivateCount, OccupyNext, ActivateTx,
           ReleaseWrite, Return
  <2> QED
    BY <2>1 DEF Goto
<1>5. q = p
  BY <1>0, <1>1, <1>4 DEF TypeOK
<1>6. Serial /\ Kept
  BY <1>4 DEF KeptInv, SerialInv
<1>7. request[p].target \notin active
  BY <1>6 DEF Kept, AllCurrent, Current, At
<1>8. ~Die(p)
  BY <1>7 DEF Die
<1>9. ~OccupyNext(p)
  <2> SUFFICES ASSUME OccupyNext(p) PROVE FALSE
    OBVIOUS
  <2>1. request' = [request EXCEPT ![p] = [request[p] EXCEPT !.next = @ + 1]]
    BY DEF OccupyNext, Goto
  <2> QED
    BY <1>0, <2>1 DEF TypeOK, RequestSet, At
<1>10. ActivateTx(p)
  BY <1>2, <1>3, <1>5, <1>8, <1>9 DEF Resume, BookCheck, BookTx, DemoTx, ActivateCount, ReleaseWrite, At
<1> QED
  BY <1>6, <1>10

LEMMA BooksLessons ==
    KeptInv /\ [Next]_vars =>
        [\A p \in Requests : At(p, "occupy") /\ ~At(p, "occupy")' =>
           LET m == request[p].target
           IN  m \in active' /\ ~overlapped' =>
               \A w \in 0 .. Weeks - 1, k \in 1 .. Len(Schedule[m]) :
                   LET row == Schedule[m][k]
                       x   == Lesson(row, w, request[p].start)
                   IN  \/ Straddles(row, request[p].start)
                       \/ ~Present(x)
                       \/ ~Free(x)
                       \/ \E i \in SlotIds : /\ Holds(i, m, x)
                                             /\ slot'[i].end = x.start + Length(row)]_vars
<1> SUFFICES ASSUME KeptInv, Next, ~overlapped', NEW p \in Requests,
                    At(p, "occupy"), ~At(p, "occupy")', request[p].target \in active',
                    NEW w \in 0 .. Weeks - 1, NEW k \in 1 .. Len(Schedule[request[p].target])
             PROVE  LET row == Schedule[request[p].target][k]
                        x   == Lesson(row, w, request[p].start)
                    IN  \/ Straddles(row, request[p].start)
                        \/ ~Present(x)
                        \/ ~Free(x)
                        \/ \E i \in SlotIds : /\ Holds(i, request[p].target, x)
                                              /\ slot'[i].end = x.start + Length(row)
  OBVIOUS
<1>0. TypeInv /\ TypeOK
  BY DEF KeptInv, SerialInv, DemoInv, TypeInv
<1>1. ActivateTx(p) /\ Serial /\ Kept
  BY ActivatedByCommit
<1>2. PICK m, from, row, x : /\ m = request[p].target /\ from = request[p].start
                             /\ row = Schedule[m][k] /\ x = Lesson(row, w, from)
  OBVIOUS
<1>3. m \in Matches /\ from \in Nat /\ w \in Nat /\ row \in Rows
  <2>1. m \in Matches /\ from \in Nat
    BY <1>0, <1>2 DEF TypeInv, Good, RequestSet, At
  <2>2. Schedule[m] \in Seq(Rows)
    BY <2>1, ScheduleAssumption
  <2> QED
    BY <1>2, <2>1, <2>2
<1> SUFFICES ASSUME ~Straddles(row, from), Present(x), Free(x)
             PROVE  \E i \in SlotIds : /\ Occupied(i)' /\ slot'[i].owner = m
                                       /\ slot'[i].start = x.start
                                       /\ slot'[i].end = x.start + Length(row)
  BY <1>2 DEF Holds
<1>4. x.end = x.start + Length(row) /\ x.end > x.start
  BY <1>2, <1>3, LessonLasts
<1>5. Bookable(x)
  BY <1>4 DEF Bookable
<1>6. PICK n \in 0 .. Lessons(m) - 1 : LessonOf(m, n, from) = x
  BY <1>2, <1>3, LessonOfRow
<1>7. n < request[p].next
  <2>1. request[p].next \in Nat /\ request[p].next >= Lessons(m)
    BY <1>0, <1>1, <1>2 DEF ActivateTx, AllTried, TypeOK, RequestSet
  <2>2. Lessons(m) \in Nat
    <3>1. Schedule[m] \in Seq(Rows) /\ Weeks \in Nat
      BY <1>3, ScheduleAssumption, NumbersAssumption
    <3> QED
      BY <3>1, TimesIsNat DEF Lessons
  <2> QED
    BY <2>1, <2>2
<1>8. Written(p, m, x)
  <2>1. Tried(p, request[p])
    BY <1>1 DEF Kept, AllWritten
  <2> QED
    BY <1>2, <1>5, <1>6, <1>7, <2>1 DEF Tried
<1>9. PICK i \in SlotIds : /\ slot[i].tx = p /\ slot[i].status = "OCCUPIED"
                          /\ slot[i].owner = m
                          /\ slot[i].start = x.start /\ slot[i].end = x.end
  BY <1>8 DEF Written
<1>10. slot'[i] = [slot[i] EXCEPT !.tx = Nobody] /\ slot[i] \in SlotRow
  BY <1>0, <1>1, <1>9 DEF ActivateTx, Commit, TypeOK
<1>11. /\ slot'[i].tx = Nobody /\ slot'[i].status = "OCCUPIED" /\ slot'[i].owner = m
       /\ slot'[i].start = x.start /\ slot'[i].end = x.end
  BY <1>9, <1>10 DEF SlotRow
<1> QED
  BY <1>4, <1>11 DEF Occupied, Visible

(* As long as handlers do not overlap, wherever they die: no booking       *)
(* begins or ends on a date on which the tutor is away; an activation that *)
(* commits has booked every lesson of its schedule, in its full length,    *)
(* that nothing was in the way of; and what became of a demo stays so.     *)
THEOREM CalendarKeepsItsWord == Spec => CalendarStands
<1>1. Spec => []KeptInv
  BY KeptInit, KeptNext, PTL DEF Spec
<1>2. Spec => AwayIsRespected
  BY <1>1, KeepsAway, PTL DEF Spec, AwayIsRespected
<1>3. Spec => ActivationBooks
  BY <1>1, BooksLessons, PTL DEF Spec, ActivationBooks
<1>4. Spec => DemoIsFinal
  BY <1>1, KeepsDemos, PTL DEF Spec, DemoIsFinal
<1> QED
  BY <1>2, <1>3, <1>4 DEF CalendarStands
=============================================================================
