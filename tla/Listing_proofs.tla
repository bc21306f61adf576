--------------------------- MODULE Listing_proofs ---------------------------
(***************************************************************************)
(* Proofs about Listing, for any number of sections, documents,            *)
(* commissions and requests: as long as handlers do not overlap, a tutor   *)
(* is listed only with a complete profile, and the queue of the admin      *)
(* shows exactly the tutors of whom a document waits.  Below them, about   *)
(* Ranking, for any tutors: the order of the listed ones is fair.          *)
(***************************************************************************)
EXTENDS MCListing, FiniteSetTheorems, WellFoundedInduction, TLAPS

(* A save knows its section, and an upload its document.                   *)
Good == {r \in RequestSet :
            /\ r.step = "save" => r.section \in Sections
            /\ r.step \in {"upload", "demote"} => r.row \in Docs}

TypeInv == TypeOK /\ request \in [Requests -> Good]

LEMMA IdleIsGood == Idle \in Good
BY DEF Idle, Good, RequestSet, Steps, Verdicts

(* The steps of a request: what Start, Goto and Return leave behind.       *)
LEMMA StartTyped ==
    ASSUME TypeInv, NEW p \in Requests, NEW local \in Good, Start(p, local)
    PROVE  /\ request' \in [Requests -> Good] /\ request' \in [Requests -> RequestSet]
           /\ overlapped' \in BOOLEAN /\ deaths' \in Nat
BY DEF Start, TypeInv, TypeOK, Good

LEMMA GotoTyped ==
    ASSUME TypeInv, NEW p \in Requests, NEW local \in Good, Goto(p, local)
    PROVE  /\ request' \in [Requests -> Good] /\ request' \in [Requests -> RequestSet]
           /\ overlapped' \in BOOLEAN /\ deaths' \in Nat
BY DEF Goto, TypeInv, TypeOK, Good, history

LEMMA ContinueTyped ==
    ASSUME TypeInv, NEW p \in Requests, NEW step \in Steps \ {"save", "upload"},
           step = "demote" => At(p, "upload"), Continue(p, step)
    PROVE  /\ request' \in [Requests -> Good] /\ request' \in [Requests -> RequestSet]
           /\ overlapped' \in BOOLEAN /\ deaths' \in Nat
<1>1. [request[p] EXCEPT !.step = step] \in Good
  BY DEF TypeInv, Good, RequestSet, At
<1> QED
  BY <1>1, GotoTyped DEF Continue

LEMMA TypeArrive ==
    ASSUME TypeInv, NEW p \in Requests, Arrive(p)
    PROVE  TypeInv'
<1> USE DEF rows, At, TypeInv
<1>1. ASSUME NEW section \in Sections, NEW full \in BOOLEAN, Save(p, section, full)
      PROVE  TypeInv'
  <2>1. [Idle EXCEPT !.step = "save", !.section = section, !.value = full] \in Good
    BY DEF Good, Idle, RequestSet, Steps, Verdicts
  <2> QED
    BY <1>1, <2>1, StartTyped DEF Save, TypeOK
<1>2. CASE GetMe(p)
  <2>1. [Idle EXCEPT !.step = "me"] \in Good
    BY DEF Good, Idle, RequestSet, Steps, Verdicts
  <2> QED
    BY <1>2, <2>1, StartTyped DEF GetMe, TypeOK
<1>3. ASSUME NEW d \in Docs, UploadDocument(p, d) PROVE TypeInv'
  <2>1. [Idle EXCEPT !.step = "upload", !.row = d] \in Good
    BY DEF Good, Idle, RequestSet, Steps, Verdicts
  <2> QED
    BY <1>3, <2>1, StartTyped DEF UploadDocument, TypeOK
<1>4. ASSUME NEW verdict \in Verdicts, Decide(p, verdict) PROVE TypeInv'
  <2>1. [Idle EXCEPT !.step = "decide", !.verdict = verdict] \in Good
    BY DEF Good, Idle, RequestSet, Steps
  <2> QED
    BY <1>4, <2>1, StartTyped DEF Decide, TypeOK
<1>5. ASSUME NEW S \in SUBSET Commissions, OverdueRead(p, S) PROVE TypeInv'
  <2>1. [Idle EXCEPT !.step = "overdue", !.rows = S] \in Good
    BY DEF Good, Idle, RequestSet, Steps, Verdicts
  <2> QED
    BY <1>5, <2>1, StartTyped DEF OverdueRead, TypeOK
<1>6. ASSUME NEW c \in Commissions, Settle(p, c) PROVE TypeInv'
  <2>1. [Idle EXCEPT !.step = "lift"] \in Good
    BY DEF Good, Idle, RequestSet, Steps, Verdicts
  <2>2. due' \in [Commissions -> DueStatus]
    BY <1>6 DEF Settle, TypeOK, DueStatus
  <2> QED
    BY <1>6, <2>1, <2>2, StartTyped DEF Settle, TypeOK
<1> QED
  BY <1>1, <1>2, <1>3, <1>4, <1>5, <1>6 DEF Arrive

LEMMA TypeResume ==
    ASSUME TypeInv, NEW p \in Requests, Resume(p)
    PROVE  TypeInv'
<1> USE DEF rows, At, TypeInv
<1>1. CASE SaveWrite(p)
  <2>1. [Idle EXCEPT !.step = "refresh", !.then = "me"] \in Good
    BY DEF Good, Idle, RequestSet, Steps, Verdicts
  <2>2. request[p].section \in Sections
    BY <1>1 DEF SaveWrite, Good
  <2> QED
    BY <1>1, <2>1, <2>2, GotoTyped DEF SaveWrite, PutSection, TypeOK
<1>2. CASE RefreshRead(p)
  <2>1. [request[p] EXCEPT !.step = "relist", !.value = Complete] \in Good
    <3>1. Complete \in BOOLEAN
      BY DEF Complete
    <3>2. request[p] \in RequestSet
      BY DEF Good
    <3>3. [request[p] EXCEPT !.step = "relist", !.value = Complete] \in RequestSet
      BY <3>1, <3>2 DEF RequestSet, Steps
    <3> QED
      BY <3>2, <3>3 DEF Good, RequestSet
  <2> QED
    BY <1>2, <2>1, GotoTyped DEF RefreshRead, TypeOK
<1>3. CASE RefreshWrite(p)
  <2>1. [Idle EXCEPT !.step = request[p].then] \in Good
    BY DEF Good, Idle, RequestSet, Steps, Verdicts, TypeOK
  <2>2. request[p].value \in BOOLEAN
    BY DEF TypeOK, RequestSet
  <2> QED
    BY <1>3, <2>1, <2>2, GotoTyped DEF RefreshWrite, TypeOK
<1>4. CASE GetMeRead(p)
  <2>1. [Idle EXCEPT !.step = "meWrite", !.value = Complete] \in Good
    <3>1. Complete \in BOOLEAN
      BY DEF Complete
    <3> QED
      BY <3>1 DEF Good, Idle, RequestSet, Steps, Verdicts
  <2> QED
    BY <1>4, <2>1, GotoTyped, IdleIsGood DEF GetMeRead, Return, TypeOK
<1>5. CASE GetMeWrite(p)
  <2>1. request[p].value \in BOOLEAN
    BY DEF TypeOK, RequestSet
  <2> QED
    BY <1>5, <2>1, GotoTyped, IdleIsGood DEF GetMeWrite, Return, TypeOK
<1>6. CASE UploadCreate(p)
  <2>1. "demote" \in Steps \ {"save", "upload"}
    BY DEF Steps
  <2>2. doc' \in [Docs -> {"none", "PENDING"} \union Verdicts]
    BY <1>6 DEF UploadCreate, TypeOK
  <2> QED
    BY <1>6, <2>1, <2>2, ContinueTyped DEF UploadCreate, TypeOK
<1>7. CASE UploadDemote(p)
  BY <1>7, GotoTyped, IdleIsGood DEF UploadDemote, Return, TypeOK, VerificationStatus
<1>8. CASE DecideTx(p)
  <2>1. [Idle EXCEPT !.step = "refresh"] \in Good
    BY DEF Good, Idle, RequestSet, Steps, Verdicts
  <2>2. request[p].verdict \in Verdicts
    BY DEF TypeOK, RequestSet
  <2>3. doc' \in [Docs -> {"none", "PENDING"} \union Verdicts]
    BY <1>8, <2>2 DEF DecideTx, Judge, TypeOK
  <2> QED
    BY <1>8, <2>1, <2>2, <2>3, GotoTyped DEF DecideTx, TypeOK, VerificationStatus, Verdicts
<1>9. CASE OverdueWrite(p)
  <2>1. PICK c \in request[p].rows :
          /\ due' = [due EXCEPT ![c] = "OVERDUE"]
          /\ Goto(p, [request[p] EXCEPT !.step = "hide", !.rows = @ \ {c}])
    BY <1>9 DEF OverdueWrite
  <2>2. [request[p] EXCEPT !.step = "hide", !.rows = @ \ {c}] \in Good
    <3>1. request[p] \in RequestSet /\ request[p].rows \ {c} \in SUBSET Commissions
      BY DEF TypeOK, RequestSet
    <3>2. "hide" \in Steps
      BY DEF Steps
    <3> QED
      BY <3>1, <3>2 DEF Good, RequestSet
  <2>3. due' \in [Commissions -> DueStatus]
    BY <2>1 DEF TypeOK, DueStatus
  <2> QED
    BY <1>9, <2>1, <2>2, <2>3, GotoTyped DEF OverdueWrite, TypeOK
<1>10. CASE Hide(p)
  <2>1. "overdue" \in Steps \ {"save", "upload"}
    BY DEF Steps
  <2> QED
    BY <1>10, <2>1, ContinueTyped, GotoTyped, IdleIsGood DEF Hide, Return, TypeOK
<1>11. CASE LiftCount(p)
  <2>1. "liftRead" \in Steps \ {"save", "upload"}
    BY DEF Steps
  <2> QED
    BY <1>11, <2>1, ContinueTyped, GotoTyped, IdleIsGood DEF LiftCount, Return, TypeOK
<1>12. CASE LiftRead(p)
  <2>1. "liftWrite" \in Steps \ {"save", "upload"}
    BY DEF Steps
  <2> QED
    BY <1>12, <2>1, ContinueTyped, GotoTyped, IdleIsGood DEF LiftRead, Return, TypeOK
<1>13. CASE LiftWrite(p)
  BY <1>13, GotoTyped, IdleIsGood DEF LiftWrite, Return, TypeOK
<1> QED
  BY <1>1, <1>2, <1>3, <1>4, <1>5, <1>6, <1>7, <1>8, <1>9, <1>10, <1>11, <1>12, <1>13
     DEF Resume

(* Columns and requests keep their types, and the two columns that say     *)
(* whether the tutor is verified agree.                                    *)
THEOREM TypeCorrect == Spec => []TypeInv
<1>1. Init => TypeInv
  <2> SUFFICES ASSUME Init PROVE TypeInv
    OBVIOUS
  <2>1. request \in [Requests -> RequestSet] /\ request \in [Requests -> Good]
    BY IdleIsGood DEF Init, Good
  <2>2. /\ doc \in [Docs -> {"none", "PENDING"} \union Verdicts]
        /\ due \in [Commissions -> DueStatus]
    BY DEF Init, DueStatus
  <2> QED
    BY <2>1, <2>2 DEF Init, TypeInv, TypeOK, VerificationStatus
<1>2. TypeInv /\ [Next]_vars => TypeInv'
  <2> SUFFICES ASSUME TypeInv, [Next]_vars PROVE TypeInv'
    OBVIOUS
  <2> USE DEF TypeInv
  <2>1. ASSUME NEW c \in Commissions, Generate(c) PROVE TypeInv'
    BY <2>1 DEF Generate, TypeOK, DueStatus, history
  <2>2. ASSUME NEW p \in Requests, Die(p) PROVE TypeInv'
    <3>1. /\ request' \in [Requests -> RequestSet]
          /\ request' \in [Requests -> Good]
      BY <2>2, IdleIsGood DEF Die, TypeOK, Good
    <3> QED
      BY <2>2, <3>1 DEF Die, TypeOK, rows
  <2>3. CASE UNCHANGED vars
    BY <2>3 DEF vars, rows, history, TypeOK
  <2> QED
    BY <2>1, <2>2, <2>3, TypeArrive, TypeResume DEF Next
<1> QED
  BY <1>1, <1>2, PTL DEF Spec

-----------------------------------------------------------------------------
(* As long as handlers do not overlap. *)

Waiting == \E d \in Docs : doc[d] = "PENDING"

(* One handler runs at a time.  What it has read of the profile is still   *)
(* so.  If none died, a tutor with a gap is listed only until the refresh  *)
(* that follows a save, and the tutor's status is behind the documents     *)
(* only between the two writes of an upload.                               *)
Alone ==
    /\ \A p, q \in Requests : At(p, "idle") \/ At(q, "idle") \/ p = q
    /\ \A p \in Requests :
          /\ request[p].step \in {"relist", "meWrite"} => (request[p].value <=> Complete)
          /\ At(p, "liftWrite") => Complete
          /\ At(p, "demote") => doc[request[p].row] = "PENDING"
    /\ deaths = 0 /\ listed => \/ filled = Sections
                               \/ \E p \in Requests : At(p, "refresh") \/ At(p, "relist")
    /\ deaths = 0 => \/ verification = "PENDING" <=> Waiting
                     \/ \E p \in Requests : At(p, "demote")

SeqInv == TypeInv /\ (overlapped \/ Alone)

(* A request that arrives while nobody overlaps finds all others idle.     *)
LEMMA StartAlone ==
    ASSUME TypeInv, Alone, NEW p \in Requests, NEW local, Start(p, local), ~overlapped'
    PROVE  /\ \A q \in Requests : request[q].step = "idle"
           /\ \A q \in Requests : q # p => request'[q] = request[q]
           /\ request'[p] = local /\ deaths' = deaths
BY DEF Start, Busy, At, Alone, TypeInv, TypeOK

LEMMA GotoAlone ==
    ASSUME TypeInv, Alone, NEW p \in Requests, NEW local, Goto(p, local), ~At(p, "idle")
    PROVE  /\ \A q \in Requests : q # p => request'[q] = request[q] /\ request[q].step = "idle"
           /\ request'[p] = local /\ deaths' = deaths
BY DEF Goto, At, Alone, TypeInv, TypeOK, history

LEMMA ContinueAlone ==
    ASSUME TypeInv, Alone, NEW p \in Requests, NEW step, Continue(p, step), ~At(p, "idle")
    PROVE  /\ \A q \in Requests : q # p => request'[q] = request[q] /\ request[q].step = "idle"
           /\ request'[p].step = step /\ request'[p].row = request[p].row
           /\ deaths' = deaths
BY GotoAlone DEF Continue, TypeInv, TypeOK, RequestSet

LEMMA ReturnAlone ==
    ASSUME TypeInv, Alone, NEW p \in Requests, Return(p), ~At(p, "idle")
    PROVE  (\A q \in Requests : request'[q].step = "idle") /\ deaths' = deaths
BY GotoAlone DEF Return, Idle

LEMMA ArriveAlone ==
    ASSUME TypeInv, Alone, NEW p \in Requests, Arrive(p), ~overlapped'
    PROVE  Alone'
<1> USE DEF rows, At
<1>1. ASSUME NEW section \in Sections, NEW full \in BOOLEAN, Save(p, section, full)
      PROVE  Alone'
  <2>1. request'[p].step = "save"
    BY <1>1 DEF Save, Start, Idle, TypeInv, TypeOK
  <2> QED
    BY <1>1, <2>1, StartAlone DEF Save, Alone, Complete, Waiting
<1>2. CASE GetMe(p)
  <2>1. request'[p].step = "me"
    BY <1>2 DEF GetMe, Start, Idle, TypeInv, TypeOK
  <2> QED
    BY <1>2, <2>1, StartAlone DEF GetMe, Alone, Complete, Waiting
<1>3. ASSUME NEW d \in Docs, UploadDocument(p, d) PROVE Alone'
  <2>1. request'[p].step = "upload"
    BY <1>3 DEF UploadDocument, Start, Idle, TypeInv, TypeOK
  <2> QED
    BY <1>3, <2>1, StartAlone DEF UploadDocument, Alone, Complete, Waiting
<1>4. ASSUME NEW verdict \in Verdicts, Decide(p, verdict) PROVE Alone'
  <2>1. request'[p].step = "decide"
    BY <1>4 DEF Decide, Start, Idle, TypeInv, TypeOK
  <2> QED
    BY <1>4, <2>1, StartAlone DEF Decide, Alone, Complete, Waiting
<1>5. ASSUME NEW S \in SUBSET Commissions, OverdueRead(p, S) PROVE Alone'
  <2>1. request'[p].step = "overdue"
    BY <1>5 DEF OverdueRead, Start, Idle, TypeInv, TypeOK
  <2> QED
    BY <1>5, <2>1, StartAlone DEF OverdueRead, Alone, Complete, Waiting
<1>6. ASSUME NEW c \in Commissions, Settle(p, c) PROVE Alone'
  <2>1. request'[p].step = "lift"
    BY <1>6 DEF Settle, Start, Idle, TypeInv, TypeOK
  <2> QED
    BY <1>6, <2>1, StartAlone DEF Settle, Alone, Complete, Waiting
<1> QED
  BY <1>1, <1>2, <1>3, <1>4, <1>5, <1>6 DEF Arrive

LEMMA ResumeAlone ==
    ASSUME TypeInv, Alone, NEW p \in Requests, Resume(p)
    PROVE  Alone'
<1> USE DEF rows, At
<1>1. CASE SaveWrite(p)
  <2>1. request'[p].step = "refresh"
    BY <1>1 DEF SaveWrite, Goto, Idle, TypeInv, TypeOK
  <2> QED
    BY <1>1, <2>1, GotoAlone DEF SaveWrite, Alone, Complete, Waiting
<1>2. CASE RefreshRead(p)
  <2>1. request'[p].step = "relist" /\ request'[p].value = Complete
    BY <1>2 DEF RefreshRead, Goto, TypeInv, TypeOK, RequestSet
  <2>2. /\ \A q \in Requests : q # p => request'[q] = request[q] /\ request[q].step = "idle"
        /\ deaths' = deaths
    BY <1>2 DEF RefreshRead, Goto, Alone, TypeInv, TypeOK, history
  <2>3. Complete' <=> Complete
    BY <1>2 DEF RefreshRead, Complete
  <2>4. \A q \in Requests : /\ request'[q].step # "liftWrite"
                            /\ request'[q].step # "demote"
                            /\ request'[q].step \in {"relist", "meWrite"} =>
                                  (request'[q].value <=> Complete)
    BY <2>1, <2>2
  <2> QED
    BY <1>2, <2>1, <2>2, <2>3, <2>4 DEF RefreshRead, Alone, Waiting
<1>3. CASE RefreshWrite(p)
  <2>1. request'[p].step \in {"idle", "me"}
    BY <1>3, GotoAlone DEF RefreshWrite, TypeInv, TypeOK, RequestSet, Idle
  <2> QED
    BY <1>3, <2>1, GotoAlone DEF RefreshWrite, Alone, Complete, Waiting
<1>4. CASE GetMeRead(p)
  <2>1. CASE Return(p)
    BY <1>4, <2>1, ReturnAlone DEF GetMeRead, Alone, Complete, Waiting
  <2>2. CASE Goto(p, [Idle EXCEPT !.step = "meWrite", !.value = Complete])
    <3>1. request'[p].step = "meWrite" /\ request'[p].value = Complete
      BY <2>2 DEF Goto, Idle, TypeInv, TypeOK
    <3>2. /\ \A q \in Requests : q # p => request'[q] = request[q] /\ request[q].step = "idle"
          /\ deaths' = deaths
      BY <1>4, <2>2 DEF GetMeRead, Goto, Alone, TypeInv, TypeOK, history
    <3>3. Complete' <=> Complete
      BY <1>4 DEF GetMeRead, Complete
    <3>4. \A q \in Requests : /\ request'[q].step # "liftWrite"
                              /\ request'[q].step # "demote"
                              /\ request'[q].step \in {"relist", "meWrite"} =>
                                    (request'[q].value <=> Complete)
      BY <3>1, <3>2
    <3> QED
      BY <1>4, <3>1, <3>2, <3>3, <3>4 DEF GetMeRead, Alone, Waiting
  <2> QED
    BY <1>4, <2>1, <2>2 DEF GetMeRead
<1>5. CASE GetMeWrite(p)
  BY <1>5, ReturnAlone DEF GetMeWrite, Alone, Complete, Waiting
<1>6. CASE UploadCreate(p)
  <2>1. request[p].row \in Docs
    BY <1>6 DEF UploadCreate, TypeInv, Good
  <2>2. doc'[request[p].row] = "PENDING"
    BY <1>6, <2>1 DEF UploadCreate, TypeInv, TypeOK
  <2> QED
    BY <1>6, <2>2, ContinueAlone DEF UploadCreate, Alone, Complete
<1>7. CASE UploadDemote(p)
  <2>1. request[p].row \in Docs /\ doc[request[p].row] = "PENDING"
    BY <1>7 DEF UploadDemote, TypeInv, Good, Alone
  <2> QED
    BY <1>7, <2>1, ReturnAlone DEF UploadDemote, Alone, Complete, Waiting
<1>8. CASE DecideTx(p)
  <2>1. request[p].verdict \in Verdicts
    BY DEF TypeInv, TypeOK, RequestSet
  <2>2. ~Waiting' /\ verification' # "PENDING"
    BY <1>8, <2>1 DEF DecideTx, Judge, Waiting, Verdicts
  <2>3. request'[p].step = "refresh"
    BY <1>8, GotoAlone DEF DecideTx, Idle
  <2> QED
    BY <1>8, <2>2, <2>3, GotoAlone DEF DecideTx, Alone, Complete
<1>9. CASE OverdueWrite(p)
  <2>1. PICK c \in request[p].rows :
          Goto(p, [request[p] EXCEPT !.step = "hide", !.rows = @ \ {c}])
    BY <1>9 DEF OverdueWrite
  <2>2. request'[p].step = "hide"
    BY <2>1 DEF Goto, TypeInv, TypeOK, RequestSet
  <2> QED
    BY <1>9, <2>1, <2>2, GotoAlone DEF OverdueWrite, Alone, Complete, Waiting
<1>10. CASE Hide(p)
  BY <1>10, ReturnAlone, ContinueAlone DEF Hide, Alone, Complete, Waiting
<1>11. CASE LiftCount(p)
  BY <1>11, ReturnAlone, ContinueAlone DEF LiftCount, Alone, Complete, Waiting
<1>12. CASE LiftRead(p)
  BY <1>12, ReturnAlone, ContinueAlone DEF LiftRead, MayLift, Alone, Complete, Waiting
<1>13. CASE LiftWrite(p)
  BY <1>13, ReturnAlone DEF LiftWrite, Alone, Complete, Waiting
<1> QED
  BY <1>1, <1>2, <1>3, <1>4, <1>5, <1>6, <1>7, <1>8, <1>9, <1>10, <1>11, <1>12, <1>13
     DEF Resume

(* That handlers overlapped is remembered.                                 *)
LEMMA OverlapStays ==
    ASSUME overlapped, [Next]_vars
    PROVE  overlapped'
<1> USE DEF history, Goto, Continue, Return, Start
<1>1. ASSUME NEW p \in Requests, Arrive(p) PROVE overlapped'
  BY <1>1 DEF Arrive, Save, GetMe, UploadDocument, Decide, OverdueRead, Settle
<1>2. ASSUME NEW p \in Requests, Resume(p) PROVE overlapped'
  BY <1>2 DEF Resume, SaveWrite, RefreshRead, RefreshWrite, GetMeRead, GetMeWrite,
              UploadCreate, UploadDemote, DecideTx, OverdueWrite, Hide,
              LiftCount, LiftRead, LiftWrite
<1> QED
  BY <1>1, <1>2 DEF Next, Generate, Die, vars

(* The inductive invariant of handlers that do not overlap.                *)
THEOREM AlwaysAlone == Spec => []SeqInv
<1>1. Init => Alone
  <2> SUFFICES ASSUME Init PROVE Alone
    OBVIOUS
  <2>1. \A p \in Requests : request[p].step = "idle"
    BY DEF Init, Idle
  <2> QED
    BY <2>1 DEF Init, Alone, At, Waiting
<1>2. TypeInv /\ TypeInv' /\ SeqInv /\ [Next]_vars => SeqInv'
  <2> SUFFICES ASSUME TypeInv, Alone, [Next]_vars, ~overlapped' PROVE Alone'
    BY OverlapStays DEF SeqInv
  <2> USE DEF At
  <2>1. ASSUME NEW c \in Commissions, Generate(c) PROVE Alone'
    BY <2>1 DEF Generate, history, Alone, Complete, Waiting
  <2>2. ASSUME NEW p \in Requests, Die(p) PROVE Alone'
    <3>1. \A q \in Requests : request'[q].step = "idle"
      BY <2>2 DEF Die, Alone, TypeInv, TypeOK, Idle
    <3>2. deaths' # 0
      BY <2>2 DEF Die, TypeInv, TypeOK
    <3> QED
      BY <2>2, <3>1, <3>2 DEF Die, Alone
  <2>3. CASE UNCHANGED vars
    BY <2>3 DEF vars, rows, history, Alone, Complete, Waiting
  <2> QED
    BY <2>1, <2>2, <2>3, ArriveAlone, ResumeAlone DEF Next
<1>3. Init /\ TypeInv => SeqInv
  BY <1>1 DEF SeqInv
<1> QED
  BY <1>2, <1>3, TypeCorrect, PTL DEF Spec

(* When no handler is under way, none overlapped and none died, a listed   *)
(* tutor has no gap in the profile, and the admin's queue shows the tutor  *)
(* exactly when a document waits (refreshDiscoverable, getMe,              *)
(* uploadDocument, approve, reject).                                       *)
THEOREM AlwaysConsistent == Spec => []ProfileIsConsistent
<1>1. SeqInv => ProfileIsConsistent
  BY DEF SeqInv, TypeInv, Alone, ProfileIsConsistent, ListedIsFilledIn, QueueHasDocument,
         Quiet, Busy, At, Waiting
<1> QED
  BY <1>1, AlwaysAlone, PTL

(* Whatever lists a tutor does so for a complete profile                   *)
(* (refreshDiscoverable, getMe, liftPaymentRestrictionIfClear).            *)
THEOREM ListedWhenComplete == Spec => ListsOnlyComplete
<1>1. SeqInv /\ [Next]_vars => [~listed /\ listed' => overlapped' \/ Complete]_vars
  <2> SUFFICES ASSUME TypeInv, Alone, Next, ~listed, listed', ~overlapped' PROVE Complete
    BY OverlapStays DEF SeqInv
  <2> USE DEF rows, At
  <2>1. ASSUME NEW p \in Requests, Arrive(p) PROVE listed' = listed
    BY <2>1 DEF Arrive, Save, GetMe, UploadDocument, Decide, OverdueRead, Settle
  <2>2. ASSUME NEW p \in Requests, Resume(p) PROVE Complete \/ ~listed'
    <3>1. CASE RefreshWrite(p) \/ GetMeWrite(p)
      BY <3>1 DEF RefreshWrite, GetMeWrite, Alone
    <3>2. CASE LiftWrite(p)
      BY <3>2 DEF LiftWrite, Alone
    <3> QED
      BY <2>2, <3>1, <3>2 DEF Resume, SaveWrite, RefreshRead, GetMeRead, UploadCreate,
         UploadDemote, DecideTx, OverdueWrite, Hide, LiftCount, LiftRead
  <2> QED
    BY <2>1, <2>2 DEF Next, Generate, Die
<1> QED
  BY <1>1, AlwaysAlone, PTL DEF Spec, ListsOnlyComplete

-----------------------------------------------------------------------------
(* The ranking, for any tutors, weekdays and limits. *)

Below == {z \in Nat \X Nat : z[1] < z[2]}

LEMMA LeastOf ==
    ASSUME NEW S, S \subseteq Nat, S # {}
    PROVE  \E n \in S : \A m \in S : n <= m
<1>. DEFINE R == Below
<1>0. OpToRel(<, Nat) = Below
  BY DEF OpToRel, Below
<1>. HIDE DEF R
<1>1. IsWellFoundedOn(R, Nat)
  BY <1>0, NatLessThanWellFounded DEF R
<1>2. PICK x \in S : \A y \in S : ~(<<y, x>> \in R)
  BY <1>1, WFMin
<1>3. ASSUME NEW y \in S, y < x  PROVE FALSE
  <2>1. <<y, x>> \in Nat \X Nat /\ <<y, x>>[1] < <<y, x>>[2]
    BY <1>3
  <2>2. <<y, x>> \in R
    BY <2>1 DEF R, Below
  <2>. QED  BY <1>2, <2>2
<1>. QED  BY <1>3

LEMMA InductionOn ==
    ASSUME NEW S, S \subseteq Nat, 0 \in S, \A n \in S : n + 1 \in S
    PROVE  \A n \in Nat : n \in S
<1>. SUFFICES ASSUME Nat \ S # {}  PROVE FALSE
  OBVIOUS
<1>1. PICK n \in Nat \ S : \A m \in Nat \ S : n <= m
  BY LeastOf
<1>2. n # 0 /\ n - 1 \in Nat /\ ~(n <= n - 1)
  BY <1>1
<1>3. n - 1 \in S
  BY <1>1, <1>2
<1>. QED  BY <1>3, <1>1

(* A product grows with its second factor.                                 *)
LEMMA TimesMonotone ==
    ASSUME NEW c \in Nat, NEW x \in Int, NEW y \in Int, x <= y
    PROVE  c * x <= c * y /\ c * x \in Int /\ c * y \in Int
<1>1. c * (y - x) >= 0
  OBVIOUS
<1>2. c * (y - x) = c * y - c * x /\ c * x \in Int /\ c * y \in Int
  OBVIOUS
<1>. QED  BY <1>1, <1>2

LEMMA QuotientMonotone ==
    ASSUME NEW d \in Nat \ {0}, NEW x \in Int, NEW y \in Int, x <= y
    PROVE  x \div d \in Int /\ y \div d \in Int /\ x \div d <= y \div d
<1>. DEFINE q == x \div d
            r == y \div d
<1>1. q \in Int /\ d * q <= x
  OBVIOUS
<1>2. r \in Int /\ y < d * r + d
  OBVIOUS
<1>. HIDE DEF q, r
<1>3. ASSUME r + 1 <= q  PROVE FALSE
  <2>1. d * (r + 1) <= d * q
    BY <1>1, <1>2, <1>3, TimesMonotone
  <2>2. d * (r + 1) = d * r + d
    BY <1>2
  <2>3. d * r \in Int /\ d * q \in Int
    BY <1>1, <1>2
  <2>. QED  BY <1>1, <1>2, <2>1, <2>2, <2>3
<1>4. q <= r
  BY <1>1, <1>2, <1>3
<1>. QED  BY <1>1, <1>2, <1>4 DEF q, r

LEMMA WeekDaysFinite == IsFiniteSet(WeekDays)
<1>1. IsFiniteSet({"MON", "TUE"}) /\ IsFiniteSet({"WED", "THU"}) /\ IsFiniteSet({"FRI", "SAT"})
  <2>1. ASSUME NEW x, NEW y  PROVE IsFiniteSet({x, y})
    <3>1. {x, y} = {x} \cup {y} /\ IsFiniteSet({x})
      BY FS_Singleton
    <3>2. IsFiniteSet({x} \cup {y})
      BY <3>1, FS_AddElement
    <3>. QED  BY <3>1, <3>2
  <2>. QED  BY <2>1
<1>2. IsFiniteSet({"MON", "TUE"} \cup {"WED", "THU"})
  BY <1>1, FS_Union
<1>3. IsFiniteSet(({"MON", "TUE"} \cup {"WED", "THU"}) \cup {"FRI", "SAT"})
  BY <1>1, <1>2, FS_Union
<1>4. IsFiniteSet((({"MON", "TUE"} \cup {"WED", "THU"}) \cup {"FRI", "SAT"}) \cup {"SUN"})
  BY <1>3, FS_AddElement
<1>5. WeekDays = (({"MON", "TUE"} \cup {"WED", "THU"}) \cup {"FRI", "SAT"}) \cup {"SUN"}
  BY DEF WeekDays
<1>. QED  BY <1>4, <1>5

(* What is asked for: a requirement or a search.                           *)
Queries == [days : (SUBSET WeekDays) \ {{}}, mode : Modes, placed : BOOLEAN]

LEMMA QueriesTyped ==
    /\ \A mode \in Modes : Need(mode) \in Queries
    /\ \A mode \in Modes, here \in BOOLEAN : Search(mode, here) \in Queries
BY DaysAssumption DEF Need, Search, SearchDays, Queries, WeekDays, Modes

LEMMA DaysCounted ==
    ASSUME NEW q \in Queries
    PROVE  IsFiniteSet(q.days) /\ Cardinality(q.days) \in Nat \ {0}
<1>1. q.days \in SUBSET WeekDays /\ q.days # {}
  BY DEF Queries
<1>2. IsFiniteSet(q.days)
  BY <1>1, WeekDaysFinite, FS_Subset
<1>. QED  BY <1>1, <1>2, FS_CardinalityType, FS_EmptySet

(* More lessons fit no fewer of the days.                                  *)
LEMMA HitsMonotone ==
    ASSUME NEW q \in Queries, NEW few, NEW many, few \subseteq many
    PROVE  Hits(q, few) \in Nat /\ Hits(q, many) \in Nat /\ Hits(q, few) <= Hits(q, many)
<1>. DEFINE On(lessons) == {d \in q.days : \E a \in lessons :
                               a.day = d /\ (q.mode = "BOTH" \/ a.mode = q.mode)}
<1>1. On(few) \in SUBSET On(many) /\ On(many) \in SUBSET q.days
  OBVIOUS
<1>2. IsFiniteSet(On(many))
  BY <1>1, DaysCounted, FS_Subset
<1>3. IsFiniteSet(On(few)) /\ Cardinality(On(few)) <= Cardinality(On(many))
  BY <1>1, <1>2, FS_Subset
<1>4. Cardinality(On(few)) \in Nat /\ Cardinality(On(many)) \in Nat
  BY <1>2, <1>3, FS_CardinalityType
<1>. QED  BY <1>3, <1>4 DEF Hits

(* The sum before it is rounded, and what it is divided by.                *)
FitSum(t, q) ==
    LET n == Cardinality(q.days)
        r == Most(t.radius, 1)
        near == IF q.placed THEN 200 * n * (r - t.distance) ELSE 0
    IN  300 * r * Hits(q, t.availability) + near

FitParts(t, q) == Cardinality(q.days) * Most(t.radius, 1)

LEMMA FitSumMonotone ==
    ASSUME NEW q \in Queries, NEW a \in Merits, NEW b \in Merits,
           b.availability \subseteq a.availability,
           a.radius = b.radius, a.distance <= b.distance
    PROVE  /\ FitSum(a, q) \in Int /\ FitSum(b, q) \in Int
           /\ FitSum(b, q) <= FitSum(a, q)
<1>. DEFINE n == Cardinality(q.days)
            r == Most(a.radius, 1)
            ha == Hits(q, a.availability)
            hb == Hits(q, b.availability)
            na == IF q.placed THEN 200 * n * (r - a.distance) ELSE 0
            nb == IF q.placed THEN 200 * n * (r - b.distance) ELSE 0
<1>1. /\ a.radius \in Nat /\ a.distance \in Nat /\ b.distance \in Nat
  BY DEF Merits
<1>2. n \in Nat /\ r \in Nat \ {0}
  BY <1>1, DaysCounted DEF Most
<1>3. ha \in Nat /\ hb \in Nat /\ hb <= ha
  BY HitsMonotone
<1>4. FitSum(a, q) = 300 * r * ha + na /\ FitSum(b, q) = 300 * r * hb + nb
  BY DEF FitSum
<1>. HIDE DEF n, r, ha, hb
<1>5. 300 * r \in Nat /\ 200 * n \in Nat
  BY <1>2
<1>6. 300 * r * hb \in Int /\ 300 * r * ha \in Int /\ 300 * r * hb <= 300 * r * ha
  BY <1>3, <1>5, TimesMonotone
<1>7. na \in Int /\ nb \in Int /\ nb <= na
  <2>1. r - a.distance \in Int /\ r - b.distance \in Int /\ r - b.distance <= r - a.distance
    BY <1>1, <1>2
  <2>2. /\ 200 * n * (r - b.distance) <= 200 * n * (r - a.distance)
        /\ 200 * n * (r - a.distance) \in Int /\ 200 * n * (r - b.distance) \in Int
    BY <1>5, <2>1, TimesMonotone
  <2>. QED  BY <2>2
<1>. HIDE DEF na, nb
<1>. QED  BY <1>4, <1>6, <1>7

LEMMA PartsTyped ==
    ASSUME NEW q \in Queries, NEW t \in Merits
    PROVE  FitParts(t, q) \in Nat \ {0}
<1>1. t.radius \in Nat
  BY DEF Merits
<1>2. Cardinality(q.days) \in Nat \ {0} /\ Most(t.radius, 1) \in Nat \ {0}
  BY <1>1, DaysCounted DEF Most
<1>. HIDE DEF Most
<1>3. \A x, y \in Nat \ {0} : x * y \in Nat \ {0}
  OBVIOUS
<1>. QED  BY <1>2, <1>3 DEF FitParts

(* Rounding keeps the order: a tutor who fits as well in every respect     *)
(* does not fit less.                                                      *)
LEMMA FitMonotone ==
    ASSUME NEW q \in Queries, NEW a \in Merits, NEW b \in Merits,
           b.availability \subseteq a.availability,
           a.radius = b.radius, a.distance <= b.distance
    PROVE  Fit(a, q) \in Int /\ Fit(b, q) \in Int /\ Fit(b, q) <= Fit(a, q)
<1>. DEFINE p == FitParts(a, q)
            x == FitSum(b, q)
            y == FitSum(a, q)
<1>1. p \in Nat \ {0} /\ FitParts(b, q) = p
  BY PartsTyped DEF FitParts
<1>2. x \in Int /\ y \in Int /\ x <= y
  BY FitSumMonotone
<1>3. Fit(a, q) = (2 * y + p) \div (2 * p) /\ Fit(b, q) = (2 * x + p) \div (2 * p)
  BY <1>1 DEF Fit, FitSum, FitParts, RoundedTo
<1>. HIDE DEF p, x, y
<1>4. 2 * p \in Nat \ {0} /\ 2 * x + p \in Int /\ 2 * y + p \in Int /\ 2 * x + p <= 2 * y + p
  BY <1>1, <1>2
<1>. QED  BY <1>3, <1>4, QuotientMonotone

LEMMA ExperienceMonotone ==
    ASSUME NEW a \in Merits, NEW b \in Merits
    PROVE  /\ Experience(a) \in 0 .. 100 /\ Experience(b) \in 0 .. 100
           /\ a.experience >= b.experience => Experience(b) <= Experience(a)
<1>1. a.experience \in Nat /\ b.experience \in Nat
  BY DEF Merits
<1>. QED  BY <1>1 DEF Experience, Least

LEMMA ScoreTyped ==
    ASSUME NEW q \in Queries, NEW t \in Merits
    PROVE  Score(t, q) \in Int
<1>1. Fit(t, q) \in Int /\ Experience(t) \in 0 .. 100 /\ t.rating \in Nat
  <2>1. t.distance \in Nat /\ t.rating \in Nat
    BY DEF Merits
  <2>. QED  BY <2>1, FitMonotone, ExperienceMonotone
<1>. QED  BY <1>1 DEF Score

LEMMA BetterScoresNoLess ==
    ASSUME NEW q \in Queries, NEW a \in Merits, NEW b \in Merits, AtLeast(a, b)
    PROVE  Score(a, q) >= Score(b, q)
<1>1. Fit(a, q) \in Int /\ Fit(b, q) \in Int /\ Fit(b, q) <= Fit(a, q)
  BY FitMonotone DEF AtLeast
<1>2. /\ Experience(a) \in 0 .. 100 /\ Experience(b) \in 0 .. 100
      /\ Experience(b) <= Experience(a)
  BY ExperienceMonotone DEF AtLeast
<1>3. /\ a.rating \in Nat /\ b.rating \in Nat /\ a.rating >= b.rating
  BY DEF AtLeast, Merits
<1>. DEFINE ba == IF a.verified THEN 180 ELSE 0
            bb == IF b.verified THEN 180 ELSE 0
            fa == Fit(a, q)
            fb == Fit(b, q)
            ea == Experience(a)
            eb == Experience(b)
            ra == a.rating
            rb == b.rating
<1>4. ba \in {0, 180} /\ bb \in {0, 180} /\ bb <= ba
  BY DEF AtLeast
<1>5. Score(a, q) = 500 + fa + ea + ba + 2 * ra /\ Score(b, q) = 500 + fb + eb + bb + 2 * rb
  BY DEF Score
<1>. HIDE DEF ba, bb, fa, fb, ea, eb, ra, rb
<1>6. 500 + fa + ea + ba + 2 * ra >= 500 + fb + eb + bb + 2 * rb
  <2>1. fa \in Int /\ fb \in Int /\ fb <= fa
    BY <1>1 DEF fa, fb
  <2>2. ea \in 0 .. 100 /\ eb \in 0 .. 100 /\ eb <= ea
    BY <1>2 DEF ea, eb
  <2>3. ra \in Nat /\ rb \in Nat /\ rb <= ra
    BY <1>3 DEF ra, rb
  <2>. QED  BY <1>4, <2>1, <2>2, <2>3
<1>. QED  BY <1>5, <1>6

LEMMA BadgeOutweighs ==
    ASSUME NEW q \in Queries, NEW a \in Merits, NEW b \in Merits,
           a = [b EXCEPT !.verified = TRUE, !.experience = a.experience], ~b.verified
    PROVE  Score(a, q) > Score(b, q)
<1>1. /\ a.availability = b.availability /\ a.radius = b.radius
      /\ a.distance = b.distance /\ a.rating = b.rating /\ a.verified
  BY DEF Merits
<1>2. Fit(a, q) = Fit(b, q) /\ Fit(b, q) \in Int /\ b.rating \in Nat /\ b.distance \in Nat
  <2>1. b.distance \in Nat /\ b.rating \in Nat
    BY DEF Merits
  <2>2. Fit(b, q) \in Int
    BY <2>1, FitMonotone
  <2>. QED  BY <1>1, <2>1, <2>2 DEF Fit
<1>3. Experience(a) \in 0 .. 100 /\ Experience(b) \in 0 .. 100
  BY ExperienceMonotone
<1>. DEFINE fb == Fit(b, q)
            ea == Experience(a)
            eb == Experience(b)
            rb == b.rating
<1>4. Score(a, q) = 500 + fb + ea + 180 + 2 * rb /\ Score(b, q) = 500 + fb + eb + 0 + 2 * rb
  BY <1>1, <1>2 DEF Score
<1>5. fb \in Int /\ ea \in 0 .. 100 /\ eb \in 0 .. 100 /\ rb \in Nat
  BY <1>2, <1>3
<1>. HIDE DEF fb, ea, eb, rb
<1>6. 500 + fb + ea + 180 + 2 * rb > 500 + fb + eb + 0 + 2 * rb
  BY <1>5
<1>. QED  BY <1>4, <1>6

-----------------------------------------------------------------------------
(* Every group has an order, so Ranked is one. *)

(* The sizes of which every group has a member with the least score.       *)
HasLeast(q) ==
    {n \in Nat : \A S \in SUBSET Merits : IsFiniteSet(S) /\ Cardinality(S) = n + 1 =>
        \E t \in S : \A u \in S : Score(u, q) >= Score(t, q)}

LEMMA LeastScore ==
    ASSUME NEW q \in Queries, NEW S \in SUBSET Merits, IsFiniteSet(S), S # {}
    PROVE  \E t \in S : \A u \in S : Score(u, q) >= Score(t, q)
<1>1. 0 \in HasLeast(q)
  <2>. SUFFICES ASSUME NEW T \in SUBSET Merits, IsFiniteSet(T), Cardinality(T) = 0 + 1
                PROVE  \E t \in T : \A u \in T : Score(u, q) >= Score(t, q)
    BY DEF HasLeast
  <2>0. Cardinality(T) = 1
    OBVIOUS
  <2>1. PICK t : T = {t}
    BY <2>0, FS_Singleton
  <2>2. Score(t, q) \in Int
    BY <2>1, ScoreTyped
  <2>. QED  BY <2>1, <2>2
<1>2. ASSUME NEW n \in HasLeast(q)  PROVE n + 1 \in HasLeast(q)
  <2>0. n \in Nat /\ n + 1 \in Nat
    BY DEF HasLeast
  <2>. SUFFICES ASSUME NEW T \in SUBSET Merits, IsFiniteSet(T), Cardinality(T) = n + 1 + 1
                PROVE  \E t \in T : \A u \in T : Score(u, q) >= Score(t, q)
    BY <2>0 DEF HasLeast
  <2>1. PICK x : x \in T
    BY <2>0, FS_EmptySet
  <2>. DEFINE U == T \ {x}
  <2>2. U \in SUBSET Merits /\ IsFiniteSet(U) /\ Cardinality(U) = n + 1
    BY <2>0, <2>1, FS_RemoveElement
  <2>3. PICK y \in U : \A u \in U : Score(u, q) >= Score(y, q)
    BY <1>2, <2>2 DEF HasLeast
  <2>4. \A u \in T : Score(u, q) \in Int
    BY ScoreTyped
  <2>5. x \in T /\ y \in T /\ \A u \in T : u = x \/ u \in U
    BY <2>1
  <2>. HIDE DEF U
  <2>6. CASE Score(x, q) <= Score(y, q)
    BY <2>3, <2>4, <2>5, <2>6
  <2>7. CASE Score(y, q) <= Score(x, q)
    BY <2>3, <2>4, <2>5, <2>7
  <2>. QED  BY <2>4, <2>5, <2>6, <2>7
<1>3. \A n \in Nat : n \in HasLeast(q)
  <2>1. HasLeast(q) \subseteq Nat
    BY DEF HasLeast
  <2>. HIDE DEF HasLeast
  <2>. QED  BY <1>1, <1>2, <2>1, InductionOn
<1>4. Cardinality(S) - 1 \in Nat /\ Cardinality(S) - 1 + 1 = Cardinality(S)
  BY FS_CardinalityType, FS_EmptySet
<1>. QED  BY <1>3, <1>4 DEF HasLeast

(* The sizes of which every group can be put in order.                     *)
HasOrder(q) ==
    {n \in Nat : \A S \in SUBSET Merits : IsFiniteSet(S) /\ Cardinality(S) = n =>
        \E s \in [1 .. n -> S] : Orders(s, S, q)}

LEMMA OrderExists ==
    ASSUME NEW q \in Queries, NEW S \in SUBSET Merits, IsFiniteSet(S)
    PROVE  \E s \in [1 .. Cardinality(S) -> S] : Orders(s, S, q)
<1>1. 0 \in HasOrder(q)
  <2>. SUFFICES ASSUME NEW T \in SUBSET Merits, IsFiniteSet(T), Cardinality(T) = 0
                PROVE  \E s \in [1 .. 0 -> T] : Orders(s, T, q)
    BY DEF HasOrder
  <2>. DEFINE s == [i \in 1 .. 0 |-> {}]
  <2>1. T = {} /\ 1 .. 0 = {}
    BY FS_EmptySet
  <2>2. s \in [1 .. 0 -> T] /\ DOMAIN s = {}
    BY <2>1
  <2>. HIDE DEF s
  <2>3. Orders(s, T, q)
    BY <2>1, <2>2 DEF Orders
  <2>. QED  BY <2>2, <2>3
<1>2. ASSUME NEW n \in HasOrder(q)  PROVE n + 1 \in HasOrder(q)
  <2>0. n \in Nat /\ n + 1 \in Nat
    BY DEF HasOrder
  <2>. SUFFICES ASSUME NEW T \in SUBSET Merits, IsFiniteSet(T), Cardinality(T) = n + 1
                PROVE  \E s \in [1 .. n + 1 -> T] : Orders(s, T, q)
    BY <2>0 DEF HasOrder
  <2>a. T # {}
    BY <2>0, FS_EmptySet
  <2>1. PICK x \in T : \A u \in T : Score(u, q) >= Score(x, q)
    BY <2>a, LeastScore
  <2>. DEFINE U == T \ {x}
  <2>2. U \in SUBSET Merits /\ IsFiniteSet(U) /\ Cardinality(U) = n
    <3>1. IsFiniteSet(U) /\ Cardinality(U) = Cardinality(T) - 1
      BY <2>1, FS_RemoveElement
    <3>. QED  BY <2>0, <3>1
  <2>3. PICK f \in [1 .. n -> U] : Orders(f, U, q)
    BY <1>2, <2>2 DEF HasOrder
  <2>. DEFINE s == [i \in 1 .. n + 1 |-> IF i = n + 1 THEN x ELSE f[i]]
  <2>4. /\ DOMAIN s = 1 .. n + 1 /\ s[n + 1] = x
        /\ \A i \in 1 .. n : s[i] = f[i] /\ i \in 1 .. n + 1
    BY <2>0
  <2>5. \A i \in 1 .. n + 1 : i = n + 1 \/ i \in 1 .. n
    BY <2>0
  <2>6. s \in [1 .. n + 1 -> T]
    BY <2>1, <2>3, <2>5
  <2>. HIDE DEF s
  <2>7. {f[i] : i \in 1 .. n} = U /\ \A i, j \in 1 .. n : i < j => Score(f[i], q) >= Score(f[j], q)
    BY <2>3 DEF Orders
  <2>8. {s[i] : i \in DOMAIN s} = T
    <3>1. ASSUME NEW u \in T  PROVE \E i \in 1 .. n + 1 : s[i] = u
      <4>1. CASE u = x
        BY <2>0, <2>4, <4>1
      <4>2. CASE u \in U
        <5>1. PICK i \in 1 .. n : f[i] = u
          BY <2>7, <4>2
        <5>. QED  BY <2>4, <5>1
      <4>. QED  BY <4>1, <4>2
    <3>. QED  BY <2>4, <2>6, <3>1
  <2>9. ASSUME NEW i \in DOMAIN s, NEW j \in DOMAIN s, i < j
        PROVE  Score(s[i], q) >= Score(s[j], q)
    <3>1. i \in 1 .. n
      BY <2>0, <2>4, <2>9
    <3>2. CASE j = n + 1
      <4>1. s[i] \in T /\ s[j] = x
        BY <2>4, <2>6, <3>2
      <4>. QED  BY <2>1, <4>1
    <3>3. CASE j \in 1 .. n
      BY <2>4, <2>7, <2>9, <3>1, <3>3
    <3>. QED  BY <2>4, <2>5, <3>2, <3>3
  <2>10. Orders(s, T, q)
    BY <2>8, <2>9 DEF Orders
  <2>. QED  BY <2>6, <2>10
<1>3. \A n \in Nat : n \in HasOrder(q)
  <2>1. HasOrder(q) \subseteq Nat
    BY DEF HasOrder
  <2>. HIDE DEF HasOrder
  <2>. QED  BY <1>1, <1>2, <2>1, InductionOn
<1>4. Cardinality(S) \in Nat
  BY FS_CardinalityType
<1>. QED  BY <1>3, <1>4 DEF HasOrder

(* Whoever can be reached is ranked, and no one else.                      *)
Found(S, q) == {t \in S : Reaches(t, q)}

LEMMA RankedOrders ==
    ASSUME NEW q \in Queries, NEW S \in SUBSET Merits, IsFiniteSet(S)
    PROVE  /\ Ranked(S, q) \in [1 .. Cardinality(Found(S, q)) -> Found(S, q)]
           /\ Cardinality(Found(S, q)) \in Nat
           /\ Orders(Ranked(S, q), Found(S, q), q)
<1>. DEFINE F == Found(S, q)
<1>1. F \in SUBSET Merits /\ F \in SUBSET S
  BY DEF Found
<1>2. IsFiniteSet(F) /\ Cardinality(F) \in Nat
  BY <1>1, FS_Subset, FS_CardinalityType
<1>3. Ranked(S, q) = CHOOSE s \in [1 .. Cardinality(F) -> F] : Orders(s, F, q)
  BY DEF Ranked, Found
<1>. HIDE DEF F
<1>4. \E s \in [1 .. Cardinality(F) -> F] : Orders(s, F, q)
  BY <1>1, <1>2, OrderExists
<1>5. Ranked(S, q) \in [1 .. Cardinality(F) -> F] /\ Orders(Ranked(S, q), F, q)
  BY <1>3, <1>4
<1>. QED  BY <1>2, <1>5 DEF F

LEMMA RankingFair == RankingIsFair
<1>. SUFFICES ASSUME NEW mode \in Modes, NEW a \in Tutor, NEW b \in Tutor
              PROVE  LET q == Need(mode)
                     IN  /\ AtLeast(a, b) => Score(a, q) >= Score(b, q)
                         /\ a = [b EXCEPT !.verified = TRUE, !.experience = a.experience]
                               /\ ~b.verified => Score(a, q) > Score(b, q)
                         /\ a \in Notified({a, b}, mode) =>
                               /\ mode # "ONLINE" => a.distance <= a.radius
                               /\ \/ b \in Notified({a, b}, mode)
                                  \/ mode # "ONLINE" /\ b.distance > b.radius
                                  \/ Score(a, q) >= Score(b, q)
  BY DEF RankingIsFair
<1>. DEFINE q == Need(mode)
            S == {a, b}
            ranked == Ranked(S, q)
<1>1. q \in Queries /\ a \in Merits /\ b \in Merits /\ (q.placed <=> mode # "ONLINE")
  BY QueriesTyped, TutorAssumption DEF Need
<1>2. S \in SUBSET Merits /\ IsFiniteSet(S)
  <2>1. {a} \cup {b} = S /\ IsFiniteSet({a} \cup {b})
    BY FS_Singleton, FS_AddElement
  <2>. QED  BY <1>1, <2>1
<1>3. /\ ranked \in [1 .. Cardinality(Found(S, q)) -> Found(S, q)]
      /\ Cardinality(Found(S, q)) \in Nat
      /\ Orders(ranked, Found(S, q), q)
  <2>. HIDE DEF q, S
  <2>. QED  BY <1>1, <1>2, RankedOrders
<1>4. Notified(S, mode) = {ranked[i] : i \in DOMAIN ranked \cap 1 .. TopN}
  BY DEF Notified
<1>5. a \in S /\ b \in S
  OBVIOUS
<1>6. a.distance \in Nat /\ a.radius \in Nat /\ b.distance \in Nat /\ b.radius \in Nat
  BY <1>1 DEF Merits
<1>. HIDE DEF q, S, ranked
<1>7. AtLeast(a, b) => Score(a, q) >= Score(b, q)
  BY <1>1, BetterScoresNoLess
<1>8. ASSUME a = [b EXCEPT !.verified = TRUE, !.experience = a.experience], ~b.verified
      PROVE  Score(a, q) > Score(b, q)
  BY <1>1, <1>8, BadgeOutweighs
<1>9. ASSUME a \in Notified(S, mode)
      PROVE  /\ mode # "ONLINE" => a.distance <= a.radius
             /\ \/ b \in Notified(S, mode)
                \/ mode # "ONLINE" /\ b.distance > b.radius
                \/ Score(a, q) >= Score(b, q)
  <2>1. PICK i \in DOMAIN ranked \cap 1 .. TopN : a = ranked[i]
    BY <1>4, <1>9
  <2>2. a \in Found(S, q)
    BY <1>3, <2>1
  <2>3. mode # "ONLINE" => a.distance <= a.radius
    BY <1>1, <2>2 DEF Found, Reaches, Near
  <2>4. CASE b \notin Found(S, q)
    <3>1. q.placed /\ ~(b.distance <= b.radius)
      BY <1>5, <2>4 DEF Found, Reaches, Near
    <3>. QED  BY <1>1, <1>6, <2>3, <3>1
  <2>5. CASE b \in Found(S, q)
    <3>1. PICK j \in DOMAIN ranked : b = ranked[j]
      BY <1>3, <2>5 DEF Orders
    <3>2. DOMAIN ranked = 1 .. Cardinality(Found(S, q))
      BY <1>3
    <3>3. CASE j \in 1 .. TopN
      BY <1>4, <2>3, <3>1, <3>3
    <3>4. CASE ~(j \in 1 .. TopN)
      <4>1. i < j
        BY <1>3, <2>1, <3>2, <3>4, LimitsAssumption
      <4>2. Score(a, q) >= Score(b, q)
        BY <1>3, <2>1, <3>1, <4>1 DEF Orders
      <4>. QED  BY <2>3, <4>2
    <3>. QED  BY <3>3, <3>4
  <2>. QED  BY <2>4, <2>5
<1>. QED  BY <1>7, <1>8, <1>9 DEF q, S

LEMMA SearchFair == SearchFindsTheMatched
<1>. SUFFICES ASSUME NEW S \in Groups, NEW mode \in Modes, NEW here \in BOOLEAN, NEW R \in Read(S)
              PROVE  LET q == Search(mode, here)
                         found == Ranked(R, q)
                     IN  /\ Cardinality(S) <= MostRead
                               => Notified(S, mode) \subseteq {found[i] : i \in DOMAIN found}
                         /\ \A i, j \in DOMAIN found :
                               i < j => Score(found[i], q) >= Score(found[j], q)
  BY DEF SearchFindsTheMatched
<1>. DEFINE q == Search(mode, here)
            need == Need(mode)
            found == Ranked(R, q)
            ranked == Ranked(S, need)
<1>1. q \in Queries /\ need \in Queries /\ (q.placed => need.placed)
  BY QueriesTyped DEF Search, Need
<1>2. S \in SUBSET Merits /\ IsFiniteSet(S)
  BY GroupsAssumption, TutorAssumption
<1>3. R \in SUBSET S /\ Cardinality(R) = Least(Cardinality(S), MostRead)
  BY DEF Read, RowsRead
<1>4. R \in SUBSET Merits /\ IsFiniteSet(R)
  BY <1>2, <1>3, FS_Subset
<1>5. Notified(S, mode) = {ranked[i] : i \in DOMAIN ranked \cap 1 .. TopN}
  BY DEF Notified
<1>. HIDE DEF q, need
<1>6. Orders(found, Found(R, q), q)
  BY <1>1, <1>4, RankedOrders
<1>7. Orders(ranked, Found(S, need), need)
  BY <1>1, <1>2, RankedOrders
<1>. HIDE DEF found, ranked
<1>8. ASSUME Cardinality(S) <= MostRead
      PROVE  Notified(S, mode) \subseteq {found[i] : i \in DOMAIN found}
  <2>1. Cardinality(R) = Cardinality(S)
    BY <1>2, <1>3, <1>8, LimitsAssumption, FS_CardinalityType DEF Least
  <2>2. R = S
    BY <1>2, <1>3, <2>1, FS_Subset
  <2>3. Found(S, need) \subseteq Found(R, q)
    BY <1>1, <2>2 DEF Found, Reaches
  <2>4. Notified(S, mode) \subseteq Found(S, need)
    BY <1>5, <1>7 DEF Orders
  <2>. QED  BY <1>6, <2>3, <2>4 DEF Orders
<1>9. \A i, j \in DOMAIN found : i < j => Score(found[i], q) >= Score(found[j], q)
  BY <1>6 DEF Orders
<1>. QED  BY <1>8, <1>9 DEF q, found

(* For any tutors, groups of them, weekdays and limits: a listed tutor who *)
(* is as good in every respect never scores less, whatever the rounding, a *)
(* badge outweighs ten years of experience, nobody is notified in place of *)
(* a better tutor who is near enough, and a search finds whom the          *)
(* requirement would notify, best first.                                   *)
THEOREM MatchesStayFair == Spec => []MatchesAreFair
<1>1. MatchesAreFair
  BY RankingFair, SearchFair DEF MatchesAreFair
<1>. QED  BY <1>1, PTL
=============================================================================
