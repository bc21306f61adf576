------------------------- MODULE Engagement_proofs -------------------------
(***************************************************************************)
(* Proofs about Engagement and its views, for any number of requirements,  *)
(* tutors and concurrent requests, with or without faults.                 *)
(***************************************************************************)
EXTENDS Views, TLAPS

USE DEF RequirementSteps, MatchSteps, At

-----------------------------------------------------------------------------
(* How the requests in flight keep their types. *)

(* A request that starts is well typed if its arguments are. *)
LEMMA StartTyped ==
    ASSUME RequestsOK, NEW p \in Requests, NEW step, NEW target,
           NEW saw \in RequirementStatus, NEW had \in BOOLEAN,
           Start(p, step, target, saw, had),
           \/ step \in RequirementSteps /\ target \in Requirements
           \/ step \in MatchSteps /\ target \in Pairs
    PROVE  RequestsOK'
BY DEF RequestsOK, Start, RequestSet

(* A request for a match may go on to any later step for the same match. *)
LEMMA ContinueTyped ==
    ASSUME RequestsOK, NEW p \in Requests, NEW step \in MatchSteps,
           request[p].step \in MatchSteps, Continue(p, step)
    PROVE  RequestsOK'
BY DEF RequestsOK, Continue, RequestSet, RequirementStatus

(* A request may end at any step. *)
LEMMA ReturnTyped ==
    ASSUME RequestsOK, NEW p \in Requests, Return(p)
    PROVE  RequestsOK'
BY DEF RequestsOK, Return, RequestSet, RequirementStatus, Idle

(* The target of a request tells a requirement from a match. *)
LEMMA TargetTyped ==
    ASSUME RequestsOK, NEW p \in Requests
    PROVE  /\ request[p].step \in RequirementSteps => request[p].target \in Requirements
           /\ request[p].step \in MatchSteps => request[p].target \in Pairs
           /\ request[p].saw \in RequirementStatus
           /\ request[p].had \in BOOLEAN
BY DEF RequestsOK, RequestSet

LEMMA PairRequirement ==
    ASSUME NEW m \in Pairs
    PROVE  m[1] \in Requirements /\ m[2] \in Tutors /\ m = <<m[1], m[2]>>
BY DEF Pairs

-----------------------------------------------------------------------------
(* Type correctness. *)

(* The steps of a handler that has been started keep the types. *)
LEMMA ResumeTyped ==
    ASSUME TypeOK, NEW p \in Requests, Resume(p)
    PROVE  TypeOK'
<1> DEFINE m == request[p].target
<1> USE DEF TypeOK
<1>t. /\ request[p].step \in RequirementSteps => m \in Requirements
      /\ request[p].step \in MatchSteps => m \in Pairs /\ m[1] \in Requirements
      /\ request[p].saw \in RequirementStatus
      /\ request[p].had \in BOOLEAN
  BY TargetTyped, PairRequirement
<1>1. CASE PublishWrite(p)
  BY <1>1, <1>t, ReturnTyped DEF PublishWrite, RowsOK, signing, RequirementStatus
<1>2. CASE CancelWrite(p)
  BY <1>2, <1>t, ReturnTyped DEF CancelWrite, RowsOK, signing, RequirementStatus
<1>3. CASE CompleteTx(p)
  BY <1>3, <1>t, ReturnTyped
  DEF CompleteTx, RowsOK, RequirementStatus, AgreementStatus
<1>4. CASE ApplyLookup(p)
  <2>1. RowsOK'
    BY <1>4 DEF ApplyLookup, RowsOK, market, signing
  <2>2. RequestsOK'
    <3>1. CASE Return(p)
      BY <3>1, ReturnTyped
    <3>2. CASE request' = [request EXCEPT ![p].step = "applyTx",
                                          ![p].had = matchStatus[m] # "none"]
      <4> DEFINE b == matchStatus[m] # "none"
                 local == [request[p] EXCEPT !.step = "applyTx", !.had = b]
      <4>1. b \in BOOLEAN
        OBVIOUS
      <4>2. request[p] \in RequestSet /\ request[p].step \in MatchSteps
        BY <1>4 DEF RequestsOK, ApplyLookup, At, MatchSteps
      <4> HIDE DEF b
      <4>3. /\ local \in RequestSet /\ local.step = "applyTx" /\ local.target = m
            /\ m \in Pairs
        BY <4>1, <4>2, <1>t DEF RequestSet, MatchSteps
      <4>4. request' = [request EXCEPT ![p] = local]
        BY <3>2 DEF b, RequestsOK
      <4> HIDE DEF local, m
      <4> QED
        BY <4>3, <4>4 DEF RequestsOK, RequirementSteps
    <3> QED BY <3>1, <3>2, <1>4 DEF ApplyLookup
  <2> QED BY <2>1, <2>2
<1>5. CASE ApplyTx(p)
  BY <1>5, <1>t, ReturnTyped
  DEF ApplyTx, RowsOK, market, signing, RequirementStatus, MatchStatus
<1>6. CASE InviteCreate(p)
  BY <1>6, <1>t, ReturnTyped DEF InviteCreate, RowsOK, signing, MatchStatus
<1>7. CASE ShortlistTx(p)
  BY <1>7, <1>t, ReturnTyped
  DEF ShortlistTx, RowsOK, signing, RequirementStatus, MatchStatus
<1>8. CASE WithdrawWrite(p)
  BY <1>8, <1>t, ReturnTyped DEF WithdrawWrite, RowsOK, signing, MatchStatus
<1>9. CASE GenerateCreate(p)
  BY <1>9, <1>t, ReturnTyped DEF GenerateCreate, RowsOK, market, AgreementStatus
<1>10. CASE SignWriteStudent(p)
  BY <1>10, <1>t, ContinueTyped DEF SignWriteStudent, RowsOK, market, AgreementStatus
<1>11. CASE SignWriteTutor(p)
  BY <1>11, <1>t, ContinueTyped DEF SignWriteTutor, RowsOK, market, AgreementStatus
<1>12. CASE SignRefresh(p)
  BY <1>12, ReturnTyped, ContinueTyped DEF SignRefresh, RowsOK, market, signing
<1>13. CASE ActivateRead(p)
  BY <1>13, ReturnTyped, ContinueTyped DEF ActivateRead, RowsOK, market, signing
<1>14. CASE ActivateTx(p)
  BY <1>14, <1>t, ContinueTyped
  DEF ActivateTx, RowsOK, RequirementStatus, MatchStatus, AgreementStatus
<1>15. CASE CommissionRead(p)
  BY <1>15, ReturnTyped, ContinueTyped DEF CommissionRead, RowsOK, market, signing
<1>16. CASE CommissionCreate(p)
  BY <1>16, <1>t, ReturnTyped DEF CommissionCreate, RowsOK, market, signing
<1> QED
  BY <1>1, <1>2, <1>3, <1>4, <1>5, <1>6, <1>7, <1>8, <1>9, <1>10, <1>11,
     <1>12, <1>13, <1>14, <1>15, <1>16 DEF Resume

(* A request that arrives only reads: the rows stay as they are, and it    *)
(* starts at the step its handler is at when the first read is done.       *)
LEMMA ArriveReads ==
    ASSUME TypeOK, NEW p \in Requests, Arrive(p)
    PROVE  /\ UNCHANGED <<market, signing, commissions>>
           /\ \/ \E step \in RequirementSteps, r \in Requirements :
                    Start(p, step, r, "none", FALSE)
              \/ \E step \in MatchSteps, m \in Pairs,
                    saw \in RequirementStatus, had \in BOOLEAN :
                    Start(p, step, m, saw, had)
<1> USE DEF TypeOK, RowsOK
<1>0. "none" \in RequirementStatus
  BY DEF RequirementStatus
<1>1. ASSUME NEW r \in Requirements, PublishRead(p, r) \/ CancelRead(p, r)
      PROVE  /\ UNCHANGED <<market, signing, commissions>>
             /\ \E step \in RequirementSteps : Start(p, step, r, "none", FALSE)
  BY <1>1 DEF PublishRead, CancelRead
<1>2. ASSUME NEW m \in Pairs,
             \/ CompleteRead(p, m) \/ ApplyRead(p, m) \/ InviteRead(p, m)
             \/ ShortlistRead(p, m) \/ WithdrawRead(p, m) \/ GenerateRead(p, m)
             \/ SignReadStuck(p, m) \/ SignReadStudent(p, m) \/ SignReadTutor(p, m)
             \/ RegenerateCommission(p, m)
      PROVE  /\ UNCHANGED <<market, signing, commissions>>
             /\ \E step \in MatchSteps, saw \in RequirementStatus, had \in BOOLEAN :
                   Start(p, step, m, saw, had)
  <2>1. m[1] \in Requirements
    BY PairRequirement
  <2>2. CASE ApplyRead(p, m)
    BY <2>1, <2>2 DEF ApplyRead
  <2>3. CASE ShortlistRead(p, m)
    BY <2>1, <2>3 DEF ShortlistRead
  <2>4. CASE SignReadTutor(p, m)
    <3> DEFINE had == m \in studentSigned
    <3>1. had \in BOOLEAN
      OBVIOUS
    <3>2. Start(p, "signTutor", m, "none", had) /\ UNCHANGED <<market, signing, commissions>>
      BY <2>4 DEF SignReadTutor
    <3> HIDE DEF had
    <3> QED BY <1>0, <3>1, <3>2
  <2>5. CASE CompleteRead(p, m) \/ InviteRead(p, m) \/ WithdrawRead(p, m)
             \/ GenerateRead(p, m)
    BY <1>0, <2>5 DEF CompleteRead, InviteRead, WithdrawRead, GenerateRead
  <2>6. CASE SignReadStuck(p, m) \/ SignReadStudent(p, m) \/ RegenerateCommission(p, m)
    BY <1>0, <2>6 DEF SignReadStuck, SignReadStudent, RegenerateCommission
  <2> QED BY <1>2, <2>2, <2>3, <2>4, <2>5, <2>6
<1> QED BY <1>0, <1>1, <1>2 DEF Arrive

LEMMA TypeInit == Init => TypeOK
BY DEF Init, TypeOK, RowsOK, RequestsOK, RequestSet, Idle, RequirementStatus,
       MatchStatus, AgreementStatus

LEMMA TypeNext == TypeOK /\ [Next]_vars => TypeOK'
<1> SUFFICES ASSUME TypeOK, [Next]_vars
             PROVE  TypeOK'
  OBVIOUS
<1>1. ASSUME NEW r \in Requirements, CreateRequirement(r)
      PROVE  TypeOK'
  BY <1>1 DEF CreateRequirement, TypeOK, RowsOK, RequestsOK, signing, RequirementStatus
<1>2. ASSUME NEW p \in Requests, NEW m \in Pairs, Reject(p, m)
      PROVE  TypeOK'
  BY <1>2 DEF Reject, TypeOK, RowsOK, RequestsOK, signing, MatchStatus
<1>3. ASSUME NEW p \in Requests, Arrive(p)
      PROVE  TypeOK'
  <2>1. UNCHANGED <<market, signing, commissions>>
    BY <1>3, ArriveReads
  <2>2. RowsOK'
    BY <2>1 DEF TypeOK, RowsOK, market, signing
  <2>3. RequestsOK'
    <3>1. CASE \E step \in RequirementSteps, r \in Requirements :
                 Start(p, step, r, "none", FALSE)
      BY <3>1, StartTyped DEF TypeOK, RequirementStatus
    <3>2. CASE \E step \in MatchSteps, m \in Pairs,
                 saw \in RequirementStatus, had \in BOOLEAN :
                 Start(p, step, m, saw, had)
      BY <3>2, StartTyped DEF TypeOK
    <3> QED BY <1>3, <3>1, <3>2, ArriveReads
  <2> QED BY <2>2, <2>3 DEF TypeOK
<1>4. ASSUME NEW p \in Requests, Resume(p)
      PROVE  TypeOK'
  BY <1>4, ResumeTyped
<1>5. ASSUME NEW p \in Requests, Die(p)
      PROVE  TypeOK'
  BY <1>5, ReturnTyped DEF Die, TypeOK, RowsOK, market, signing
<1>6. CASE UNCHANGED vars
  BY <1>6 DEF vars, market, signing, TypeOK, RowsOK, RequestsOK
<1> QED BY <1>1, <1>2, <1>3, <1>4, <1>5, <1>6 DEF Next

(* In every state that the workflow reaches, each column holds a value of  *)
(* its enum and each request in flight works on a row of its kind.         *)
THEOREM TypeCorrect == Spec => []TypeOK
BY TypeInit, TypeNext, PTL DEF Spec

-----------------------------------------------------------------------------
(* The inductive invariant. *)

(* What happens to the rows of agreements never takes anything back.       *)
Kept == /\ studentSigned \subseteq studentSigned'
        /\ tutorSigned \subseteq tutorSigned'
        /\ pdfs \subseteq pdfs'
        /\ \A m \in Pairs : agrStatus[m] # "none" => agrStatus'[m] # "none"

(* So what the other requests in flight rely on is still there. *)
LEMMA OthersConsistent ==
    ASSUME Consistent, Kept, NEW p \in Requests,
           \A q \in Requests \ {p} : request'[q] = request[q],
           RequestConsistent(p)'
    PROVE  \A q \in Requests : RequestConsistent(q)'
BY TargetTyped DEF Consistent, TypeOK, Kept, RequestConsistent

LEMMA InitConsistent == Init => Consistent
BY TypeInit DEF Init, Consistent, RowsConsistent, RequestConsistent, Idle

(* An arriving request relies only on rows it has just read. *)
LEMMA ArriveConsistent ==
    ASSUME Consistent, TypeOK', NEW p \in Requests, Arrive(p)
    PROVE  Consistent'
<1> USE DEF Consistent
<1>1. UNCHANGED <<market, signing, commissions>>
  BY ArriveReads
<1>2. RowsConsistent'
  BY <1>1 DEF RowsConsistent, market, signing
<1>3. Kept
  BY <1>1 DEF Kept, signing
<1>4. \A q \in Requests \ {p} : request'[q] = request[q]
  BY ArriveReads DEF Start, TypeOK, RequestsOK
<1>5. RequestConsistent(p)'
  <2>1. ASSUME NEW r \in Requirements, PublishRead(p, r) \/ CancelRead(p, r)
        PROVE  RequestConsistent(p)'
    BY <2>1 DEF PublishRead, CancelRead, Start, RequestConsistent, TypeOK, RequestsOK
  <2>2. ASSUME NEW m \in Pairs,
               \/ ApplyRead(p, m) \/ InviteRead(p, m) \/ ShortlistRead(p, m)
               \/ WithdrawRead(p, m) \/ GenerateRead(p, m)
               \/ SignReadStuck(p, m) \/ RegenerateCommission(p, m)
        PROVE  RequestConsistent(p)'
    BY <2>2 DEF ApplyRead, InviteRead, ShortlistRead, WithdrawRead, GenerateRead,
                SignReadStuck, RegenerateCommission, Start, RequestConsistent,
                TypeOK, RequestsOK
  <2>3. ASSUME NEW m \in Pairs, CompleteRead(p, m)
        PROVE  RequestConsistent(p)'
    BY <2>3 DEF CompleteRead, Start, RequestConsistent, RowsConsistent, TypeOK,
                RequestsOK, market, signing
  <2>4. ASSUME NEW m \in Pairs, SignReadStudent(p, m)
        PROVE  RequestConsistent(p)'
    BY <2>4 DEF SignReadStudent, Start, RequestConsistent, TypeOK, RequestsOK, signing
  <2>5. ASSUME NEW m \in Pairs, SignReadTutor(p, m)
        PROVE  RequestConsistent(p)'
    <3>1. m \in studentSigned
      BY <2>5 DEF SignReadTutor, RowsConsistent
    <3>2. Start(p, "signTutor", m, "none", TRUE) /\ studentSigned' = studentSigned
      BY <2>5, <3>1 DEF SignReadTutor, signing
    <3> QED BY <3>1, <3>2 DEF Start, RequestConsistent, TypeOK, RequestsOK
  <2> QED BY <2>1, <2>2, <2>3, <2>4, <2>5 DEF Arrive
<1> QED BY <1>2, <1>3, <1>4, <1>5, OthersConsistent

(* A step that changes no agreement row and ends the request only has to   *)
(* keep the match and requirement rows backed.                             *)
LEMMA ReturnConsistent ==
    ASSUME Consistent, TypeOK', NEW p \in Requests, Return(p), Kept, RowsConsistent'
    PROVE  Consistent'
<1>1. RequestConsistent(p)' /\ \A q \in Requests \ {p} : request'[q] = request[q]
  BY DEF Return, Consistent, TypeOK, RequestsOK, RequestConsistent, Idle
<1> QED BY <1>1, OthersConsistent DEF Consistent

LEMMA ContinueConsistent ==
    ASSUME Consistent, TypeOK', NEW p \in Requests, NEW step, Continue(p, step),
           step \in {"signed", "activate", "commission"}, Kept, RowsConsistent'
    PROVE  Consistent'
<1>1. RequestConsistent(p)' /\ \A q \in Requests \ {p} : request'[q] = request[q]
  BY DEF Continue, Consistent, TypeOK, RequestsOK, RequestConsistent
<1> QED BY <1>1, OthersConsistent DEF Consistent

LEMMA ResumeConsistent ==
    ASSUME Consistent, TypeOK', NEW p \in Requests, Resume(p)
    PROVE  Consistent'
<1> DEFINE m == request[p].target
<1> USE DEF Consistent, TypeOK, RowsOK, Kept, signing
<1>t. /\ request[p].step \in RequirementSteps => m \in Requirements
      /\ request[p].step \in MatchSteps => m \in Pairs /\ m[1] \in Requirements
  BY TargetTyped, PairRequirement
<1>c. RequestConsistent(p)
  OBVIOUS
<1>1. CASE PublishWrite(p) \/ CancelWrite(p)
  <2>1. Return(p) /\ Kept
    BY <1>1 DEF PublishWrite, CancelWrite
  <2>2. RowsConsistent'
    BY <1>1, <1>t DEF PublishWrite, CancelWrite, RowsConsistent
  <2> QED BY <2>1, <2>2, ReturnConsistent
<1>2. CASE CompleteTx(p)
  <2>1. Return(p) /\ Kept
    BY <1>2, <1>t DEF CompleteTx
  <2>2. m \in pdfs
    BY <1>2, <1>c DEF CompleteTx, RequestConsistent
  <2>3. RowsConsistent'
    BY <1>2, <1>t, <2>2 DEF CompleteTx, RowsConsistent
  <2> QED BY <2>1, <2>3, ReturnConsistent
<1>3. CASE ApplyLookup(p)
  <2>1. RowsConsistent' /\ Kept
    BY <1>3 DEF ApplyLookup, RowsConsistent, market
  <2>2. CASE Return(p)
    BY <2>1, <2>2, ReturnConsistent
  <2>3. CASE request' = [request EXCEPT ![p].step = "applyTx",
                                        ![p].had = matchStatus[m] # "none"]
    <3>1. RequestConsistent(p)' /\ \A q \in Requests \ {p} : request'[q] = request[q]
      BY <2>3 DEF RequestsOK, RequestSet, RequestConsistent
    <3> QED BY <2>1, <3>1, OthersConsistent
  <2> QED BY <1>3, <2>2, <2>3 DEF ApplyLookup
<1>4. CASE ApplyTx(p) \/ InviteCreate(p) \/ ShortlistTx(p) \/ WithdrawWrite(p)
  <2>1. Return(p) /\ Kept
    BY <1>4 DEF ApplyTx, InviteCreate, ShortlistTx, WithdrawWrite
  <2>2. RowsConsistent'
    BY <1>4, <1>t DEF ApplyTx, InviteCreate, ShortlistTx, WithdrawWrite,
                      RowsConsistent, market
  <2> QED BY <2>1, <2>2, ReturnConsistent
<1>5. CASE GenerateCreate(p)
  <2>1. Return(p) /\ Kept
    BY <1>5, <1>t DEF GenerateCreate
  <2>2. RowsConsistent'
    BY <1>5, <1>t DEF GenerateCreate, RowsConsistent, market
  <2> QED BY <2>1, <2>2, ReturnConsistent
<1>6. CASE SignWriteStudent(p)
  <2>1. Continue(p, "signed") /\ Kept
    BY <1>6, <1>t DEF SignWriteStudent
  <2>2. RowsConsistent'
    BY <1>6, <1>t DEF SignWriteStudent, RowsConsistent, market
  <2> QED BY <2>1, <2>2, ContinueConsistent
<1>7. CASE SignWriteTutor(p)
  <2>1. m \in studentSigned /\ request[p].had
    BY <1>7, <1>c DEF SignWriteTutor, RequestConsistent
  <2>2. Continue(p, "signed") /\ Kept
    BY <1>7, <1>t, <2>1 DEF SignWriteTutor
  <2>3. RowsConsistent'
    BY <1>7, <1>t, <2>1 DEF SignWriteTutor, RowsConsistent, market
  <2> QED BY <2>2, <2>3, ContinueConsistent
<1>8. CASE SignRefresh(p)
  <2>1. RowsConsistent' /\ Kept
    BY <1>8 DEF SignRefresh, RowsConsistent, market
  <2> QED BY <1>8, <2>1, ReturnConsistent, ContinueConsistent DEF SignRefresh
<1>9. CASE ActivateRead(p)
  <2>1. RowsConsistent' /\ Kept
    BY <1>9 DEF ActivateRead, RowsConsistent, market
  <2>2. CASE Return(p)
    BY <2>1, <2>2, ReturnConsistent
  <2>3. CASE Continue(p, "commission")
    BY <2>1, <2>3, ContinueConsistent
  <2>4. CASE m \in tutorSigned /\ Continue(p, "activateTx")
    <3>1. RequestConsistent(p)' /\ \A q \in Requests \ {p} : request'[q] = request[q]
      BY <1>9, <2>4, <2>1 DEF ActivateRead, Continue, RequestsOK, RequestConsistent
    <3> QED BY <2>1, <3>1, OthersConsistent
  <2> QED BY <1>9, <2>2, <2>3, <2>4 DEF ActivateRead, BothSigned
<1>10. CASE ActivateTx(p)
  <2>1. m \in tutorSigned
    BY <1>10, <1>c DEF ActivateTx, RequestConsistent
  <2>2. Continue(p, "commission") /\ Kept
    BY <1>10, <1>t DEF ActivateTx
  <2>3. RowsConsistent'
    BY <1>10, <1>t, <2>1 DEF ActivateTx, RowsConsistent
  <2> QED BY <2>2, <2>3, ContinueConsistent
<1>11. CASE CommissionRead(p)
  <2>1. RowsConsistent' /\ Kept
    BY <1>11 DEF CommissionRead, RowsConsistent, market
  <2>2. CASE Return(p)
    BY <2>1, <2>2, ReturnConsistent
  <2>3. CASE agrStatus[m] \in {"ACTIVE", "COMPLETED"} /\ Continue(p, "commissionCreate")
    <3>1. m \in pdfs
      BY <1>11, <1>t, <2>3 DEF CommissionRead, RowsConsistent
    <3>2. RequestConsistent(p)' /\ \A q \in Requests \ {p} : request'[q] = request[q]
      BY <1>11, <2>3, <3>1, <2>1 DEF CommissionRead, Continue, RequestsOK, RequestConsistent
    <3> QED BY <2>1, <3>2, OthersConsistent
  <2> QED BY <1>11, <2>2, <2>3 DEF CommissionRead
<1>12. CASE CommissionCreate(p)
  <2>1. Return(p) /\ Kept
    BY <1>12 DEF CommissionCreate
  <2>2. m \in pdfs
    BY <1>12, <1>c DEF CommissionCreate, RequestConsistent
  <2>3. RowsConsistent'
    BY <1>12, <1>t, <2>2 DEF CommissionCreate, RowsConsistent, market
  <2> QED BY <2>1, <2>3, ReturnConsistent
<1> QED
  BY <1>1, <1>2, <1>3, <1>4, <1>5, <1>6, <1>7, <1>8, <1>9, <1>10, <1>11, <1>12
  DEF Resume

LEMMA NextConsistent == Consistent /\ [Next]_vars => Consistent'
<1> SUFFICES ASSUME Consistent, [Next]_vars
             PROVE  Consistent'
  OBVIOUS
<1>t. TypeOK'
  BY TypeNext DEF Consistent
<1>1. ASSUME NEW r \in Requirements, CreateRequirement(r)
      PROVE  Consistent'
  BY <1>t, <1>1 DEF CreateRequirement, Consistent, TypeOK, RowsOK, RowsConsistent,
                    RequestConsistent, signing
<1>2. ASSUME NEW p \in Requests, NEW m \in Pairs, Reject(p, m)
      PROVE  Consistent'
  BY <1>t, <1>2 DEF Reject, Consistent, TypeOK, RowsOK, RowsConsistent,
                    RequestConsistent, signing
<1>3. ASSUME NEW p \in Requests, Arrive(p)
      PROVE  Consistent'
  BY <1>t, <1>3, ArriveConsistent
<1>4. ASSUME NEW p \in Requests, Resume(p)
      PROVE  Consistent'
  BY <1>t, <1>4, ResumeConsistent
<1>5. ASSUME NEW p \in Requests, Die(p)
      PROVE  Consistent'
  <2>1. Return(p) /\ Kept /\ RowsConsistent'
    BY <1>5 DEF Die, Kept, Consistent, RowsConsistent, market, signing
  <2> QED BY <1>t, <2>1, ReturnConsistent
<1>6. CASE UNCHANGED vars
  BY <1>t, <1>6 DEF vars, market, signing, Consistent, RowsConsistent, RequestConsistent
<1> QED BY <1>1, <1>2, <1>3, <1>4, <1>5, <1>6 DEF Next

(* The inductive invariant holds in every state. *)
THEOREM AlwaysConsistent == Spec => []Consistent
BY InitConsistent, NextConsistent, PTL DEF Spec

(* Both signatures and a stored PDF are behind every agreement in force.   *)
THEOREM AlwaysSealed == Spec => []ActiveIsSealed
<1>1. Consistent => ActiveIsSealed
  BY DEF Consistent, RowsConsistent, ActiveIsSealed, Sealed
<1> QED BY <1>1, AlwaysConsistent, PTL

(* The tutor's signature never comes before the student's.                 *)
THEOREM AlwaysStudentFirst == Spec => []StudentSignsFirst
<1>1. Consistent => StudentSignsFirst
  BY DEF Consistent, TypeOK, RowsOK, RowsConsistent, RequestConsistent, StudentSignsFirst
<1> QED BY <1>1, AlwaysConsistent, PTL

(* No match is MATCHED and no requirement ACTIVE or COMPLETED without a    *)
(* signed and stored agreement.                                            *)
THEOREM AlwaysBacked == Spec => []EngagementIsBacked
<1>1. ASSUME Consistent PROVE EngagementIsBacked
  <2>1. \A m \in pdfs : m \in Pairs /\ m \in Sealed
    BY <1>1 DEF Consistent, TypeOK, RowsOK, RowsConsistent, Sealed
  <2>2. ASSUME NEW r \in Requirements, reqStatus[r] \in {"ACTIVE", "COMPLETED"}
        PROVE  \E t \in Tutors : <<r, t>> \in Sealed
    <3>1. PICK m \in pdfs : m[1] = r
      BY <1>1, <2>2 DEF Consistent, RowsConsistent
    <3> QED BY <2>1, <3>1, PairRequirement
  <2> QED BY <1>1, <2>1, <2>2 DEF Consistent, RowsConsistent, EngagementIsBacked
<1> QED BY <1>1, AlwaysConsistent, PTL

-----------------------------------------------------------------------------
(* The agreement life cycle.                                               *)

LEMMA StageInit == Init => C!Init
BY DEF Init, C!Init, StageOf

(* Moving one agreement to its next stage, or leaving it where it is, is a *)
(* step of the Contract.                                                   *)
LEMMA StageStep ==
    ASSUME NEW m \in Pairs, commissions' = commissions,
           \A n \in Pairs \ {m} : StageOf(n)' = StageOf(n),
           \/ StageOf(m)' = StageOf(m)
           \/ StageOf(m) = "none"          /\ StageOf(m)' = "offered"
           \/ StageOf(m) = "offered"       /\ StageOf(m)' = "studentSigned"
           \/ StageOf(m) = "studentSigned" /\ StageOf(m)' = "signed"
           \/ StageOf(m) = "signed"        /\ StageOf(m)' = "sealed"
    PROVE  [C!Next]_(C!vars)
<1> DEFINE stages == [n \in Pairs |-> StageOf(n)]
<1>1. stages' = [stages EXCEPT ![m] = StageOf(m)']
  OBVIOUS
<1>2. stages[m] = StageOf(m)
  OBVIOUS
<1>3. CASE StageOf(m)' = StageOf(m)
  BY <1>1, <1>2, <1>3 DEF C!vars
<1>4. CASE StageOf(m) = "none" /\ StageOf(m)' = "offered"
  BY <1>1, <1>2, <1>4 DEF C!Next, C!Offer, C!Advance
<1>5. CASE StageOf(m) = "offered" /\ StageOf(m)' = "studentSigned"
  BY <1>1, <1>2, <1>5 DEF C!Next, C!StudentSign, C!Advance
<1>6. CASE StageOf(m) = "studentSigned" /\ StageOf(m)' = "signed"
  BY <1>1, <1>2, <1>6 DEF C!Next, C!TutorSign, C!Advance
<1>7. CASE StageOf(m) = "signed" /\ StageOf(m)' = "sealed"
  BY <1>1, <1>2, <1>7 DEF C!Next, C!Seal, C!Advance
<1> QED BY <1>3, <1>4, <1>5, <1>6, <1>7

(* A step that changes no agreement and no commission is a stutter. *)
LEMMA StageStutter ==
    ASSUME UNCHANGED <<signing, commissions>>
    PROVE  UNCHANGED C!vars
BY DEF signing, StageOf, C!vars

LEMMA ResumeRefines ==
    ASSUME Consistent, TypeOK', NEW p \in Requests, Resume(p)
    PROVE  [C!Next]_(C!vars)
<1>m. PICK m : m = request[p].target
  OBVIOUS
<1> USE <1>m DEF Consistent, TypeOK, RowsOK
<1>t. request[p].step \in MatchSteps => m \in Pairs
  BY TargetTyped
<1>c. RequestConsistent(p)
  OBVIOUS
<1>1. CASE PublishWrite(p) \/ CancelWrite(p) \/ ApplyLookup(p) \/ ApplyTx(p)
           \/ InviteCreate(p) \/ ShortlistTx(p) \/ WithdrawWrite(p)
           \/ SignRefresh(p) \/ ActivateRead(p) \/ CommissionRead(p)
  BY <1>1, StageStutter
  DEF PublishWrite, CancelWrite, ApplyLookup, ApplyTx, InviteCreate, ShortlistTx,
      WithdrawWrite, SignRefresh, ActivateRead, CommissionRead
<1>2. CASE CompleteTx(p)
  <2>1. m \in Pairs /\ m \in pdfs
    BY <1>2, <1>t, <1>c DEF CompleteTx, RequestConsistent
  <2>2. \A n \in Pairs : StageOf(n)' = StageOf(n)
    BY <1>2, <2>1 DEF CompleteTx, StageOf, RowsConsistent
  <2> QED BY <1>2, <2>1, <2>2, StageStep DEF CompleteTx
<1>3. CASE GenerateCreate(p)
  <2>1. m \in Pairs /\ commissions' = commissions
    BY <1>3, <1>t DEF GenerateCreate
  <2>2. \A n \in Pairs \ {m} : StageOf(n)' = StageOf(n)
    BY <1>3, <2>1 DEF GenerateCreate, StageOf
  <2>3. StageOf(m)' = StageOf(m) \/ (StageOf(m) = "none" /\ StageOf(m)' = "offered")
    BY <1>3, <2>1 DEF GenerateCreate, StageOf, RowsConsistent
  <2> QED BY <2>1, <2>2, <2>3, StageStep
<1>4. CASE SignWriteStudent(p)
  <2>1. m \in Pairs /\ commissions' = commissions /\ agrStatus[m] # "none"
    BY <1>4, <1>t, <1>c DEF SignWriteStudent, RequestConsistent
  <2>2. \A n \in Pairs \ {m} : StageOf(n)' = StageOf(n)
    BY <1>4, <2>1 DEF SignWriteStudent, StageOf
  <2>3. \/ StageOf(m)' = StageOf(m)
        \/ StageOf(m) = "offered" /\ StageOf(m)' = "studentSigned"
    BY <1>4, <2>1 DEF SignWriteStudent, StageOf, RowsConsistent
  <2> QED BY <2>1, <2>2, <2>3, StageStep
<1>5. CASE SignWriteTutor(p)
  <2>1. m \in Pairs /\ commissions' = commissions /\ m \in studentSigned
    BY <1>5, <1>t, <1>c DEF SignWriteTutor, RequestConsistent
  <2>2. \A n \in Pairs \ {m} : StageOf(n)' = StageOf(n)
    BY <1>5, <2>1 DEF SignWriteTutor, StageOf
  <2>3. \/ StageOf(m)' = StageOf(m)
        \/ StageOf(m) = "studentSigned" /\ StageOf(m)' = "signed"
    BY <1>5, <2>1 DEF SignWriteTutor, StageOf, RowsConsistent
  <2> QED BY <2>1, <2>2, <2>3, StageStep
<1>6. CASE ActivateTx(p)
  <2>1. m \in Pairs /\ commissions' = commissions /\ m \in tutorSigned
    BY <1>6, <1>t, <1>c DEF ActivateTx, RequestConsistent
  <2>2. \A n \in Pairs \ {m} : StageOf(n)' = StageOf(n)
    BY <1>6, <2>1 DEF ActivateTx, StageOf
  <2>3. \/ StageOf(m)' = StageOf(m)
        \/ StageOf(m) = "signed" /\ StageOf(m)' = "sealed"
    BY <1>6, <2>1 DEF ActivateTx, StageOf, RowsConsistent
  <2> QED BY <2>1, <2>2, <2>3, StageStep
<1>7. CASE CommissionCreate(p)
  <2>1. m \in Pairs /\ UNCHANGED signing
    BY <1>7, <1>t DEF CommissionCreate
  <2>2. UNCHANGED [n \in Pairs |-> StageOf(n)]
    BY <2>1 DEF signing, StageOf
  <2>3. StageOf(m) = "sealed"
    BY <1>7, <1>c, <2>1 DEF CommissionCreate, RequestConsistent, RowsConsistent, StageOf
  <2>4. CASE Charged(m)
    BY <1>7, <2>2, <2>4 DEF CommissionCreate, C!vars
  <2>5. CASE ~Charged(m)
    <3>1. C!Bill(m)
      BY <1>7, <2>1, <2>2, <2>3, <2>5 DEF CommissionCreate, Charged, C!Bill
    <3> QED BY <2>1, <3>1 DEF C!Next
  <2> QED BY <2>4, <2>5
<1> QED BY <1>1, <1>2, <1>3, <1>4, <1>5, <1>6, <1>7 DEF Resume

(* Whatever requests interleave and die, every agreement goes through the  *)
(* stages of the Contract, one at a time and never backwards, and is       *)
(* billed only when sealed: Engagement implements Contract.                *)
THEOREM ImplementsContract == Spec => ContractSpec
<1>1. Init => C!Init
  BY StageInit
<1>2. Consistent /\ [Next]_vars => [C!Next]_(C!vars)
  <2> SUFFICES ASSUME Consistent, [Next]_vars
               PROVE  [C!Next]_(C!vars)
    OBVIOUS
  <2>t. TypeOK'
    BY TypeNext DEF Consistent
  <2>1. CASE \E r \in Requirements : CreateRequirement(r)
    BY <2>1, StageStutter DEF CreateRequirement
  <2>2. CASE \E p \in Requests, n \in Pairs : Reject(p, n)
    BY <2>2, StageStutter DEF Reject
  <2>3. CASE \E p \in Requests : Arrive(p)
    BY <2>3, StageStutter, ArriveReads DEF Consistent
  <2>4. CASE \E p \in Requests : Resume(p)
    BY <2>t, <2>4, ResumeRefines
  <2>5. CASE \E p \in Requests : Die(p)
    BY <2>5, StageStutter DEF Die
  <2>6. CASE UNCHANGED vars
    BY <2>6, StageStutter DEF vars
  <2> QED BY <2>1, <2>2, <2>3, <2>4, <2>5, <2>6 DEF Next
<1> QED BY <1>1, <1>2, AlwaysConsistent, PTL DEF Spec, ContractSpec, C!Spec

-----------------------------------------------------------------------------
(* When requests do not overlap: the views. *)

(* Nothing but the requests p, which moves, is in flight.                  *)
OthersIdle(p) == \A q \in Requests \ {p} : request[q].step = "idle"

OnlyOne == \A p, q \in InFlight : p = q

SettledNow == OnlyOne /\ (\A p \in Requests : Knows(p)) /\ TablesAgree

(* In force, and so ACTIVE or COMPLETED and charged for.                   *)
InForce(m) == agrStatus[m] \in {"ACTIVE", "COMPLETED"}

AllCharged ==
    \A m \in Pairs :
        /\ InForce(m) => /\ reqStatus[m[1]] \in {"ACTIVE", "COMPLETED"}
                         /\ Faults \/ Charged(m)
        /\ agrStatus[m] = "ACTIVE" => matchStatus[m] \in {"MATCHED", "REJECTED"}
        /\ matchStatus[m] # "none" => reqStatus[m[1]] # "none"

LEMMA MovesAlone ==
    ASSUME OnlyOne, OnlyOne', NEW p \in Requests,
           \A q \in Requests \ {p} : request'[q] = request[q],
           request[p].step # "idle" \/ request'[p].step # "idle"
    PROVE  OthersIdle(p) /\ OthersIdle(p)'
BY DEF OnlyOne, InFlight, OthersIdle

(* So it is enough to look at what the request itself knows, and at the    *)
(* tables.                                                                 *)
LEMMA SettledAfter ==
    ASSUME NEW p \in Requests, OthersIdle(p)', Knows(p)', TablesAgree'
    PROVE  SettledNow'
<1>1. OnlyOne'
  BY DEF OthersIdle, OnlyOne, InFlight
<1>2. \A q \in Requests \ {p} : Knows(q)'
  BY DEF OthersIdle, Knows
<1> QED BY <1>1, <1>2 DEF SettledNow

(* Unless it is about to charge, everything in force has been charged for. *)
LEMMA ChargedBefore ==
    ASSUME SettledNow, NEW p \in Requests, OthersIdle(p),
           request[p].step \notin {"commission", "commissionCreate"}
    PROVE  AllCharged
BY DEF SettledNow, OthersIdle, TablesAgree, AllCharged, BeingCharged, InForce

LEMMA ChargedAfter ==
    ASSUME AllCharged'
    PROVE  TablesAgree'
BY DEF AllCharged, TablesAgree, InForce

(* A request that arrives knows what it has just read.                     *)
LEMMA ArriveSettled ==
    ASSUME TypeOK, Consistent, SettledNow, OnlyOne', NEW p \in Requests, Arrive(p)
    PROVE  SettledNow'
<1> USE DEF TypeOK, RowsOK, RequestsOK
<1>1. UNCHANGED <<market, signing, commissions>>
  BY ArriveReads
<1>2. /\ request[p] = Idle /\ request'[p].step # "idle"
      /\ \A q \in Requests \ {p} : request'[q] = request[q]
  BY ArriveReads DEF Start
<1>3. OthersIdle(p) /\ OthersIdle(p)'
  BY <1>2, MovesAlone DEF SettledNow
<1>4. AllCharged
  BY <1>2, <1>3, ChargedBefore DEF Idle
<1>5. TablesAgree'
  <2>1. AllCharged'
    BY <1>1, <1>4 DEF AllCharged, InForce, Charged, market, signing
  <2> QED BY <2>1, ChargedAfter
<1>6. Knows(p)'
  <2>1. ASSUME NEW r \in Requirements, PublishRead(p, r) \/ CancelRead(p, r)
        PROVE  Knows(p)'
    BY <1>1, <2>1 DEF PublishRead, CancelRead, Start, Knows, market
  <2>2. ASSUME NEW m \in Pairs,
               CompleteRead(p, m) \/ ApplyRead(p, m) \/ InviteRead(p, m) \/ GenerateRead(p, m)
               \/ SignReadStuck(p, m) \/ SignReadStudent(p, m) \/ RegenerateCommission(p, m)
        PROVE  Knows(p)'
    BY <1>1, <2>2 DEF CompleteRead, ApplyRead, InviteRead, GenerateRead, SignReadStuck,
       SignReadStudent, RegenerateCommission, Start, Knows, Accepting, market, signing
  <2>3. ASSUME NEW m \in Pairs, ShortlistRead(p, m) \/ WithdrawRead(p, m)
        PROVE  Knows(p)'
    BY <1>1, <1>4, <2>3 DEF ShortlistRead, WithdrawRead, Start, Knows, AllCharged, market, signing
  <2>4. ASSUME NEW m \in Pairs, SignReadTutor(p, m)
        PROVE  Knows(p)'
    <3>1. ~InForce(m)
      BY <2>4 DEF SignReadTutor, InForce, Consistent, RowsConsistent
    <3> QED BY <1>1, <2>4, <3>1 DEF SignReadTutor, Start, Knows, InForce, signing
  <2> QED BY <2>1, <2>2, <2>3, <2>4 DEF Arrive
<1> QED BY <1>3, <1>5, <1>6, SettledAfter

(* A request that ends knows nothing more.                                 *)
LEMMA ReturnSettled ==
    ASSUME TypeOK, NEW p \in Requests, Return(p), OthersIdle(p), AllCharged'
    PROVE  SettledNow'
<1>1. OthersIdle(p)' /\ Knows(p)'
  BY DEF TypeOK, RequestsOK, Return, OthersIdle, Knows, Idle
<1> QED BY <1>1, ChargedAfter, SettledAfter

LEMMA ContinueSettled ==
    ASSUME TypeOK, NEW p \in Requests, NEW step, Continue(p, step), OthersIdle(p), TablesAgree',
           step \in {"signed", "activate", "activateTx", "commission", "commissionCreate"}
    PROVE  SettledNow'
<1>1. OthersIdle(p)' /\ Knows(p)'
  BY DEF TypeOK, RequestsOK, Continue, OthersIdle, Knows
<1> QED BY <1>1, SettledAfter

LEMMA ResumeSettled ==
    ASSUME TypeOK, SettledNow, OnlyOne', NEW p \in Requests, Resume(p)
    PROVE  SettledNow'
<1> PICK m : m = request[p].target
  OBVIOUS
<1> USE DEF TypeOK, RowsOK
<1>t. /\ request[p].step \in RequirementSteps => m \in Requirements
      /\ request[p].step \in MatchSteps => m \in Pairs /\ m[1] \in Requirements
      /\ \A n \in Pairs : n[1] \in Requirements
  BY TargetTyped, PairRequirement
<1>k. Knows(p)
  BY DEF SettledNow
<1>o. OthersIdle(p)
  <2>1. request[p].step # "idle"
    BY DEF Resume, PublishWrite, CancelWrite, CompleteTx, ApplyLookup, ApplyTx, InviteCreate,
       ShortlistTx, WithdrawWrite, GenerateCreate, SignWriteStudent, SignWriteTutor, SignRefresh,
       ActivateRead, ActivateTx, CommissionRead, CommissionCreate
  <2> QED BY <2>1 DEF SettledNow, OnlyOne, InFlight, OthersIdle
<1>a. request[p].step \notin {"commission", "commissionCreate"} => AllCharged
  BY <1>o, ChargedBefore
<1>s. ASSUME AllCharged, UNCHANGED <<market, signing, commissions>>
      PROVE  AllCharged'
  BY <1>s DEF AllCharged, InForce, Charged, market, signing
<1>1. CASE PublishWrite(p) \/ CancelWrite(p)
  <2>1. /\ m \in Requirements /\ reqStatus[m] \notin {"ACTIVE", "COMPLETED"} /\ AllCharged
        /\ reqStatus'[m] # "none" /\ \A r \in Requirements : r # m => reqStatus'[r] = reqStatus[r]
        /\ UNCHANGED <<matchStatus, agrStatus, commissions>>
    BY <1>1, <1>t, <1>k, <1>a DEF PublishWrite, CancelWrite, Knows, Cancelable, signing,
       RequirementSteps
  <2>2. AllCharged'
    BY <1>t, <2>1 DEF AllCharged, InForce, Charged
  <2> QED BY <1>1, <1>o, <2>2, ReturnSettled DEF PublishWrite, CancelWrite
<1>2. CASE CompleteTx(p)
  <2>1. AllCharged'
    BY <1>2, <1>t, <1>k, <1>a DEF CompleteTx, Knows, AllCharged, InForce, Charged
  <2> QED BY <1>2, <1>o, <2>1, ReturnSettled DEF CompleteTx
<1>3. CASE ApplyLookup(p)
  <2>1. AllCharged' /\ UNCHANGED <<market, signing, commissions>>
    BY <1>3, <1>a, <1>s DEF ApplyLookup
  <2>2. CASE Return(p)
    BY <1>o, <2>1, <2>2, ReturnSettled
  <2>3. CASE request' = [request EXCEPT ![p].step = "applyTx",
                                        ![p].had = matchStatus[m] # "none"]
    <3>1. /\ request'[p].step = "applyTx" /\ request'[p].target = m
          /\ request'[p].saw = request[p].saw
          /\ \A q \in Requests \ {p} : request'[q] = request[q]
      BY <2>3 DEF RequestsOK, RequestSet
    <3>2. Knows(p)'
      BY <1>3, <1>k, <2>1, <3>1 DEF ApplyLookup, Knows, market
    <3> QED BY <1>o, <2>1, <3>1, <3>2, ChargedAfter, SettledAfter DEF OthersIdle
  <2> QED BY <1>3, <2>2, <2>3 DEF ApplyLookup
<1>4. CASE ApplyTx(p)
  <2>1. AllCharged'
    <3>1. /\ m \in Pairs /\ AllCharged /\ UNCHANGED <<agrStatus, commissions>>
          /\ reqStatus[m[1]] \in Accepting
          /\ reqStatus'[m[1]] \in Accepting
          /\ \A r \in Requirements : r # m[1] => reqStatus'[r] = reqStatus[r]
          /\ \A n \in Pairs : n # m => matchStatus'[n] = matchStatus[n]
      BY <1>4, <1>t, <1>k, <1>a DEF ApplyTx, Knows, Accepting, MatchSteps, market, signing
    <3>2. \A n \in Pairs : n[1] = m[1] => ~InForce(n) /\ reqStatus[n[1]] # "none"
      BY <3>1 DEF AllCharged, Accepting
    <3> QED BY <1>t, <3>1, <3>2 DEF AllCharged, InForce, Charged, Accepting
  <2> QED BY <1>4, <1>o, <2>1, ReturnSettled DEF ApplyTx
<1>5. CASE InviteCreate(p)
  <2>1. AllCharged'
    BY <1>5, <1>t, <1>k, <1>a DEF InviteCreate, Knows, AllCharged, InForce, Charged, signing
  <2> QED BY <1>5, <1>o, <2>1, ReturnSettled DEF InviteCreate
<1>6. CASE ShortlistTx(p) \/ WithdrawWrite(p)
  <2>1. AllCharged'
    <3>1. /\ m \in Pairs /\ AllCharged /\ UNCHANGED <<agrStatus, commissions>>
          /\ agrStatus[m] # "ACTIVE"
          /\ reqStatus[m[1]] # "none" /\ reqStatus'[m[1]] # "none"
          /\ reqStatus[m[1]] \in {"ACTIVE", "COMPLETED"} => reqStatus'[m[1]] = reqStatus[m[1]]
          /\ \A r \in Requirements : r # m[1] => reqStatus'[r] = reqStatus[r]
          /\ \A n \in Pairs : n # m => matchStatus'[n] = matchStatus[n]
      BY <1>6, <1>t, <1>k, <1>a DEF ShortlistTx, WithdrawWrite, Knows, AllCharged, MatchSteps, signing
    <3>2. \A r \in Requirements :
             /\ reqStatus[r] \in {"ACTIVE", "COMPLETED"} => reqStatus'[r] = reqStatus[r]
             /\ reqStatus[r] # "none" => reqStatus'[r] # "none"
      BY <3>1
    <3>3. \A n \in Pairs : /\ InForce(n)' = InForce(n)
                           /\ Charged(n)' = Charged(n)
      BY <3>1 DEF InForce, Charged
    <3> QED BY <1>t, <3>1, <3>2, <3>3 DEF AllCharged
  <2> QED BY <1>6, <1>o, <2>1, ReturnSettled DEF ShortlistTx, WithdrawWrite
<1>7. CASE GenerateCreate(p)
  <2>1. AllCharged'
    BY <1>7, <1>t, <1>a DEF GenerateCreate, AllCharged, InForce, Charged, market
  <2> QED BY <1>7, <1>o, <2>1, ReturnSettled DEF GenerateCreate
<1>8. CASE SignWriteStudent(p) \/ SignWriteTutor(p)
  <2>1. AllCharged'
    BY <1>8, <1>t, <1>a DEF SignWriteStudent, SignWriteTutor, AllCharged, InForce, Charged, market
  <2> QED BY <1>8, <1>o, <2>1, ChargedAfter, ContinueSettled DEF SignWriteStudent, SignWriteTutor
<1>9. CASE SignRefresh(p) \/ ActivateRead(p)
  <2>1. AllCharged'
    BY <1>9, <1>a, <1>s DEF SignRefresh, ActivateRead
  <2> QED BY <1>9, <1>o, <2>1, ReturnSettled, ChargedAfter, ContinueSettled
          DEF SignRefresh, ActivateRead
<1>10. CASE ActivateTx(p)
  <2>1. request'[p].step = "commission" /\ request'[p].target = m /\ m \in Pairs
    BY <1>10, <1>t DEF ActivateTx, Continue, RequestsOK
  <2>2. BeingCharged(m)'
    BY <2>1 DEF BeingCharged
  <2>3. TablesAgree'
    BY <1>10, <1>t, <1>a, <2>2 DEF ActivateTx, AllCharged, InForce, Charged, TablesAgree
  <2> QED BY <1>10, <1>o, <2>3, ContinueSettled DEF ActivateTx
<1>11. CASE CommissionRead(p)
  <2>0. UNCHANGED <<market, signing, commissions>> /\ m \in Pairs
    BY <1>11, <1>t DEF CommissionRead
  <2>1. \A n \in Pairs : BeingCharged(n) => n = m
    BY <1>o DEF BeingCharged, OthersIdle
  <2>2. CASE Return(p) /\ (InForce(m) => Charged(m))
    <3>1. AllCharged
      BY <2>1, <2>2 DEF SettledNow, TablesAgree, AllCharged, InForce
    <3> QED BY <1>o, <1>s, <2>0, <2>2, <3>1, ReturnSettled
  <2>3. CASE Continue(p, "commissionCreate")
    <3>1. BeingCharged(m)'
      BY <2>3 DEF Continue, RequestsOK, BeingCharged
    <3>2. TablesAgree'
      BY <2>0, <2>1, <3>1 DEF SettledNow, TablesAgree, Charged, market, signing
    <3> QED BY <1>o, <2>3, <3>2, ContinueSettled
  <2> QED BY <1>11, <2>2, <2>3 DEF CommissionRead, InForce
<1>12. CASE CommissionCreate(p)
  <2>1. m \in Pairs /\ \A n \in Pairs : BeingCharged(n) => n = m
    BY <1>12, <1>o, <1>t DEF BeingCharged, OthersIdle, CommissionCreate
  <2>2. Charged(m)' /\ \A n \in Pairs : Charged(n) => Charged(n)'
    BY <1>12, <2>1 DEF CommissionCreate, Charged, SameParties
  <2>3. AllCharged'
    BY <1>12, <2>1, <2>2 DEF CommissionCreate, SettledNow, TablesAgree, AllCharged, InForce,
       market, signing
  <2> QED BY <1>12, <1>o, <2>3, ReturnSettled DEF CommissionCreate
<1> QED
  BY <1>1, <1>2, <1>3, <1>4, <1>5, <1>6, <1>7, <1>8, <1>9, <1>10, <1>11, <1>12 DEF Resume

LEMMA NextSettled ==
    Consistent /\ Settled /\ [ViewsNext]_<<vars, alone>> => Settled'
<1> SUFFICES ASSUME Consistent, Settled, [ViewsNext]_<<vars, alone>>, alone'
             PROVE  SettledNow'
  BY DEF Settled, SettledNow, OnlyOne
<1> USE DEF Consistent
<1>0. alone
  BY DEF ViewsNext
<1>1. SettledNow
  BY <1>0 DEF Settled, SettledNow, OnlyOne
<1>2. CASE UNCHANGED <<vars, alone>>
  BY <1>1, <1>2 DEF vars, market, signing, SettledNow, OnlyOne, InFlight, Knows, TablesAgree,
     BeingCharged, Charged
<1>3. CASE ViewsNext
  <2>0. OnlyOne'
    BY <1>3 DEF ViewsNext, OnlyOne
  <2>1. ASSUME NEW r \in Requirements, CreateRequirement(r)
        PROVE  SettledNow'
    <3>1. /\ reqStatus[r] = "none" /\ UNCHANGED <<matchStatus, agrStatus, commissions, request>>
          /\ \A s \in Requirements : s # r => reqStatus'[s] = reqStatus[s]
      BY <2>1 DEF CreateRequirement, TypeOK, RowsOK, signing
    <3>2. TablesAgree'
      <4>1. \A m \in Pairs : m[1] \in Requirements
        BY PairRequirement
      <4> QED BY <1>1, <3>1, <4>1 DEF SettledNow, TablesAgree, Charged, BeingCharged
    <3>3. ASSUME NEW p \in Requests PROVE Knows(p)'
      <4>1. Knows(p) /\ TypeOK
        BY <1>1 DEF SettledNow
      <4>2. PICK m : m = request[p].target
        OBVIOUS
      <4>3. /\ request[p].step \in RequirementSteps => m \in Requirements
            /\ request[p].step \in MatchSteps => m[1] \in Requirements
        BY <4>1, <4>2, TargetTyped, PairRequirement DEF TypeOK
      <4>4. \A s \in Requirements : reqStatus[s] # "none" => reqStatus'[s] = reqStatus[s]
        BY <3>1
      <4>5. At(p, "shortlist") => reqStatus[m[1]] # "none"
        BY <4>1, <4>2, <4>3 DEF Knows
      <4> QED BY <3>1, <4>1, <4>2, <4>3, <4>4, <4>5
              DEF Knows, Cancelable, Accepting, RequirementSteps, MatchSteps
    <3> QED BY <2>0, <3>2, <3>3 DEF SettledNow
  <2>2. ASSUME NEW p \in Requests, NEW m \in Pairs, Reject(p, m)
        PROVE  SettledNow'
    <3>1. /\ UNCHANGED <<reqStatus, agrStatus, commissions, request>>
          /\ \A n \in Pairs : /\ matchStatus'[n] \in {matchStatus[n], "REJECTED"}
                              /\ matchStatus[n] = "none" => matchStatus'[n] = "none"
      BY <2>2 DEF Reject, TypeOK, RowsOK, signing
    <3>2. TablesAgree'
      BY <1>1, <3>1 DEF SettledNow, TablesAgree, Charged, BeingCharged
    <3>3. \A q \in Requests : Knows(q)'
      BY <1>1, <3>1 DEF SettledNow, Knows
    <3> QED BY <2>0, <3>2, <3>3 DEF SettledNow
  <2>3. ASSUME NEW p \in Requests, Arrive(p)
        PROVE  SettledNow'
    BY <1>1, <2>0, <2>3, ArriveSettled
  <2>4. ASSUME NEW p \in Requests, Resume(p)
        PROVE  SettledNow'
    BY <1>1, <2>0, <2>4, ResumeSettled
  <2>5. ASSUME NEW p \in Requests, Die(p)
        PROVE  SettledNow'
    <3>1. OthersIdle(p)
      BY <1>1, <2>5 DEF Die, SettledNow, OnlyOne, InFlight, OthersIdle
    <3>2. AllCharged'
      BY <1>1, <2>5 DEF Die, SettledNow, TablesAgree, AllCharged, InForce, market, signing
    <3> QED BY <2>5, <3>1, <3>2, ReturnSettled DEF Die
  <2> QED BY <1>3, <2>1, <2>2, <2>3, <2>4, <2>5 DEF ViewsNext, Next
<1> QED BY <1>2, <1>3

LEMMA AlwaysSettled == ViewsSpec => [](Consistent /\ Settled)
<1>1. ViewsInit => Consistent /\ Settled
  BY InitConsistent DEF ViewsInit, Init, Settled, InFlight, Knows, TablesAgree, Idle
<1>2. Consistent /\ Settled /\ [ViewsNext]_<<vars, alone>> => (Consistent /\ Settled)'
  <2>1. [ViewsNext]_<<vars, alone>> => [Next]_vars
    BY DEF ViewsNext
  <2> QED BY <2>1, NextConsistent, NextSettled
<1> QED BY <1>1, <1>2, PTL DEF ViewsSpec

(* What the pages read from three tables agrees as long as requests do not *)
(* overlap, wherever handlers die: a requirement in force is off the       *)
(* market, and its student can complete it.                                *)
THEOREM EngagedStaysSettled == ViewsSpec => []EngagedIsSettled
<1>1. ASSUME Consistent, Settled, alone PROVE OffTheMarket /\ StaysReachable
  <2>1. TablesAgree
    BY <1>1 DEF Settled
  <2>2. OffTheMarket
    BY <2>1 DEF OffTheMarket, ContactVisible, Browsable, Readable, Accepting, TablesAgree
  <2>3. StaysReachable
    BY <2>1 DEF StaysReachable, Inbox, MatchesOfTutor, Completable, TablesAgree
  <2> QED BY <2>2, <2>3
<1>2. Consistent /\ Settled => EngagedIsSettled
  BY <1>1 DEF EngagedIsSettled
<1> QED BY <1>2, AlwaysSettled, PTL

(* As long as requests do not overlap and none dies, no commission is lost:*)
(* when nothing is in flight, every agreement in force is charged for.     *)
THEOREM ChargedWhenRequestsAreAlone == ViewsSpec => []ChargedWhenAlone
<1>1. Consistent /\ Settled => ChargedWhenAlone
  BY DEF Settled, TablesAgree, BeingCharged, ChargedWhenAlone, CommissionNotDropped
<1> QED BY <1>1, AlwaysSettled, PTL

(* As long as requests do not overlap, what is in force stays so.          *)
THEOREM ActiveStays == ViewsSpec => ActiveStaysActiveWhenAlone
<1> DEFINE Stays == \A m \in Pairs : agrStatus[m] \in {"ACTIVE", "COMPLETED"} =>
                        agrStatus'[m] \in {"ACTIVE", "COMPLETED", "CANCELLED"}
<1>1. ASSUME Consistent, Settled, [ViewsNext]_<<vars, alone>>
      PROVE  [alone' => Stays]_<<vars, alone>>
  <2> SUFFICES ASSUME ViewsNext, alone' PROVE Stays
    BY <1>1
  <2>0. TypeOK /\ \A p \in Requests : Knows(p)
    BY <1>1 DEF ViewsNext, Settled, Consistent
  <2>1. CASE \E r \in Requirements : CreateRequirement(r)
    BY <2>1 DEF CreateRequirement, signing
  <2>2. CASE \E p \in Requests, m \in Pairs : Reject(p, m)
    BY <2>2 DEF Reject, signing
  <2>3. CASE \E p \in Requests : Arrive(p) \/ Die(p)
    BY <2>0, <2>3, ArriveReads DEF Die, signing
  <2>4. ASSUME NEW p \in Requests, Resume(p) PROVE Stays
    <3>1. Knows(p) /\ agrStatus \in [Pairs -> AgreementStatus]
      BY <2>0 DEF TypeOK, RowsOK
    <3>2. CASE SignWriteStudent(p) \/ SignWriteTutor(p)
      BY <3>1, <3>2 DEF SignWriteStudent, SignWriteTutor, Knows
    <3>3. CASE CompleteTx(p) \/ GenerateCreate(p) \/ ActivateTx(p)
      BY <3>1, <3>3 DEF CompleteTx, GenerateCreate, ActivateTx
    <3>4. CASE UNCHANGED signing
      BY <3>4 DEF signing
    <3> QED
      BY <2>4, <3>2, <3>3, <3>4 DEF Resume, PublishWrite, CancelWrite, ApplyLookup, ApplyTx,
         InviteCreate, ShortlistTx, WithdrawWrite, SignRefresh, ActivateRead, CommissionRead,
         CommissionCreate
  <2> QED BY <2>1, <2>2, <2>3, <2>4 DEF ViewsNext, Next
<1> QED BY <1>1, AlwaysSettled, PTL DEF ViewsSpec, ActiveStaysActiveWhenAlone
=============================================================================
