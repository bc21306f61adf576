--------------------------- MODULE Sessions_proofs ---------------------------
(***************************************************************************)
(* Proofs about Sessions, for any number of tabs, tokens and requests: the *)
(* account is well-formed whatever overlaps or dies, and as long as        *)
(* handlers do not overlap, a reset of the password ends the sessions      *)
(* there were, a suspended account gets none, and a one-time password lets *)
(* somebody in once.                                                       *)
(***************************************************************************)
EXTENDS Sessions, TLAPS

(* Whoever is about to get a session or a password, or has a session, has  *)
(* an account: it is never deleted.                                        *)
AccountKnown ==
    /\ \A p \in Requests : request[p].step \in {"issue", "setPassword"} => account # "none"
    /\ \A b \in Tabs : tab[b] # Nothing => account # "none"

TypeInv == TypeOK /\ AccountKnown

LEMMA FreshIsNew ==
    ASSUME TypeOK
    PROVE  /\ (CHOOSE t \in Fresh : TRUE) \in Tokens
           /\ (CHOOSE t \in Fresh : TRUE) \notin {tab[b] : b \in Tabs}
<1>. DEFINE sent == [p \in Requests |-> request[p].token]
<1>1. sent \in [Requests -> Tokens \union {Nothing}]
  BY DEF TypeOK, RequestSet
<1>2. {sent[p] : p \in Requests} = {request[p].token : p \in Requests}
  OBVIOUS
<1> HIDE DEF sent
<1>3. Fresh # {}
  BY <1>1, <1>2, TokensAssumption DEF TypeOK, Fresh
<1> QED
  BY <1>3 DEF Fresh

LEMMA IdleIsTyped == Idle \in RequestSet
BY DEF Idle, RequestSet, Steps

(* The steps of a request: what Start, Continue and Return leave behind.   *)
LEMMA StartTyped ==
    ASSUME TypeOK, NEW p \in Requests, NEW b \in Tabs, NEW step \in Steps, Start(p, step, b)
    PROVE  /\ request' \in [Requests -> RequestSet]
           /\ overlapped' \in BOOLEAN /\ faults' = faults
           /\ \A q \in Requests : request'[q] # request[q] => q = p /\ request'[q].step = step
BY DEF Start, TypeOK, RequestSet

LEMMA ContinueTyped ==
    ASSUME TypeOK, NEW p \in Requests, NEW step \in Steps, Continue(p, step)
    PROVE  /\ request' \in [Requests -> RequestSet]
           /\ overlapped' = overlapped /\ faults' = faults
           /\ \A q \in Requests : request'[q] # request[q] => q = p /\ request'[q].step = step
BY DEF Continue, TypeOK, RequestSet

LEMMA ReturnTyped ==
    ASSUME TypeOK, NEW p \in Requests, Return(p)
    PROVE  /\ request' \in [Requests -> RequestSet]
           /\ overlapped' = overlapped /\ faults' = faults
           /\ \A q \in Requests : request'[q] # request[q] => q = p /\ request'[q].step = "idle"
BY IdleIsTyped DEF Return, TypeOK, Idle

LEMMA TypeArrive ==
    ASSUME TypeInv, NEW p \in Requests, NEW b \in Tabs, Arrive(p, b)
    PROVE  TypeInv'
<1> USE DEF TypeInv, AccountKnown, history, user
<1>1. CASE Register(p, b)
  <2>1. RegisterStep \in Steps /\ RegisterStep \notin {"issue", "setPassword"}
    BY DEF RegisterStep, Steps
  <2> QED
    BY <1>1, <2>1, StartTyped DEF Register, TypeOK
<1>2. CASE \E purpose \in {"register", "login"} : SendOtp(p, b, purpose)
  <2>1. "otp" \in Steps
    BY DEF Steps
  <2> QED
    BY <1>2, <2>1, StartTyped DEF SendOtp, TypeOK
<1>3. CASE Verify(p, b)
  <2>1. "verifyDel" \in Steps
    BY DEF Steps
  <2> QED
    BY <1>3, <2>1, StartTyped DEF Verify, TypeOK
<1>4. CASE Login(p, b)
  <2>1. "issue" \in Steps
    BY DEF Steps
  <2> QED
    BY <1>4, <2>1, StartTyped DEF Login, MayLogin, TypeOK
<1>5. CASE Refresh(p, b)
  <2>1. "refresh" \in Steps
    BY DEF Steps
  <2> QED
    BY <1>5, <2>1, StartTyped DEF Refresh, TypeOK
<1>6. CASE Logout(p, b)
  <2>1. "revoke" \in Steps
    BY DEF Steps
  <2>2. /\ request' \in [Requests -> RequestSet]
        /\ overlapped' \in BOOLEAN /\ faults' = faults
        /\ \A q \in Requests : request'[q] # request[q] => request'[q].step = "revoke"
    BY <1>6, <2>1, StartTyped DEF Logout, TypeOK
  <2> QED
    BY <1>6, <2>2 DEF Logout, TypeOK
<1>7. CASE SetPassword(p, b)
  <2>1. "setPassword" \in Steps
    BY DEF Steps
  <2> QED
    BY <1>7, <2>1, StartTyped DEF SetPassword, TypeOK
<1>8. CASE ResetPassword(p, b)
  <2>1. "resetDel" \in Steps
    BY DEF Steps
  <2> QED
    BY <1>8, <2>1, StartTyped DEF ResetPassword, TypeOK
<1> QED
  BY <1>1, <1>2, <1>3, <1>4, <1>5, <1>6, <1>7, <1>8 DEF Arrive

LEMMA TypeResume ==
    ASSUME TypeInv, NEW p \in Requests, Resume(p)
    PROVE  TypeInv'
<1> USE DEF TypeInv, AccountKnown, history, user, At
<1>1. CASE RegisterCreate(p)
  <2>1. "otp" \in Steps
    BY DEF Steps
  <2>2. CASE account = "none" /\ account' = "PENDING_VERIFICATION" /\ Continue(p, "otp")
    BY <1>1, <2>1, <2>2, ContinueTyped DEF RegisterCreate, TypeOK, UserStatus
  <2>3. CASE account # "none" /\ UNCHANGED account /\ Return(p)
    BY <1>1, <2>3, ReturnTyped DEF RegisterCreate, TypeOK
  <2> QED
    BY <1>1, <2>2, <2>3 DEF RegisterCreate
<1>2. CASE StoreOtp(p)
  BY <1>2, ReturnTyped DEF StoreOtp, TypeOK
<1>3. CASE VerifyDel(p)
  <2>1. "verifyUser" \in Steps
    BY DEF Steps
  <2> QED
    BY <1>3, <2>1, ContinueTyped DEF VerifyDel, DeleteOtp, TypeOK
<1>4. CASE VerifyUser(p)
  <2>1. "activate" \in Steps
    BY DEF Steps
  <2>2. CASE Continue(p, "activate")
    BY <1>4, <2>1, <2>2, ContinueTyped DEF VerifyUser, TypeOK
  <2>3. CASE Return(p)
    BY <1>4, <2>3, ReturnTyped DEF VerifyUser, TypeOK
  <2> QED
    BY <1>4, <2>2, <2>3 DEF VerifyUser
<1>5. CASE Activate(p)
  <2>1. "issue" \in Steps
    BY DEF Steps
  <2> QED
    BY <1>5, <2>1, ContinueTyped DEF Activate, TypeOK, UserStatus
<1>6. CASE Issue(p)
  <2> DEFINE t == CHOOSE t \in Fresh : TRUE
  <2>1. t \in Tokens
    BY FreshIsNew
  <2>2. /\ hash' = t
        /\ dead' \in {dead \union {t}, dead \ {t}}
        /\ \/ tab' = [tab EXCEPT ![request[p].tab] = t] /\ UNCHANGED faults
           \/ faults < MaxFaults /\ faults' = faults + 1 /\ UNCHANGED tab
        /\ request' = [request EXCEPT ![p] = Idle]
        /\ account # "none"
        /\ UNCHANGED <<account, password, otp, used, overlapped>>
    BY <1>6 DEF Issue
  <2> HIDE DEF t
  <2>3. request' \in [Requests -> RequestSet]
        /\ \A q \in Requests : request'[q] # request[q] => request'[q].step = "idle"
    BY <2>2, IdleIsTyped DEF TypeOK, Idle
  <2>4. tab' \in [Tabs -> Tokens \union {Nothing}]
    BY <2>1, <2>2 DEF TypeOK
  <2>5. faults' \in 0 .. MaxFaults
    BY <2>2, FaultsAssumption DEF TypeOK
  <2>6. dead' \subseteq Tokens
    BY <2>1, <2>2 DEF TypeOK
  <2> QED
    BY <2>1, <2>2, <2>3, <2>4, <2>5, <2>6 DEF TypeOK
<1>7. CASE RefreshRead(p)
  <2>1. "issue" \in Steps /\ "revoke" \in Steps
    BY DEF Steps
  <2>2. tab' \in [Tabs -> Tokens \union {Nothing}]
        /\ \A b \in Tabs : tab'[b] # Nothing => tab[b] # Nothing
    BY <1>7 DEF RefreshRead, TypeOK
  <2>3. CASE hash # Nothing /\ Continue(p, "issue")
    BY <1>7, <2>1, <2>2, <2>3, ContinueTyped DEF RefreshRead, TypeOK
  <2>4. CASE Continue(p, "revoke")
    BY <1>7, <2>1, <2>2, <2>4, ContinueTyped DEF RefreshRead, TypeOK
  <2>5. CASE Return(p)
    BY <1>7, <2>2, <2>5, ReturnTyped DEF RefreshRead, TypeOK
  <2> QED
    BY <1>7, <2>3, <2>4, <2>5 DEF RefreshRead
<1>8. CASE Revoke(p)
  BY <1>8, ReturnTyped DEF Revoke, TypeOK
<1>9. CASE SetPasswordWrite(p)
  BY <1>9, ReturnTyped DEF SetPasswordWrite, TypeOK
<1>10. CASE ResetDel(p)
  <2>1. "resetWrite" \in Steps
    BY DEF Steps
  <2> QED
    BY <1>10, <2>1, ContinueTyped DEF ResetDel, DeleteOtp, TypeOK
<1>11. CASE ResetWrite(p)
  <2>1. CASE ~Exists
    BY <1>11, <2>1, ReturnTyped DEF ResetWrite, TypeOK
  <2>2. CASE Exists
    <3>1. request' = [q \in Requests |-> IF q = p \/ At(q, "idle") THEN Idle
                                        ELSE [request[q] EXCEPT !.old = TRUE]]
      BY <1>11, <2>2 DEF ResetWrite
    <3>2. \A q \in Requests : [request[q] EXCEPT !.old = TRUE] \in RequestSet
      BY DEF TypeOK, RequestSet
    <3>3. request' \in [Requests -> RequestSet]
      BY <3>1, <3>2, IdleIsTyped
    <3>4. \A q \in Requests : request'[q].step \in {request[q].step, "idle"}
      BY <3>1 DEF Idle, TypeOK, RequestSet
    <3> QED
      BY <1>11, <2>2, <3>3, <3>4 DEF ResetWrite, Exists, NoSession, TypeOK
  <2> QED
    BY <2>1, <2>2
<1> QED
  BY <1>1, <1>2, <1>3, <1>4, <1>5, <1>6, <1>7, <1>8, <1>9, <1>10, <1>11 DEF Resume

(* Columns and requests keep their types, and nobody has a session or a    *)
(* password before there is an account.                                    *)
THEOREM TypeCorrect == Spec => []TypeInv
<1>1. Init => TypeInv
  <2> SUFFICES ASSUME Init PROVE TypeInv
    OBVIOUS
  <2>1. request \in [Requests -> RequestSet]
    BY IdleIsTyped DEF Init
  <2>2. \A p \in Requests : request[p].step = "idle"
    BY DEF Init, Idle
  <2>3. faults \in 0 .. MaxFaults /\ account \in {"none"} \union UserStatus
    BY FaultsAssumption DEF Init
  <2>4. AccountKnown
    BY <2>2 DEF Init, AccountKnown
  <2> QED
    BY <2>1, <2>3, <2>4 DEF Init, TypeInv, TypeOK
<1>2. TypeInv /\ [Next]_vars => TypeInv'
  <2> SUFFICES ASSUME TypeInv, [Next]_vars PROVE TypeInv'
    OBVIOUS
  <2> USE DEF history, user
  <2>1. CASE ExpireOtp
    BY <2>1 DEF ExpireOtp, TypeInv, TypeOK, AccountKnown
  <2>2. CASE Suspend
    BY <2>2 DEF Suspend, TypeInv, TypeOK, AccountKnown, UserStatus
  <2>3. ASSUME NEW p \in Requests, Die(p) PROVE TypeInv'
    <3>1. request' \in [Requests -> RequestSet]
          /\ \A q \in Requests : request'[q] # request[q] => request'[q].step = "idle"
      BY <2>3, IdleIsTyped DEF Die, TypeInv, TypeOK, Idle
    <3>2. faults' \in 0 .. MaxFaults
      BY <2>3, FaultsAssumption DEF Die, TypeInv, TypeOK
    <3> QED
      BY <2>3, <3>1, <3>2 DEF Die, TypeInv, TypeOK, AccountKnown
  <2>4. CASE UNCHANGED vars
    BY <2>4 DEF vars, TypeInv, TypeOK, AccountKnown
  <2> QED
    BY <2>1, <2>2, <2>3, <2>4, TypeArrive, TypeResume DEF Next
<1> QED
  BY <1>1, <1>2, PTL DEF Spec

-----------------------------------------------------------------------------
(* As long as handlers do not overlap. *)

(* One handler runs at a time.  It came with a session from before the     *)
(* last reset only if it is a refresh that will be refused, or a refused   *)
(* one; nobody is about to get a session of a suspended account; a         *)
(* one-time password that has been used is about to be deleted, unless a   *)
(* handler died; and the current session began after the last reset.       *)
Alone ==
    /\ \A p, q \in Requests : At(p, "idle") \/ At(q, "idle") \/ p = q
    /\ \A p \in Requests : request[p].old =>
          \/ At(p, "revoke")
          \/ At(p, "refresh") /\ request[p].token \in dead
    /\ \A p \in Requests : request[p].step \in {"activate", "issue"} => ~Suspended
    /\ faults = 0 /\ otp /\ used =>
          \E p \in Requests : At(p, "verifyDel") \/ At(p, "resetDel")
    /\ hash \notin dead

SeqInv == TypeInv /\ (overlapped \/ Alone)

(* A request that arrives while nobody overlaps finds all others idle.     *)
LEMMA StartAlone ==
    ASSUME TypeInv, Alone, NEW p \in Requests, NEW b \in Tabs, NEW step \in Steps,
           Start(p, step, b), ~overlapped'
    PROVE  /\ \A q \in Requests : request[q].step = "idle" /\ ~request[q].old
           /\ \A q \in Requests : q # p => request'[q] = request[q]
           /\ request'[p].step = step /\ request'[p].tab = b
           /\ request'[p].old => step = "refresh" /\ request'[p].token \in dead
           /\ faults' = faults
BY DEF Start, Busy, At, Alone, TypeInv, TypeOK, RequestSet

LEMMA ContinueAlone ==
    ASSUME TypeInv, Alone, NEW p \in Requests, NEW step \in Steps,
           Continue(p, step), ~At(p, "idle")
    PROVE  /\ \A q \in Requests : q # p =>
                 request'[q] = request[q] /\ request[q].step = "idle" /\ ~request[q].old
           /\ request'[p].step = step /\ request'[p].tab = request[p].tab
           /\ request'[p].old = request[p].old
           /\ faults' = faults
BY DEF Continue, At, Alone, TypeInv, TypeOK, RequestSet

LEMMA ReturnAlone ==
    ASSUME TypeInv, Alone, NEW p \in Requests, ~At(p, "idle"),
           request' = [request EXCEPT ![p] = Idle]
    PROVE  \A q \in Requests : request'[q].step = "idle" /\ ~request'[q].old
BY DEF At, Alone, TypeInv, TypeOK, Idle, RequestSet

LEMMA ArriveAlone ==
    ASSUME TypeInv, Alone, NEW p \in Requests, NEW b \in Tabs, Arrive(p, b), ~overlapped'
    PROVE  Alone'
<1> USE DEF history, user, At
<1>1. CASE Register(p, b)
  <2>1. RegisterStep \in {"otp", "create"} /\ RegisterStep \in Steps
    BY DEF RegisterStep, Steps
  <2> QED
    BY <1>1, <2>1, StartAlone DEF Register, Alone, Suspended
<1>2. CASE \E purpose \in {"register", "login"} : SendOtp(p, b, purpose)
  <2>1. "otp" \in Steps
    BY DEF Steps
  <2> QED
    BY <1>2, <2>1, StartAlone DEF SendOtp, Alone, Suspended
<1>3. CASE Verify(p, b)
  <2>1. "verifyDel" \in Steps
    BY DEF Steps
  <2> QED
    BY <1>3, <2>1, StartAlone DEF Verify, Alone, Suspended
<1>4. CASE Login(p, b)
  <2>1. "issue" \in Steps
    BY DEF Steps
  <2> QED
    BY <1>4, <2>1, StartAlone DEF Login, MayLogin, Alone, Suspended
<1>5. CASE Refresh(p, b)
  <2>1. "refresh" \in Steps
    BY DEF Steps
  <2> QED
    BY <1>5, <2>1, StartAlone DEF Refresh, Alone, Suspended
<1>6. CASE Logout(p, b)
  <2>1. "revoke" \in Steps
    BY DEF Steps
  <2>2. CASE Start(p, "revoke", b)
    BY <1>6, <2>1, <2>2, StartAlone DEF Logout, Alone, Suspended
  <2>3. CASE UNCHANGED <<request, overlapped, faults>>
    <3>1. \A c : tab'[c] \in {tab[c], Nothing}
      BY <1>6 DEF Logout, TypeInv, TypeOK
    <3> QED
      BY <1>6, <2>3, <3>1 DEF Logout, Alone, Suspended
  <2> QED
    BY <1>6, <2>2, <2>3 DEF Logout
<1>7. CASE SetPassword(p, b)
  <2>1. "setPassword" \in Steps
    BY DEF Steps
  <2> QED
    BY <1>7, <2>1, StartAlone DEF SetPassword, Alone, Suspended
<1>8. CASE ResetPassword(p, b)
  <2>1. "resetDel" \in Steps
    BY DEF Steps
  <2> QED
    BY <1>8, <2>1, StartAlone DEF ResetPassword, Alone, Suspended
<1> QED
  BY <1>1, <1>2, <1>3, <1>4, <1>5, <1>6, <1>7, <1>8 DEF Arrive

LEMMA ResumeAlone ==
    ASSUME TypeInv, Alone, NEW p \in Requests, Resume(p)
    PROVE  Alone'
<1> USE DEF history, user, At
<1>1. CASE RegisterCreate(p)
  <2>1. "otp" \in Steps
    BY DEF Steps
  <2>2. CASE Continue(p, "otp")
    BY <1>1, <2>1, <2>2, ContinueAlone DEF RegisterCreate, Alone, Suspended
  <2>3. CASE Return(p)
    BY <1>1, <2>3, ReturnAlone DEF RegisterCreate, Return, Alone, Suspended
  <2> QED
    BY <1>1, <2>2, <2>3 DEF RegisterCreate
<1>2. CASE StoreOtp(p)
  BY <1>2, ReturnAlone DEF StoreOtp, Return, Alone, Suspended
<1>3. CASE VerifyDel(p)
  <2>1. "verifyUser" \in Steps
    BY DEF Steps
  <2> QED
    BY <1>3, <2>1, ContinueAlone DEF VerifyDel, DeleteOtp, Alone, Suspended
<1>4. CASE VerifyUser(p)
  <2>1. "activate" \in Steps
    BY DEF Steps
  <2>2. CASE ~Suspended /\ Continue(p, "activate")
    BY <1>4, <2>1, <2>2, ContinueAlone DEF VerifyUser, Alone, Suspended
  <2>3. CASE Return(p)
    BY <1>4, <2>3, ReturnAlone DEF VerifyUser, Return, Alone, Suspended
  <2> QED
    BY <1>4, <2>2, <2>3 DEF VerifyUser
<1>5. CASE Activate(p)
  <2>1. "issue" \in Steps
    BY DEF Steps
  <2> QED
    BY <1>5, <2>1, ContinueAlone DEF Activate, Alone, Suspended
<1>6. CASE Issue(p)
  <2> DEFINE t == CHOOSE t \in Fresh : TRUE
  <2>1. /\ hash' = t /\ dead' = dead \ {t}
        /\ \/ UNCHANGED faults
           \/ faults < MaxFaults /\ faults' = faults + 1
        /\ request' = [request EXCEPT ![p] = Idle] /\ ~At(p, "idle")
        /\ UNCHANGED <<account, otp, used, overlapped>>
    BY <1>6 DEF Issue, Alone
  <2>2. \A q \in Requests : request'[q].step = "idle" /\ ~request'[q].old
    BY <2>1, ReturnAlone
  <2>3. faults' = 0 => faults = 0
    BY <2>1, FaultsAssumption DEF TypeInv, TypeOK
  <2>4. ~(faults = 0 /\ otp /\ used)
    BY <1>6 DEF Issue, Alone
  <2> HIDE DEF t
  <2> QED
    BY <2>1, <2>2, <2>3, <2>4 DEF Alone, Suspended
<1>7. CASE RefreshRead(p)
  <2>1. "issue" \in Steps /\ "revoke" \in Steps
    BY DEF Steps
  <2>2. CASE hash # Nothing /\ ~Suspended /\ Current(request[p].token)
             /\ Continue(p, "issue") /\ UNCHANGED tab
    <3>1. ~request[p].old
      BY <1>7, <2>2 DEF RefreshRead, Current, Alone
    <3> QED
      BY <1>7, <2>1, <2>2, <3>1, ContinueAlone DEF RefreshRead, Alone, Suspended
  <2>3. CASE Continue(p, "revoke")
    BY <1>7, <2>1, <2>3, ContinueAlone DEF RefreshRead, Alone, Suspended
  <2>4. CASE Return(p)
    BY <1>7, <2>4, ReturnAlone DEF RefreshRead, Return, Alone, Suspended
  <2> QED
    BY <1>7, <2>2, <2>3, <2>4 DEF RefreshRead
<1>8. CASE Revoke(p)
  BY <1>8, ReturnAlone, NothingAssumption DEF Revoke, Return, Alone, Suspended, TypeInv, TypeOK
<1>9. CASE SetPasswordWrite(p)
  BY <1>9, ReturnAlone DEF SetPasswordWrite, Return, Alone, Suspended
<1>10. CASE ResetDel(p)
  <2>1. "resetWrite" \in Steps
    BY DEF Steps
  <2> QED
    BY <1>10, <2>1, ContinueAlone DEF ResetDel, DeleteOtp, Alone, Suspended
<1>11. CASE ResetWrite(p)
  <2>1. CASE ~Exists
    BY <1>11, <2>1, ReturnAlone DEF ResetWrite, Return, Alone, Suspended
  <2>2. CASE Exists
    <3>1. \A q \in Requests : q # p => At(q, "idle")
      BY <1>11 DEF ResetWrite, Alone
    <3>2. request' = [q \in Requests |-> Idle]
      BY <1>11, <2>2, <3>1 DEF ResetWrite
    <3>3. \A q \in Requests : request'[q].step = "idle" /\ ~request'[q].old
      BY <3>2 DEF Idle
    <3>4. ~(faults = 0 /\ otp /\ used)
      BY <1>11, <3>1 DEF ResetWrite, Alone
    <3> QED
      BY <1>11, <2>2, <3>3, <3>4, NothingAssumption DEF ResetWrite, NoSession, Alone, Suspended
  <2> QED
    BY <2>1, <2>2
<1> QED
  BY <1>1, <1>2, <1>3, <1>4, <1>5, <1>6, <1>7, <1>8, <1>9, <1>10, <1>11 DEF Resume

(* That handlers overlapped is remembered.                                 *)
LEMMA OverlapStays ==
    ASSUME overlapped, [Next]_vars
    PROVE  overlapped'
<1>1. ASSUME NEW p \in Requests, NEW b \in Tabs, Arrive(p, b) PROVE overlapped'
  BY <1>1 DEF Arrive, Register, SendOtp, Verify, Login, Refresh, Logout,
              SetPassword, ResetPassword, Start
<1>2. ASSUME NEW p \in Requests, Resume(p) PROVE overlapped'
  BY <1>2 DEF Resume, RegisterCreate, StoreOtp, VerifyDel, VerifyUser, Activate,
              Issue, RefreshRead, Revoke, SetPasswordWrite, ResetDel, ResetWrite,
              Continue, Return
<1> QED
  BY <1>1, <1>2 DEF Next, ExpireOtp, Suspend, Die, vars

(* The inductive invariant of handlers that do not overlap.                *)
THEOREM AlwaysAlone == Spec => []SeqInv
<1>1. Init => Alone
  <2> SUFFICES ASSUME Init PROVE Alone
    OBVIOUS
  <2>1. \A p \in Requests : request[p].step = "idle" /\ ~request[p].old
    BY DEF Init, Idle
  <2> QED
    BY <2>1 DEF Init, Alone, At
<1>2. TypeInv /\ TypeInv' /\ SeqInv /\ [Next]_vars => SeqInv'
  <2> SUFFICES ASSUME TypeInv, Alone, [Next]_vars, ~overlapped', ~overlapped PROVE Alone'
    BY OverlapStays DEF SeqInv
  <2> USE DEF history, user, At
  <2>1. CASE ExpireOtp
    BY <2>1 DEF ExpireOtp, Alone, Suspended
  <2>2. CASE Suspend
    <3>1. \A p \in Requests : request[p].step = "idle"
      BY <2>2 DEF Suspend, Busy
    <3> QED
      BY <2>2, <3>1 DEF Suspend, Alone, Suspended
  <2>3. ASSUME NEW p \in Requests, Die(p) PROVE Alone'
    <3>1. \A q \in Requests : request'[q].step = "idle" /\ ~request'[q].old
      BY <2>3, ReturnAlone DEF Die
    <3>2. faults' # 0
      BY <2>3, FaultsAssumption DEF Die, TypeInv, TypeOK
    <3> QED
      BY <2>3, <3>1, <3>2 DEF Die, Alone, Suspended
  <2>4. CASE UNCHANGED vars
    BY <2>4 DEF vars, Alone, Suspended
  <2> QED
    BY <2>1, <2>2, <2>3, <2>4, ArriveAlone, ResumeAlone DEF Next
<1>3. Init /\ TypeInv => SeqInv
  BY <1>1 DEF SeqInv
<1> QED
  BY <1>2, <1>3, TypeCorrect, PTL DEF Spec

(* A one-time password lets somebody in once, and every column has its     *)
(* type (verifyOtp, resetPassword).                                        *)
THEOREM CodeIsUsedOnce == Spec => []CodeUsedOnce
<1>1. SeqInv => CodeUsedOnce
  BY DEF SeqInv, Alone, TypeInv, CodeUsedOnce
<1> QED
  BY <1>1, AlwaysAlone, PTL

(* A reset of the password ends the sessions there were (resetPassword,    *)
(* refresh).                                                               *)
THEOREM ResetEnds == Spec => []ResetEndsSessions
<1>1. SeqInv => ResetEndsSessions
  BY DEF SeqInv, Alone, ResetEndsSessions
<1> QED
  BY <1>1, AlwaysAlone, PTL

(* A suspended account is not put back and gets no session (verifyOtp,     *)
(* login, refresh).                                                        *)
THEOREM SuspendedStaysOut == Spec => SuspendedIsOut
<1>1. SeqInv /\ [Next]_vars =>
        [Suspended => overlapped' \/ (Suspended' /\ hash' \in {hash, Nothing})]_vars
  <2> SUFFICES ASSUME TypeInv, Alone, Next, Suspended, ~overlapped'
               PROVE  Suspended' /\ hash' \in {hash, Nothing}
    BY OverlapStays DEF SeqInv
  <2> USE DEF user, history, At, Suspended
  <2>1. ASSUME NEW p \in Requests, NEW b \in Tabs, Arrive(p, b)
        PROVE  account' = account /\ hash' = hash
    BY <2>1 DEF Arrive, Register, SendOtp, Verify, Login, Refresh, Logout,
                SetPassword, ResetPassword
  <2>2. ASSUME NEW p \in Requests, Resume(p)
        PROVE  account' = account /\ hash' \in {hash, Nothing}
    BY <2>2 DEF Alone, Resume, RegisterCreate, StoreOtp, VerifyDel, VerifyUser, Activate,
                Issue, RefreshRead, Revoke, SetPasswordWrite, ResetDel, ResetWrite, NoSession
  <2> QED
    BY <2>1, <2>2 DEF Next, ExpireOtp, Suspend, Die
<1> QED
  BY <1>1, AlwaysAlone, PTL DEF Spec, SuspendedIsOut
=============================================================================
