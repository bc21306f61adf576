------------------------------ MODULE Sessions ------------------------------
(***************************************************************************)
(* One account and its sessions: registration and one-time passwords,      *)
(* login, rotation of refresh tokens, logout and password reset.           *)
(*                                                                         *)
(* A request in flight is the statement it runs next, the tab that sent    *)
(* it, and the token a refresh came with.  A one-time password is only     *)
(* present or absent: whoever presents one presents the one that was       *)
(* mailed last.                                                            *)
(***************************************************************************)
EXTENDS Naturals, FiniteSets

CONSTANTS Tabs,       \* browser tabs and devices, each with tokens of its own
          Tokens,     \* refresh tokens; one that nobody holds may be made again
          Requests,
          Nothing,    \* no token, no tab
          MaxFaults   \* bound: so many handlers die or answers are lost

ASSUME NothingAssumption == Nothing \notin Tokens \union Tabs
ASSUME TokensAssumption ==      \* a new token is none that is in use
    \A h \in Tokens \union {Nothing}, held \in [Tabs -> Tokens \union {Nothing}],
       sent \in [Requests -> Tokens \union {Nothing}] :
        Tokens \ ({h} \union {held[b] : b \in Tabs} \union {sent[p] : p \in Requests}) # {}
ASSUME FaultsAssumption == MaxFaults \in Nat

VARIABLES
    account,    \* User.status, "none" before the row exists
    password,   \* User.passwordHash is set
    hash,       \* the token of which User.refreshTokenHash is the hash
    otp,        \* there is a one-time password in Redis
    tab,        \* the refresh token that each tab holds
    request,    \* the requests in flight
    used,       \* history: the current one-time password has let somebody in
    dead,       \* history: tokens of sessions begun before the last reset of
                \* the password
    overlapped, \* history: two requests were in flight at once
    faults      \* history: how many handlers died and answers were lost

user == <<account, password, hash>>
history == <<used, dead>>
vars == <<user, otp, tab, request, history, overlapped, faults>>

UserStatus == {"PENDING_VERIFICATION", "ACTIVE", "SUSPENDED"}

Steps == {"idle", "create", "otp", "verifyDel", "verifyUser", "activate", "issue",
          "refresh", "revoke", "setPassword", "resetDel", "resetWrite"}

(* Whether it came with a session begun before the last reset is history.  *)
RequestSet == [step : Steps, tab : Tabs \union {Nothing}, old : BOOLEAN,
               token : Tokens \union {Nothing}]

Idle == [step |-> "idle", tab |-> Nothing, old |-> FALSE, token |-> Nothing]

At(p, step) == request[p].step = step

Busy == \E p \in Requests : ~At(p, "idle")

Start(p, step, b) ==
    /\ request[p] = Idle
    /\ request' = [request EXCEPT ![p] =
          [step  |-> step, tab |-> b,
           old   |-> step = "refresh" /\ tab[b] \in dead,
           token |-> IF step = "refresh" THEN tab[b] ELSE Nothing]]
    /\ overlapped' = (overlapped \/ Busy)
    /\ UNCHANGED faults

Continue(p, step) ==
    /\ request' = [request EXCEPT ![p].step = step, ![p].token = Nothing]
    /\ UNCHANGED <<overlapped, faults>>

Return(p) ==
    /\ request' = [request EXCEPT ![p] = Idle]
    /\ UNCHANGED <<overlapped, faults>>

Suspended == account = "SUSPENDED"

Init ==
    /\ account = "none"
    /\ password = FALSE
    /\ hash = Nothing
    /\ otp = FALSE
    /\ tab = [b \in Tabs |-> Nothing]
    /\ request = [p \in Requests |-> Idle]
    /\ used = FALSE
    /\ dead = {}
    /\ overlapped = FALSE
    /\ faults = 0

-----------------------------------------------------------------------------
(* Registration and one-time passwords. *)

(* Mutant: a second attempt is always a conflict.                          *)
OnlyCreate == "create"

(* A second attempt before verification is answered like the first; the    *)
(* account of somebody verified is a conflict.                             *)
RegisterStep == IF account = "PENDING_VERIFICATION" THEN "otp" ELSE "create"

Register(p, b) ==
    /\ account \in {"none", "PENDING_VERIFICATION"}
    /\ Start(p, RegisterStep, b)
    /\ UNCHANGED <<user, otp, tab, history>>

(* E-mail and mobile are unique: the second insert fails.                  *)
RegisterCreate(p) ==
    /\ At(p, "create")
    /\ \/ account = "none" /\ account' = "PENDING_VERIFICATION" /\ Continue(p, "otp")
       \/ account # "none" /\ UNCHANGED account /\ Return(p)
    /\ UNCHANGED <<password, hash, otp, tab, history>>

(* For a login the account must exist; for a registration nothing is       *)
(* looked up.                                                              *)
SendOtp(p, b, purpose) ==
    /\ purpose = "login" => account # "none" /\ ~Suspended
    /\ Start(p, "otp", b)
    /\ UNCHANGED <<user, otp, tab, history>>

StoreOtp(p) ==
    /\ At(p, "otp")
    /\ otp' = TRUE
    /\ used' = FALSE
    /\ Return(p)
    /\ UNCHANGED <<user, tab, dead>>

ExpireOtp == /\ otp
             /\ otp' = FALSE
             /\ UNCHANGED <<user, tab, request, history, overlapped, faults>>

(* The stored one is read and compared, and then whatever is stored is     *)
(* deleted.                                                                *)
Verify(p, b) ==
    /\ otp
    /\ used' = TRUE
    /\ Start(p, "verifyDel", b)
    /\ UNCHANGED <<user, otp, tab, dead>>

(* Mutant: the one-time password stays until it expires.                   *)
KeepOtp == UNCHANGED otp

DeleteOtp == otp' = FALSE

VerifyDel(p) ==
    /\ At(p, "verifyDel")
    /\ DeleteOtp
    /\ Continue(p, "verifyUser")
    /\ UNCHANGED <<user, tab, history>>

VerifyUser(p) ==
    /\ At(p, "verifyUser")
    /\ \/ account # "none" /\ ~Suspended /\ Continue(p, "activate")
       \/ (account = "none" \/ Suspended) /\ Return(p)
    /\ UNCHANGED <<user, otp, tab, history>>

(* The status is written without looking at it again.                      *)
Activate(p) ==
    /\ At(p, "activate")
    /\ account' = "ACTIVE"
    /\ Continue(p, "issue")
    /\ UNCHANGED <<password, hash, otp, tab, history>>

-----------------------------------------------------------------------------
(* Sessions. *)

Fresh == Tokens \ ({hash} \union {tab[b] : b \in Tabs} \union {request[p].token : p \in Requests})

(* issueTokens: the hash is stored and the tab told, unless the answer is  *)
(* lost or the handler dies in between.                                    *)
Issue(p) ==
    /\ At(p, "issue")
    /\ LET t == CHOOSE t \in Fresh : TRUE IN
          /\ hash' = t
          /\ dead' = IF request[p].old THEN dead \union {t} ELSE dead \ {t}
          /\ \/ tab' = [tab EXCEPT ![request[p].tab] = t] /\ UNCHANGED faults
             \/ faults < MaxFaults /\ faults' = faults + 1 /\ UNCHANGED tab
    /\ request' = [request EXCEPT ![p] = Idle]
    /\ UNCHANGED <<account, password, otp, used, overlapped>>

(* Mutant: the status is not looked at.                                    *)
AnyLogin == password

(* The password is right.                                                  *)
MayLogin == password /\ ~Suspended

Login(p, b) ==
    /\ MayLogin
    /\ Start(p, "issue", b)
    /\ UNCHANGED <<user, otp, tab, history>>

Refresh(p, b) ==
    /\ tab[b] # Nothing
    /\ Start(p, "refresh", b)
    /\ UNCHANGED <<user, otp, tab, history>>

(* Mutant: any session is as good as the current one.                      *)
AnySession(t) == hash # Nothing

Current(t) == hash = t

(* The token that came with the request is compared, whatever became of    *)
(* the tab since.  A tab whose token is refused forgets its session; one   *)
(* whose token was replaced takes the current session with it.             *)
RefreshRead(p) ==
    LET b == request[p].tab
    IN  /\ At(p, "refresh")
        /\ \/ hash # Nothing /\ ~Suspended /\ Current(request[p].token)
              /\ Continue(p, "issue") /\ UNCHANGED tab
           \/ hash # Nothing /\ ~Suspended /\ ~Current(request[p].token)
              /\ Continue(p, "revoke") /\ tab' = [tab EXCEPT ![b] = Nothing]
           \/ (hash = Nothing \/ Suspended)
              /\ Return(p) /\ tab' = [tab EXCEPT ![b] = Nothing]
        /\ UNCHANGED <<user, otp, history>>

Revoke(p) ==
    /\ At(p, "revoke")
    /\ hash' = Nothing
    /\ Return(p)
    /\ UNCHANGED <<account, password, otp, tab, history>>

(* The tab forgets its tokens whatever the answer; nothing happens on the  *)
(* server unless they are the current ones.                                *)
Logout(p, b) ==
    /\ tab[b] # Nothing
    /\ \/ Current(tab[b]) /\ Start(p, "revoke", b)
       \/ ~Current(tab[b]) /\ UNCHANGED <<request, overlapped, faults>>
    /\ tab' = [tab EXCEPT ![b] = Nothing]
    /\ UNCHANGED <<user, otp, history>>

-----------------------------------------------------------------------------
(* Passwords.  Between the checks and the write the password is hashed. *)

(* An access token is good for some minutes whatever became of the session.*)
SetPassword(p, b) ==
    /\ tab[b] # Nothing
    /\ ~Suspended
    /\ Start(p, "setPassword", b)
    /\ UNCHANGED <<user, otp, tab, history>>

SetPasswordWrite(p) ==
    /\ At(p, "setPassword")
    /\ password' = TRUE
    /\ Return(p)
    /\ UNCHANGED <<account, hash, otp, tab, history>>

ResetPassword(p, b) ==
    /\ otp
    /\ used' = TRUE
    /\ Start(p, "resetDel", b)
    /\ UNCHANGED <<user, otp, tab, dead>>

ResetDel(p) ==
    /\ At(p, "resetDel")
    /\ DeleteOtp
    /\ Continue(p, "resetWrite")
    /\ UNCHANGED <<user, tab, history>>

(* Mutant: the sessions go on under the new password.                      *)
KeepSession == hash

NoSession == Nothing

(* Mutant: the password is stored although there is no account.            *)
Anybody == TRUE

Exists == account # "none"

(* The update fails if there is no such account.                           *)
ResetWrite(p) ==
    /\ At(p, "resetWrite")
    /\ \/ /\ Exists
          /\ password' = TRUE
          /\ hash' = NoSession
          /\ dead' = Tokens
          /\ request' = [q \in Requests |->
                           IF q = p \/ At(q, "idle") THEN Idle
                           ELSE [request[q] EXCEPT !.old = TRUE]]
          /\ UNCHANGED <<overlapped, faults>>
       \/ ~Exists /\ Return(p) /\ UNCHANGED <<password, hash, dead>>
    /\ UNCHANGED <<account, otp, tab, used>>

-----------------------------------------------------------------------------
(* An administrator suspends the account in the database.                  *)
Suspend ==
    /\ account \in {"PENDING_VERIFICATION", "ACTIVE"}
    /\ account' = "SUSPENDED"
    /\ overlapped' = (overlapped \/ Busy)
    /\ UNCHANGED <<password, hash, otp, tab, request, history, faults>>

Die(p) ==
    /\ ~At(p, "idle")
    /\ faults < MaxFaults
    /\ faults' = faults + 1
    /\ request' = [request EXCEPT ![p] = Idle]
    /\ UNCHANGED <<user, otp, tab, history, overlapped>>

Arrive(p, b) ==
    \/ Register(p, b)
    \/ \E purpose \in {"register", "login"} : SendOtp(p, b, purpose)
    \/ Verify(p, b) \/ Login(p, b)
    \/ Refresh(p, b) \/ Logout(p, b)
    \/ SetPassword(p, b) \/ ResetPassword(p, b)

Resume(p) ==
    \/ RegisterCreate(p) \/ StoreOtp(p)
    \/ VerifyDel(p) \/ VerifyUser(p) \/ Activate(p)
    \/ Issue(p) \/ RefreshRead(p) \/ Revoke(p)
    \/ SetPasswordWrite(p) \/ ResetDel(p) \/ ResetWrite(p)

Next ==
    \/ ExpireOtp \/ Suspend
    \/ \E p \in Requests : Resume(p) \/ Die(p) \/ \E b \in Tabs : Arrive(p, b)

Spec == Init /\ [][Next]_vars

(* Handlers that do not die run to their end.  Somebody who wants an       *)
(* account registers until it is verified, and enters the one-time         *)
(* password whenever there is one for long enough.                         *)
FairSpec == /\ Spec
            /\ \A p \in Requests : WF_vars(Resume(p))
            /\ SF_vars(\E p \in Requests, b \in Tabs : Register(p, b))
            /\ SF_vars(\E p \in Requests, b \in Tabs : Verify(p, b))
-----------------------------------------------------------------------------
(* Types; and nobody has a session before there is an account.             *)
TypeOK ==
    /\ account \in {"none"} \union UserStatus
    /\ password \in BOOLEAN /\ otp \in BOOLEAN
    /\ hash \in Tokens \union {Nothing}
    /\ tab \in [Tabs -> Tokens \union {Nothing}]
    /\ request \in [Requests -> RequestSet]
    /\ account = "none" => hash = Nothing /\ ~password
    /\ used \in BOOLEAN /\ dead \subseteq Tokens
    /\ overlapped \in BOOLEAN /\ faults \in 0 .. MaxFaults

(* The account is well-formed.  A one-time password lets somebody in once, *)
(* as long as handlers do not overlap or die: one that is still stored has *)
(* not been used (verifyOtp, resetPassword).                               *)
CodeUsedOnce ==
    /\ TypeOK
    /\ ~overlapped /\ faults = 0 /\ otp /\ used =>
          \E p \in Requests : At(p, "verifyDel") \/ At(p, "resetDel")

(* docs/GO_LIVE_CHECKLIST.md 7A.1: "Refuse SUSPENDED on OTP verify,        *)
(* password login, refresh; never flip suspended -> ACTIVE".  True as long *)
(* as handlers do not overlap.                                             *)
SuspendedIsOut ==
    [][Suspended => overlapped' \/ (Suspended' /\ hash' \in {hash, Nothing})]_vars

(* docs/FUNCTIONALITY.md: a password reset ends the sessions there were:   *)
(* none of them goes on under a token it is given later, unless a handler  *)
(* that had read the user before ran beside the reset (resetPassword,      *)
(* refresh).                                                               *)
ResetEndsSessions == ~overlapped => hash \notin dead

(* A registration is brought to an end by trying again, whatever died,     *)
(* expired or got lost on the way.                                         *)
RegistrationCompletes == <>(account \in {"ACTIVE", "SUSPENDED"})
=============================================================================
