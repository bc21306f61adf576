----------------------------- MODULE ApiClient -----------------------------
(***************************************************************************)
(* The HTTP client of one browser tab: a response cache, one promise for   *)
(* equal reads, retries of reads, and a refresh of the access token that   *)
(* all calls share.                                                        *)
(*                                                                         *)
(* The tab shows one resource; what it reads is the number of writes that  *)
(* the server had carried out.  Some writes go to the path that it is read *)
(* from, others to paths of their own.  Every call is sent with the access *)
(* token of the tab: the header that a page sets has a name in lower case, *)
(* which the interceptor does not look for.  That token is also part of    *)
(* the key of the cache and of the promises, so that a call which began    *)
(* before a refresh has a key that nobody asks for after it.               *)
(* The code between two awaits is one action; the server's part of a call  *)
(* is another.                                                             *)
(***************************************************************************)
EXTENDS Naturals

CONSTANTS Calls,        \* slots for calls in flight: at most this many at a time
          None,         \* nothing cached, no call
          MaxAttempts,  \* API_MAX_ATTEMPTS
          MaxWrites,    \* bound: so many writes
          MaxMishaps    \* bound: so many expired tokens and lost answers

ASSUME NoneAssumption == None \notin Calls \union Nat
ASSUME AttemptsAssumption == MaxAttempts \in Nat \ {0}
ASSUME BoundsAssumption == MaxWrites \in Nat /\ MaxMishaps \in Nat

VARIABLES
    db,        \* the writes that the server has carried out
    hold,      \* the tab's refresh token is the "current" one, an "old" one, or "none"
    token,     \* the access token in sessionStorage is accepted
    cache,     \* the entry of responseCache for the resource and the tab's token
    inFlight,  \* the call whose promise equal reads share
    call,      \* the calls
    acked,     \* history: the writes to the resource's own path that were answered
    stranded,  \* history: the calls that were queued when a refresh threw
    lockedOut, \* history: the answer to a refresh was lost
    mishaps    \* history: expired tokens and lost answers

tab == <<hold, token>>
vars == <<db, tab, cache, inFlight, call, acked, stranded, lockedOut, mishaps>>

Refreshing == {"refresh", "refreshed", "refused", "threw"}

Steps == {"idle", "sent", "ok", "unauthorized", "failed", "backoff", "queued",
          "joined"} \union Refreshing

CallSet == [step    : Steps,
            write   : BOOLEAN,
            own     : BOOLEAN,             \* a write to the path that the resource is read from
            fresh   : BOOLEAN,             \* a read whose key has the tab's present token
            good    : BOOLEAN,             \* its access token is accepted
            retried : BOOLEAN,             \* _retry
            attempt : 1 .. MaxAttempts,
            current : BOOLEAN,             \* the refresh token it sent is current
            seen    : 0 .. MaxWrites,      \* the answer
            late    : BOOLEAN,             \* history: such a write was answered since it was sent
            ran     : 0 .. MaxAttempts,    \* history: the server carried it out
            on      : Calls \union {None}] \* the call whose promise it shares

Idle == [step |-> "idle", write |-> FALSE, own |-> FALSE, fresh |-> FALSE, good |-> FALSE,
         retried |-> FALSE, attempt |-> 1, current |-> FALSE, seen |-> 0, late |-> FALSE,
         ran |-> 0, on |-> None]

At(c, step) == call[c].step = step

Mishap == mishaps < MaxMishaps /\ mishaps' = mishaps + 1

Queued == {c \in Calls : At(c, "queued")}

Init ==
    /\ db = 0 /\ acked = 0
    /\ hold = "current" /\ token = TRUE
    /\ cache = None /\ inFlight = None
    /\ call = [c \in Calls |-> Idle]
    /\ stranded = {}
    /\ lockedOut = FALSE
    /\ mishaps = 0

-----------------------------------------------------------------------------
(* Calls: requestWithPolicy. *)

(* A read that is answered from the cache changes nothing; an equal read   *)
(* in flight is shared.                                                    *)
StartRead(c) ==
    /\ At(c, "idle")
    /\ hold # "none"
    /\ cache = None
    /\ \/ /\ inFlight = None
          /\ call' = [call EXCEPT ![c] = [Idle EXCEPT !.step = "sent", !.good = token,
                                                          !.fresh = TRUE]]
          /\ inFlight' = c
       \/ /\ inFlight # None
          /\ call' = [call EXCEPT ![c] = [Idle EXCEPT !.step = "joined", !.on = inFlight]]
          /\ UNCHANGED inFlight
    /\ UNCHANGED <<db, tab, cache, acked, stranded, lockedOut, mishaps>>

Writing == {c \in Calls : call[c].write}

StartWrite(c) ==
    /\ At(c, "idle")
    /\ hold # "none"
    /\ db < MaxWrites /\ Writing = {}  \* bound
    /\ \E own \in BOOLEAN :
          call' = [call EXCEPT ![c] = [Idle EXCEPT !.step = "sent", !.write = TRUE,
                                                   !.own = own, !.good = token]]
    /\ UNCHANGED <<db, tab, cache, inFlight, acked, stranded, lockedOut, mishaps>>

(* The server carries out a write, or answers a read with what there is.   *)
Execute(c, outcome) ==
    IF call[c].write
    THEN /\ db' = db + 1
         /\ call' = [call EXCEPT ![c].step = outcome, ![c].seen = db', ![c].ran = @ + 1]
    ELSE /\ UNCHANGED db
         /\ call' = [call EXCEPT ![c].step = outcome, ![c].seen = db]

(* A failure, or a timeout, may come before or after the server has done   *)
(* what it was asked for.                                                  *)
Serve(c) ==
    /\ At(c, "sent")
    /\ \/ call[c].good /\ Execute(c, "ok") /\ UNCHANGED mishaps
       \/ ~call[c].good /\ UNCHANGED <<db, mishaps>>
             /\ call' = [call EXCEPT ![c].step = "unauthorized"]
       \/ Mishap /\ UNCHANGED db /\ call' = [call EXCEPT ![c].step = "failed"]
       \/ Mishap /\ call[c].good /\ call[c].write /\ Execute(c, "failed")
    /\ UNCHANGED <<tab, cache, inFlight, acked, stranded, lockedOut>>

(* Mutant: those that share the promise are not told.                      *)
SettledAlone(c) == [call EXCEPT ![c] = Idle]

(* The calls after c has come to its end; those that share its promise end *)
(* with it.                                                                *)
Settled(c) == [d \in Calls |-> IF d = c \/ call[d].on = c THEN Idle ELSE call[d]]

(* .finally forgets the promise that is there for the key of the call.     *)
Forget(c) == inFlight' = IF call[c].fresh THEN None ELSE inFlight

ReadAnswered(c) ==
    /\ At(c, "ok") /\ ~call[c].write
    /\ cache' = IF call[c].fresh THEN [seen |-> call[c].seen, late |-> call[c].late] ELSE cache
    /\ call' = Settled(c)
    /\ Forget(c)
    /\ UNCHANGED <<db, tab, acked, stranded, lockedOut, mishaps>>

(* Mutant: a write leaves the cache alone.                                 *)
NotInvalidated(c) == cache

(* Only entries whose key has the path of the write are deleted.           *)
Invalidated(c) == IF call[c].own THEN None ELSE cache

LateNow(d) == call[d].step \in {"sent", "ok"}

WriteAnswered(c) ==
    /\ At(c, "ok") /\ call[c].write
    /\ acked' = IF call[c].own THEN call[c].seen ELSE acked
    /\ cache' = Invalidated(c)
    /\ call' = [d \in Calls |-> IF d = c THEN Idle
                                ELSE [call[d] EXCEPT !.late = IF call[c].own THEN LateNow(d)
                                                              ELSE @]]
    /\ UNCHANGED <<db, tab, inFlight, stranded, lockedOut, mishaps>>

(* Mutant: writes are retried as well.                                     *)
RetryableAny(c) == call[c].attempt < MaxAttempts

(* A failed write may have been carried out.                               *)
Retryable(c) == ~call[c].write /\ call[c].attempt < MaxAttempts

Waiting(c) == [Idle EXCEPT !.step = "backoff", !.attempt = call[c].attempt,
                            !.write = call[c].write, !.fresh = call[c].fresh,
                            !.ran = call[c].ran]

(* What becomes of the calls when c fails: another attempt after a while,  *)
(* or the end.                                                             *)
Failed(c) == IF Retryable(c) THEN [call EXCEPT ![c] = Waiting(c)] ELSE Settled(c)

(* A call that was sent again after a refresh is not retried.              *)
CallFailed(c) ==
    /\ At(c, "failed")
    /\ IF call[c].retried THEN call' = Settled(c) ELSE call' = Failed(c)
    /\ IF call'[c] = Idle THEN Forget(c) ELSE UNCHANGED inFlight
    /\ UNCHANGED <<db, tab, cache, acked, stranded, lockedOut, mishaps>>

(* The next attempt starts from the configuration of the page, and is sent *)
(* with the token that the tab has then.                                   *)
NextAttempt(c) ==
    /\ At(c, "backoff")
    /\ call' = [call EXCEPT ![c].step = "sent", ![c].attempt = @ + 1,
                            ![c].good = token, ![c].retried = FALSE, ![c].late = FALSE]
    /\ UNCHANGED <<db, tab, cache, inFlight, acked, stranded, lockedOut, mishaps>>

-----------------------------------------------------------------------------
(* The response interceptor: one refresh for all calls that need it. *)

(* Mutant: every call refreshes for itself.                                *)
NoRefresh == TRUE

NoRefreshInFlight == \A c \in Calls : call[c].step \notin Refreshing

Unauthorized(c) ==
    /\ At(c, "unauthorized")
    /\ \/ /\ call[c].retried
          /\ call' = Settled(c)
          /\ Forget(c)
       \/ /\ ~call[c].retried
          /\ ~NoRefreshInFlight
          /\ call' = [call EXCEPT ![c].step = "queued"]
          /\ UNCHANGED inFlight
       \/ /\ ~call[c].retried
          /\ NoRefreshInFlight
          /\ call' = [call EXCEPT ![c].step = "refresh", ![c].retried = TRUE,
                                  ![c].current = hold = "current"]
          /\ UNCHANGED inFlight
    /\ UNCHANGED <<db, tab, cache, acked, stranded, lockedOut, mishaps>>

(* The server replaces the current token, and ends the session when an old *)
(* one is presented.  In either case the tokens sent by others are old.    *)
ServeRefresh(c) ==
    /\ At(c, "refresh")
    /\ \/ /\ UNCHANGED <<mishaps, lockedOut>>
          /\ hold' = IF hold = "current" THEN "old" ELSE hold
          /\ call' = [d \in Calls |->
                        IF d = c THEN [call[c] EXCEPT !.step = IF call[c].current
                                                               THEN "refreshed" ELSE "refused"]
                        ELSE [call[d] EXCEPT !.current = FALSE]]
       \/ /\ Mishap
          /\ call' = [call EXCEPT ![c].step = "threw", ![c].current = FALSE]
          /\ \/ UNCHANGED <<hold, lockedOut>>
             \/ /\ hold = "current"
                /\ hold' = "old"
                /\ lockedOut' = TRUE
    /\ UNCHANGED <<db, token, cache, inFlight, acked, stranded>>

(* The queued calls, and the one that refreshed, are sent with the new     *)
(* token.  What is in flight keeps the key of the old one.                 *)
Refreshed(c) ==
    /\ At(c, "refreshed")
    /\ hold' = "current" /\ token' = TRUE
    /\ call' = [d \in Calls |-> IF d \in Queued \union {c}
                                THEN [call[d] EXCEPT !.step = "sent", !.good = TRUE,
                                                     !.current = FALSE, !.late = FALSE,
                                                     !.fresh = FALSE]
                                ELSE [call[d] EXCEPT !.fresh = FALSE]]
    /\ cache' = None /\ inFlight' = None
    /\ stranded' = {}
    /\ UNCHANGED <<db, acked, lockedOut, mishaps>>

(* Mutant: the queue is kept for a refresh that succeeds.                  *)
NothingRejected(c) == {c}

Rejected(c) == Queued \union {c}

AfterReject(rejected, d) ==
    IF d \in rejected
    THEN IF Retryable(d) THEN Waiting(d) ELSE Idle
    ELSE IF call[d].on \in rejected /\ ~Retryable(call[d].on) THEN Idle ELSE call[d]

(* The queue is rejected, the tab signed out and sent to the login page.   *)
(* The error is not one of axios, so that reads are tried again.           *)
Refused(c) ==
    /\ At(c, "refused")
    /\ call' = [d \in Calls |-> [AfterReject(Rejected(c), d) EXCEPT !.fresh = FALSE]]
    /\ hold' = "none" /\ token' = FALSE
    /\ cache' = None /\ inFlight' = None
    /\ stranded' = {}
    /\ UNCHANGED <<db, acked, lockedOut, mishaps>>

(* No answer, or an error of the server: only the call that refreshed      *)
(* learns of it.                                                           *)
Threw(c) ==
    /\ At(c, "threw")
    /\ call' = Failed(c)
    /\ IF call'[c] = Idle THEN Forget(c) ELSE UNCHANGED inFlight
    /\ stranded' = Queued
    /\ UNCHANGED <<db, tab, cache, acked, lockedOut, mishaps>>

-----------------------------------------------------------------------------
(* What happens around the calls. *)

ExpireCache ==
    /\ cache # None
    /\ cache' = None
    /\ UNCHANGED <<db, tab, inFlight, call, acked, stranded, lockedOut, mishaps>>

(* Every access token issued so far is now refused.                        *)
ExpireToken ==
    /\ Mishap
    /\ token' = FALSE
    /\ call' = [c \in Calls |-> [call[c] EXCEPT !.good = FALSE]]
    /\ UNCHANGED <<db, hold, cache, inFlight, acked, stranded, lockedOut>>

Quiet == \A c \in Calls : At(c, "idle")

SignIn ==
    /\ Quiet /\ hold = "none"
    /\ hold' = "current" /\ token' = TRUE
    /\ lockedOut' = FALSE
    /\ cache' = None
    /\ UNCHANGED <<db, inFlight, call, acked, stranded, mishaps>>

Progress(c) ==
    \/ Serve(c) \/ ReadAnswered(c) \/ WriteAnswered(c) \/ CallFailed(c) \/ NextAttempt(c)
    \/ Unauthorized(c) \/ ServeRefresh(c) \/ Refreshed(c) \/ Refused(c) \/ Threw(c)

Next ==
    \/ \E c \in Calls : StartRead(c) \/ StartWrite(c) \/ Progress(c)
    \/ ExpireCache \/ ExpireToken \/ SignIn

Spec == Init /\ [][Next]_vars

(* Requests are answered or time out, and the event loop runs.             *)
FairSpec == Spec /\ \A c \in Calls : WF_vars(Progress(c))

-----------------------------------------------------------------------------
(* Types; and calls wait only for the promise of a call that is not over.  *)
TypeOK ==
    /\ db \in 0 .. MaxWrites /\ acked \in 0 .. db
    /\ hold \in {"current", "old", "none"} /\ token \in BOOLEAN
    /\ cache \in [seen : 0 .. MaxWrites, late : BOOLEAN] \union {None}
    /\ inFlight \in Calls \union {None}
    /\ call \in [Calls -> CallSet]
    /\ stranded \subseteq Calls /\ lockedOut \in BOOLEAN /\ mishaps \in 0 .. MaxMishaps
    /\ \A c \in Calls : At(c, "joined") => ~At(call[c].on, "idle")

(* "Never retry mutating requests": however a write fails, and whatever is *)
(* refreshed on its way, the server carries it out at most once.           *)
WritesRunOnce == \A c \in Calls : call[c].write => call[c].ran <= 1

(* After the answer to a write to the path that it is read from, the tab   *)
(* does not show what was there before it, unless a read was under way     *)
(* when it came.  Of a write to another path this does not hold: the cache *)
(* may show for as long as its entries live what was there before it.      *)
CacheHasOwnWrites == cache # None => cache.seen >= acked \/ cache.late

(* However many calls find the token expired, the tab keeps its session,   *)
(* unless the answer to a refresh is lost: a second refresh with the same  *)
(* token would end it.                                                     *)
StaysSignedIn == hold = "none" => lockedOut

(* Calls are well-formed, and neither a write nor a refresh is carried out *)
(* twice (isRetryable, the 401 branch of the interceptor).                 *)
NothingRunsTwice == TypeOK /\ WritesRunOnce /\ StaysSignedIn

(* Every call ends, also those that wait for the refresh of another one,   *)
(* unless a refresh that threw has left calls in the queue.                *)
CallsSettle == \A c \in Calls : ~At(c, "idle") ~> At(c, "idle") \/ stranded # {}
=============================================================================
