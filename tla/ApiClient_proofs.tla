-------------------------- MODULE ApiClient_proofs --------------------------
(***************************************************************************)
(* Proofs about ApiClient, for any number of calls, attempts, writes and   *)
(* mishaps: the server carries out no write twice, only one call refreshes *)
(* the token at a time, so that the tab keeps its session unless an answer *)
(* is lost, and the cache never hides an answered write to its own path.   *)
(***************************************************************************)
EXTENDS ApiClient, TLAPS

(* What is typed by itself.                                                *)
Typed ==
    /\ db \in 0 .. MaxWrites /\ acked \in 0 .. db
    /\ hold \in {"current", "old", "none"} /\ token \in BOOLEAN
    /\ cache \in [seen : 0 .. MaxWrites, late : BOOLEAN] \union {None}
    /\ inFlight \in Calls \union {None}
    /\ call \in [Calls -> CallSet]
    /\ stranded \subseteq Calls /\ lockedOut \in BOOLEAN /\ mishaps \in 0 .. MaxMishaps

(* A write is carried out once and then ends; a read that was answered saw *)
(* the writes that had been, or knows that it may not have.                *)
CallOK(c) ==
    /\ call[c].write => /\ call[c].step \notin {"idle", "joined", "backoff"}
                        /\ \/ call[c].ran = 0 /\ db < MaxWrites
                           \/ call[c].ran = 1 /\ call[c].step \in {"ok", "failed"}
    /\ ~call[c].write => call[c].ran = 0
    /\ call[c].step = "backoff" => call[c].attempt < MaxAttempts
    /\ call[c].seen <= db
    /\ call[c].step = "ok" /\ ~call[c].write => call[c].seen >= acked \/ call[c].late

CallsOK == \A c \in Calls : CallOK(c)

(* A promise that is shared is that of a read under way, and one that new  *)
(* reads find has the key of the tab's present token.                      *)
Shared(c) == c \in Calls /\ call[c].step \notin {"idle", "joined"} /\ ~call[c].write

Sharing ==
    /\ \A c \in Calls : IF call[c].step = "joined" THEN Shared(call[c].on)
                        ELSE call[c].on = None
    /\ inFlight # None => Shared(inFlight) /\ call[inFlight].fresh

OneWriter == \A c, d \in Calls : call[c].write /\ call[d].write => c = d

OneRefresh ==
    \A c, d \in Calls : call[c].step \in Refreshing /\ call[d].step \in Refreshing => c = d

(* Unless the answer to a refresh was lost, the tab has the current token  *)
(* when it refreshes, and is about to have it after that.                  *)
Session ==
    ~lockedOut =>
        /\ hold # "none"
        /\ hold = "old" => \E c \in Calls : call[c].step = "refreshed"
        /\ \A c \in Calls : call[c].step = "refresh" => call[c].current /\ hold = "current"
        /\ \A c \in Calls : call[c].step # "refused"

Inv == Typed /\ CallsOK /\ Sharing /\ OneWriter /\ OneRefresh /\ Session /\ CacheHasOwnWrites

-----------------------------------------------------------------------------
(* What a step keeps, from what it does to each call.                      *)

Same(c) == /\ call'[c].write = call[c].write /\ call'[c].on = call[c].on
           /\ call'[c].step = "idle" <=> call[c].step = "idle"
           /\ call'[c].step = "joined" <=> call[c].step = "joined"
           /\ (inFlight' # None /\ call[c].fresh => call'[c].fresh)

LEMMA IdleIsTyped == Idle \in CallSet /\ Idle.step = "idle" /\ ~Idle.write /\ Idle.on = None
                     /\ Idle.ran = 0 /\ Idle.seen = 0
BY AttemptsAssumption, BoundsAssumption, NoneAssumption DEF Idle, CallSet, Steps

(* The calls in E end, and with them all that share their promises.        *)
LEMMA SharingStays ==
    ASSUME Inv, NEW E \in SUBSET Calls,
           \A d \in E : call'[d] = Idle,
           \A d \in Calls \ E : Same(d),
           \A d \in Calls : call[d].on \in E => d \in E,
           inFlight' \in {inFlight, None} \ E
    PROVE  Sharing'
<1>1. ASSUME NEW d \in Calls, call'[d].step = "joined", NEW o, o = call'[d].on
      PROVE  o \in Calls /\ call'[o].step \notin {"idle", "joined"} /\ ~call'[o].write
  <2>1. d \notin E
    BY <1>1, IdleIsTyped
  <2>2. call[d].step = "joined" /\ o = call[d].on
    BY <1>1, <2>1 DEF Same
  <2>3. Shared(o) /\ o \notin E
    BY <2>1, <2>2 DEF Inv, Sharing
  <2>4. Same(o)
    BY <2>3 DEF Shared
  <2> QED
    BY <2>3, <2>4 DEF Shared, Same
<1>2. ASSUME NEW d \in Calls, call'[d].step # "joined" PROVE call'[d].on = None
  <2>1. CASE d \in E
    BY <2>1, IdleIsTyped
  <2>2. CASE d \notin E
    BY <1>2, <2>2 DEF Same, Inv, Sharing
  <2> QED
    BY <2>1, <2>2
<1>3. ASSUME inFlight' # None
      PROVE  /\ inFlight' \in Calls /\ call'[inFlight'].step \notin {"idle", "joined"}
             /\ ~call'[inFlight'].write /\ call'[inFlight'].fresh
  <2>1. /\ inFlight' = inFlight /\ Shared(inFlight) /\ inFlight \notin E
        /\ call[inFlight].fresh
    BY <1>3 DEF Inv, Sharing
  <2>2. Same(inFlight)
    BY <2>1 DEF Shared
  <2> QED
    BY <1>3, <2>1, <2>2 DEF Shared, Same
<1> QED
  BY <1>1, <1>2, <1>3 DEF Sharing, Shared

LEMMA SharingKept ==
    ASSUME Inv, \A d \in Calls : Same(d), inFlight' \in {inFlight, None}
    PROVE  Sharing'
<1> DEFINE E == {}
<1>1. /\ E \in SUBSET Calls
      /\ \A d \in E : call'[d] = Idle
      /\ \A d \in Calls \ E : Same(d)
      /\ \A d \in Calls : call[d].on \in E => d \in E
      /\ inFlight' \in {inFlight, None} \ E
  OBVIOUS
<1> HIDE DEF E
<1> QED
  BY <1>1, SharingStays

LEMMA OneWriterStays ==
    ASSUME Inv, \A d \in Calls : call'[d].write => call[d].write
    PROVE  OneWriter'
BY DEF Inv, OneWriter

LEMMA OneRefreshStays ==
    ASSUME Inv, \A d \in Calls : call'[d].step \in Refreshing => call[d].step \in Refreshing
    PROVE  OneRefresh'
BY DEF Inv, OneRefresh

(* No call begins, ends or continues a refresh that the server has         *)
(* answered.                                                               *)
LEMMA SessionStays ==
    ASSUME Inv, UNCHANGED <<hold, lockedOut>>,
           \A d \in Calls :
               /\ call[d].step = "refreshed" => call'[d].step = "refreshed"
               /\ call'[d].step = "refused" => call[d].step = "refused"
               /\ call'[d].step = "refresh" => call[d].step = "refresh"
                                               /\ call'[d].current = call[d].current
    PROVE  Session'
BY DEF Inv, Session

(* A call of which nothing changes that CallOK speaks of.                  *)
LEMMA CallStaysOK ==
    ASSUME Inv, UNCHANGED <<db, acked>>, NEW d \in Calls, call'[d] \in {call[d], Idle}
    PROVE  CallOK(d)'
<1>1. CASE call'[d] = call[d]
  BY <1>1 DEF Inv, CallsOK, CallOK
<1>2. CASE call'[d] = Idle
  BY <1>2, IdleIsTyped DEF Inv, Typed, CallOK
<1> QED
  BY <1>1, <1>2

-----------------------------------------------------------------------------
(* Calls begin. *)

LEMMA BeginKeeps ==
    ASSUME Inv, NEW c \in Calls, At(c, "idle"), NEW r \in CallSet,
           call' = [call EXCEPT ![c] = r],
           r.step \in {"sent", "joined"}, r.ran = 0, r.seen = 0,
           r.write => db < MaxWrites /\ Writing = {} /\ r.step = "sent" /\ UNCHANGED inFlight,
           IF r.step = "joined" THEN inFlight # None /\ r.on = inFlight /\ UNCHANGED inFlight
                                ELSE r.on = None /\ inFlight' \in {c, inFlight},
           inFlight' = c => r.fresh,
           UNCHANGED <<db, tab, cache, acked, stranded, lockedOut, mishaps>>
    PROVE  Inv'
<1>0. Typed /\ call \in [Calls -> CallSet] /\ call[c].step = "idle" /\ ~call[c].write
  BY DEF Inv, Typed, CallsOK, CallOK, At, CallSet
<1>1. call'[c] = r /\ \A d \in Calls : d # c => call'[d] = call[d]
  BY <1>0
<1>2. Typed'
  BY <1>0 DEF Typed, tab
<1>3. CallsOK'
  <2>1. CallOK(c)'
    BY <1>0, <1>1 DEF Typed, CallOK, CallSet
  <2>2. \A d \in Calls : d # c => CallOK(d)'
    BY <1>1, CallStaysOK
  <2> QED
    BY <2>1, <2>2 DEF CallsOK
<1>4. Sharing'
  <2>1. ASSUME NEW o, Shared(o) PROVE o # c
    BY <1>0, <2>1 DEF Shared
  <2>2. ASSUME NEW o, Shared(o)
        PROVE  o \in Calls /\ call'[o].step \notin {"idle", "joined"} /\ ~call'[o].write
    BY <1>1, <2>1, <2>2 DEF Shared
  <2>3. ASSUME NEW d \in Calls, call'[d].step = "joined", NEW o, o = call'[d].on
        PROVE  Shared(o)
    BY <1>1, <2>3 DEF Inv, Sharing
  <2>4. \A d \in Calls : call'[d].step # "joined" => call'[d].on = None
    BY <1>1 DEF Inv, Sharing
  <2>5. ASSUME inFlight' # None
        PROVE  /\ inFlight' \in Calls /\ call'[inFlight'].step \notin {"idle", "joined"}
               /\ ~call'[inFlight'].write /\ call'[inFlight'].fresh
    <3>1. CASE inFlight' = inFlight
      <4>1. Shared(inFlight) /\ call[inFlight].fresh
        BY <2>5, <3>1 DEF Inv, Sharing
      <4>2. inFlight # c /\ inFlight \in Calls
        BY <2>1, <4>1 DEF Shared
      <4> QED
        BY <1>1, <2>2, <3>1, <4>1, <4>2
    <3>2. CASE inFlight' = c /\ inFlight' # inFlight
      BY <1>1, <3>2
    <3> QED
      BY <3>1, <3>2
  <2> QED
    BY <2>2, <2>3, <2>4, <2>5 DEF Sharing, Shared
<1>5. OneWriter'
  BY <1>0, <1>1 DEF Inv, OneWriter, Writing
<1>6. OneRefresh'
  BY <1>1, OneRefreshStays DEF Refreshing
<1>7. Session'
  BY <1>0, <1>1, SessionStays DEF tab
<1>8. CacheHasOwnWrites'
  BY DEF Inv, CacheHasOwnWrites
<1> QED
  BY <1>2, <1>3, <1>4, <1>5, <1>6, <1>7, <1>8 DEF Inv

LEMMA StartReadKeeps == ASSUME Inv, NEW c \in Calls, StartRead(c) PROVE Inv'
<1>1. CASE inFlight = None
  <2> DEFINE r == [Idle EXCEPT !.step = "sent", !.good = token, !.fresh = TRUE]
  <2>1. r \in CallSet /\ r.step = "sent" /\ r.ran = 0 /\ r.seen = 0 /\ ~r.write /\ r.on = None
        /\ r.fresh
    <3>1. token \in BOOLEAN
      BY DEF Inv, Typed
    <3>2. r \in CallSet
      BY <3>1, IdleIsTyped DEF CallSet, Steps
    <3>3. r.step = "sent" /\ r.ran = 0 /\ r.seen = 0 /\ r.on = None /\ r.fresh
      BY DEF Idle
    <3>4. ~r.write
      BY DEF Idle
    <3> QED
      BY <3>2, <3>3, <3>4
  <2>2. call' = [call EXCEPT ![c] = r] /\ inFlight' = c
    BY <1>1 DEF StartRead
  <2> HIDE DEF r
  <2> QED
    BY <2>1, <2>2, BeginKeeps DEF StartRead
<1>2. CASE inFlight # None
  <2> DEFINE r == [Idle EXCEPT !.step = "joined", !.on = inFlight]
  <2>1. r \in CallSet /\ r.step = "joined" /\ r.ran = 0 /\ r.seen = 0 /\ ~r.write
        /\ r.on = inFlight
    <3>1. inFlight \in Calls
      BY <1>2 DEF Inv, Typed
    <3>2. r \in CallSet
      BY <3>1, IdleIsTyped DEF CallSet, Steps
    <3>3. r.step = "joined" /\ r.ran = 0 /\ r.seen = 0 /\ r.on = inFlight
      BY DEF Idle
    <3>4. ~r.write
      BY DEF Idle
    <3> QED
      BY <3>2, <3>3, <3>4
  <2>2. call' = [call EXCEPT ![c] = r] /\ inFlight' = inFlight
    BY <1>2 DEF StartRead
  <2>3. inFlight # c
    BY <1>2 DEF Inv, Sharing, Shared, StartRead, At
  <2> HIDE DEF r
  <2> QED
    BY <1>2, <2>1, <2>2, <2>3, BeginKeeps DEF StartRead
<1> QED
  BY <1>1, <1>2

LEMMA StartWriteKeeps == ASSUME Inv, NEW c \in Calls, StartWrite(c) PROVE Inv'
<1>0. PICK own \in BOOLEAN :
         call' = [call EXCEPT ![c] = [Idle EXCEPT !.step = "sent", !.write = TRUE,
                                                  !.own = own, !.good = token]]
  BY DEF StartWrite
<1> DEFINE r == [Idle EXCEPT !.step = "sent", !.write = TRUE, !.own = own, !.good = token]
<1>1. r \in CallSet /\ r.step = "sent" /\ r.ran = 0 /\ r.seen = 0 /\ r.on = None
  <2>1. token \in BOOLEAN
    BY DEF Inv, Typed
  <2>2. r \in CallSet
    BY <2>1, IdleIsTyped DEF CallSet, Steps
  <2>3. r.step = "sent" /\ r.ran = 0 /\ r.seen = 0 /\ r.on = None
    BY DEF Idle
  <2> QED
    BY <2>2, <2>3
<1>2. call' = [call EXCEPT ![c] = r] /\ UNCHANGED inFlight
  BY <1>0 DEF StartWrite
<1>3. inFlight # c
  BY NoneAssumption DEF Inv, Sharing, Shared, StartWrite, At
<1> HIDE DEF r
<1> QED
  BY <1>1, <1>2, <1>3, BeginKeeps DEF StartWrite

-----------------------------------------------------------------------------
(* One call goes on. *)

LEMMA OneGoesOn ==
    ASSUME Inv, NEW c \in Calls, call[c].step \notin {"idle", "joined"},
           NEW r \in CallSet, call' = [call EXCEPT ![c] = r],
           r.step \notin {"idle", "joined"}, r.write = call[c].write, r.on = call[c].on, r.fresh = call[c].fresh,
           inFlight' \in {inFlight, None}
    PROVE  /\ Sharing' /\ OneWriter'
           /\ call'[c] = r /\ \A d \in Calls : d # c => call'[d] = call[d]
           /\ call' \in [Calls -> CallSet]
<1>1. call'[c] = r /\ \A d \in Calls : d # c => call'[d] = call[d]
  BY DEF Inv, Typed
<1>2. \A d \in Calls : Same(d)
  BY <1>1 DEF Same
<1>3. OneWriter'
  BY <1>1, OneWriterStays
<1> QED
  BY <1>1, <1>2, <1>3, SharingKept DEF Inv, Typed

LEMMA ServeKeeps == ASSUME Inv, NEW c \in Calls, Serve(c) PROVE Inv'
<1>0. /\ call[c] \in CallSet /\ call[c].step = "sent" /\ CallOK(c) /\ Typed
      /\ db \in Nat /\ acked \in Nat /\ acked <= db /\ db <= MaxWrites /\ MaxWrites \in Nat
  BY BoundsAssumption DEF Inv, Typed, CallsOK, Serve, At
<1>1. PICK r \in CallSet :
        /\ call' = [call EXCEPT ![c] = r]
        /\ r.step \in {"ok", "unauthorized", "failed"}
        /\ r.write = call[c].write /\ r.on = call[c].on /\ r.attempt = call[c].attempt
        /\ r.fresh = call[c].fresh
        /\ IF call[c].write /\ (r.step = "ok" \/ db' # db)
           THEN db' = db + 1 /\ r.seen = db' /\ r.ran = call[c].ran + 1
                /\ r.step \in {"ok", "failed"}
           ELSE UNCHANGED db /\ r.ran = call[c].ran
                /\ IF r.step = "ok" THEN r.seen = db ELSE r.seen = call[c].seen
  <2>1. ASSUME NEW outcome \in {"ok", "failed"}, call[c].write, Execute(c, outcome)
        PROVE  LET r == [call[c] EXCEPT !.step = outcome, !.seen = db + 1, !.ran = @ + 1]
               IN  r \in CallSet /\ call' = [call EXCEPT ![c] = r] /\ db' = db + 1
                   /\ r.step = outcome /\ r.write = call[c].write /\ r.on = call[c].on
                   /\ r.attempt = call[c].attempt /\ r.fresh = call[c].fresh
                   /\ r.seen = db + 1 /\ r.ran = call[c].ran + 1
    <3>1. db < MaxWrites /\ call[c].ran = 0
      BY <1>0, <2>1 DEF CallOK
    <3>2. db + 1 \in 0 .. MaxWrites /\ call[c].ran + 1 \in 0 .. MaxAttempts
      BY <1>0, <3>1, AttemptsAssumption
    <3>3. [call[c] EXCEPT !.step = outcome, !.seen = db + 1, !.ran = @ + 1] \in CallSet
      BY <1>0, <3>2 DEF CallSet, Steps
    <3>4. call' = [call EXCEPT ![c] = [call[c] EXCEPT !.step = outcome, !.seen = db + 1,
                                                      !.ran = @ + 1]] /\ db' = db + 1
      BY <1>0, <2>1 DEF Execute, Typed
    <3> QED
      BY <1>0, <3>3, <3>4 DEF CallSet
  <2>2. CASE call[c].good /\ Execute(c, "ok") /\ call[c].write
    <3> DEFINE r == [call[c] EXCEPT !.step = "ok", !.seen = db + 1, !.ran = @ + 1]
    <3>1. r \in CallSet /\ call' = [call EXCEPT ![c] = r] /\ db' = db + 1
          /\ r.step = "ok" /\ r.write = call[c].write /\ r.on = call[c].on
          /\ r.attempt = call[c].attempt /\ r.seen = db + 1 /\ r.ran = call[c].ran + 1
          /\ r.fresh = call[c].fresh
      BY <2>1, <2>2
    <3> HIDE DEF r
    <3> QED
      BY <2>2, <3>1
  <2>3. CASE call[c].good /\ Execute(c, "ok") /\ ~call[c].write
    <3> DEFINE r == [call[c] EXCEPT !.step = "ok", !.seen = db]
    <3>1. r \in CallSet
      <4>1. db \in 0 .. MaxWrites
        BY <1>0
      <4> QED
        BY <1>0, <4>1 DEF CallSet, Steps
    <3>2. call' = [call EXCEPT ![c] = r] /\ UNCHANGED db
      BY <1>0, <2>3 DEF Execute, Typed
    <3>3. r.step = "ok" /\ r.write = call[c].write /\ r.on = call[c].on
          /\ r.attempt = call[c].attempt /\ r.seen = db /\ r.ran = call[c].ran
          /\ r.fresh = call[c].fresh
      BY <1>0 DEF CallSet
    <3> QED
      BY <2>3, <3>1, <3>2, <3>3
  <2>4. ASSUME NEW outcome \in {"unauthorized", "failed"}, UNCHANGED db,
               call' = [call EXCEPT ![c].step = outcome]
        PROVE  LET r == [call[c] EXCEPT !.step = outcome]
               IN  r \in CallSet /\ call' = [call EXCEPT ![c] = r]
                   /\ r.step = outcome /\ r.write = call[c].write /\ r.on = call[c].on
                   /\ r.attempt = call[c].attempt /\ r.fresh = call[c].fresh
                   /\ r.seen = call[c].seen /\ r.ran = call[c].ran
    <3>1. [call[c] EXCEPT !.step = outcome] \in CallSet
      BY <1>0 DEF CallSet, Steps
    <3>2. call' = [call EXCEPT ![c] = [call[c] EXCEPT !.step = outcome]]
      BY <1>0, <2>4 DEF Typed
    <3> QED
      BY <1>0, <3>1, <3>2 DEF CallSet
  <2>5. CASE ~call[c].good /\ UNCHANGED db /\ call' = [call EXCEPT ![c].step = "unauthorized"]
    BY <2>4, <2>5
  <2>6. CASE UNCHANGED db /\ call' = [call EXCEPT ![c].step = "failed"]
    BY <2>4, <2>6
  <2>7. CASE call[c].write /\ Execute(c, "failed")
    <3>1. db + 1 # db
      BY <1>0
    <3> QED
      BY <2>1, <2>7, <3>1
  <2> QED
    BY <2>2, <2>3, <2>5, <2>6, <2>7 DEF Serve
<1>2. UNCHANGED <<tab, cache, inFlight, acked, stranded, lockedOut>>
      /\ mishaps' \in 0 .. MaxMishaps
  BY <1>0, BoundsAssumption DEF Serve, Mishap, Typed
<1>3. /\ Sharing' /\ OneWriter'
      /\ call'[c] = r /\ \A d \in Calls : d # c => call'[d] = call[d]
      /\ call' \in [Calls -> CallSet]
  BY <1>0, <1>1, <1>2, OneGoesOn
<1>4. db' \in 0 .. MaxWrites /\ db <= db'
  BY <1>0, <1>1 DEF CallOK
<1>5. Typed'
  BY <1>0, <1>2, <1>3, <1>4 DEF Typed, tab
<1>6. CallsOK'
  <2>1. CallOK(c)'
    BY <1>0, <1>1, <1>2, <1>3 DEF CallOK, CallSet
  <2>2. ASSUME NEW d \in Calls, d # c PROVE CallOK(d)'
    <3>1. CASE UNCHANGED db
      BY <1>2, <1>3, <2>2, <3>1, CallStaysOK
    <3>2. CASE db' # db
      <4>1. call[c].write
        BY <1>1, <3>2
      <4>2. ~call[d].write /\ call'[d] = call[d] /\ CallOK(d) /\ call[d] \in CallSet
        BY <1>0, <1>3, <2>2, <4>1 DEF Inv, OneWriter, CallsOK, Typed
      <4> QED
        BY <1>0, <1>2, <1>4, <4>2 DEF CallOK, CallSet
    <3> QED
      BY <3>1, <3>2
  <2> QED
    BY <2>1, <2>2 DEF CallsOK
<1>7. OneRefresh'
  BY <1>1, <1>3, OneRefreshStays DEF Refreshing
<1>8. Session'
  BY <1>0, <1>1, <1>2, <1>3, SessionStays DEF tab
<1>9. CacheHasOwnWrites'
  BY <1>2 DEF Inv, CacheHasOwnWrites
<1> QED
  BY <1>3, <1>5, <1>6, <1>7, <1>8, <1>9 DEF Inv

(* A call that goes on without having been answered.                       *)
LEMMA UnansweredKeeps ==
    ASSUME Inv, NEW c \in Calls,
           call[c].step \notin {"idle", "joined", "ok", "refresh", "refreshed", "refused"},
           NEW r \in CallSet, call' = [call EXCEPT ![c] = r],
           r.step \notin {"idle", "joined", "ok", "failed", "refresh", "refreshed", "refused", "threw"},
           r.write = call[c].write, r.on = call[c].on, r.ran = call[c].ran, r.seen \in {0, call[c].seen},
           r.fresh = call[c].fresh,
           call[c].step = "failed" => ~r.write,
           r.step = "backoff" => ~r.write /\ r.attempt < MaxAttempts,
           stranded' \in SUBSET Calls,
           UNCHANGED <<db, tab, cache, inFlight, acked, lockedOut, mishaps>>
    PROVE  Inv'
<1>0. call[c] \in CallSet /\ CallOK(c) /\ Typed
  BY DEF Inv, Typed, CallsOK
<1>1. /\ Sharing' /\ OneWriter'
      /\ call'[c] = r /\ \A d \in Calls : d # c => call'[d] = call[d]
      /\ call' \in [Calls -> CallSet]
  BY OneGoesOn
<1>2. Typed'
  BY <1>0, <1>1 DEF Typed, tab
<1>3. CallsOK'
  <2>1. CallOK(c)'
    BY <1>0, <1>1 DEF CallOK, CallSet, Typed
  <2> QED
    BY <1>1, <2>1, CallStaysOK DEF CallsOK
<1>4. OneRefresh'
  BY <1>1, OneRefreshStays DEF Refreshing
<1>5. Session'
  BY <1>1, SessionStays DEF tab
<1>6. CacheHasOwnWrites'
  BY DEF Inv, CacheHasOwnWrites
<1> QED
  BY <1>1, <1>2, <1>3, <1>4, <1>5, <1>6 DEF Inv

LEMMA NextAttemptKeeps == ASSUME Inv, NEW c \in Calls, NextAttempt(c) PROVE Inv'
<1> DEFINE r == [call[c] EXCEPT !.step = "sent", !.attempt = @ + 1, !.good = token,
                                !.retried = FALSE, !.late = FALSE]
<1>0. call[c] \in CallSet /\ call[c].step = "backoff" /\ CallOK(c) /\ Typed
  BY DEF Inv, Typed, CallsOK, NextAttempt, At
<1>1. call[c].attempt + 1 \in 1 .. MaxAttempts /\ token \in BOOLEAN
  BY <1>0, AttemptsAssumption DEF CallOK, CallSet, Typed
<1>2. r \in CallSet
  BY <1>0, <1>1 DEF CallSet, Steps
<1>3. /\ r.step = "sent" /\ r.write = call[c].write /\ r.on = call[c].on
      /\ r.ran = call[c].ran /\ r.seen = call[c].seen /\ r.fresh = call[c].fresh
  BY <1>0 DEF CallSet
<1>4. call' = [call EXCEPT ![c] = r]
  BY <1>0 DEF NextAttempt, Typed
<1> HIDE DEF r
<1>5. stranded' \in SUBSET Calls
  BY <1>0 DEF NextAttempt, Typed
<1> QED
  BY <1>0, <1>2, <1>3, <1>4, <1>5, UnansweredKeeps DEF NextAttempt

LEMMA WaitingKeeps ==
    ASSUME Inv, NEW c \in Calls, call[c].step \in {"failed", "threw"}, Retryable(c),
           call' = [call EXCEPT ![c] = Waiting(c)], stranded' \in SUBSET Calls,
           UNCHANGED <<db, tab, cache, inFlight, acked, lockedOut, mishaps>>
    PROVE  Inv'
<1>0. call[c] \in CallSet /\ CallOK(c) /\ Typed /\ ~call[c].write
  BY DEF Inv, Typed, CallsOK, Retryable
<1>1. Waiting(c) \in CallSet
  BY <1>0, IdleIsTyped DEF Waiting, CallSet, Steps
<1>2. /\ Waiting(c).step = "backoff" /\ Waiting(c).write = call[c].write
      /\ Waiting(c).on = None /\ Waiting(c).seen = 0
      /\ Waiting(c).attempt = call[c].attempt /\ Waiting(c).ran = call[c].ran
      /\ Waiting(c).fresh = call[c].fresh
  BY DEF Waiting, Idle
<1>3. call[c].on = None
  BY DEF Inv, Sharing
<1> QED
  BY <1>0, <1>1, <1>2, <1>3, UnansweredKeeps DEF Retryable

-----------------------------------------------------------------------------
(* Calls end. *)

LEMMA SettledKeeps ==
    ASSUME Inv, NEW c \in Calls, call[c].step \notin {"idle", "joined", "refreshed"},
           call' = Settled(c), Forget(c), UNCHANGED <<db, acked, hold, lockedOut>>
    PROVE  /\ call' \in [Calls -> CallSet] /\ inFlight' \in Calls \union {None}
           /\ CallsOK' /\ Sharing' /\ OneWriter' /\ OneRefresh' /\ Session'
<1> DEFINE E == {d \in Calls : d = c \/ call[d].on = c}
<1>0. Typed
  BY DEF Inv
<1>1. \A d \in Calls : call'[d] = IF d \in E THEN Idle ELSE call[d]
  BY DEF Settled
<1>2. call' \in [Calls -> CallSet]
  BY <1>0, IdleIsTyped DEF Settled, Typed
<1>3. CallsOK'
  BY <1>1, CallStaysOK DEF CallsOK
<1>4. inFlight' \in {inFlight, None} \ E
  <2>1. None \notin E
    BY NoneAssumption
  <2>2. ASSUME ~call[c].fresh, inFlight # None
        PROVE  inFlight \notin E
    <3>1. Shared(inFlight)
      BY <2>2 DEF Inv, Sharing
    <3>2. inFlight # c
      BY <2>2 DEF Inv, Sharing
    <3>3. call[inFlight].on = None
      BY <3>1 DEF Shared, Inv, Sharing
    <3> QED
      BY <3>2, <3>3, NoneAssumption
  <2> QED
    BY <2>1, <2>2 DEF Forget
<1>5. \A d \in Calls : call[d].on \in E => d \in E
  <2> SUFFICES ASSUME NEW d \in Calls, call[d].on \in E, call[d].on # c
               PROVE  FALSE
    OBVIOUS
  <2>1. PICK o \in Calls : o = call[d].on /\ call[o].on = c
    OBVIOUS
  <2>2. Shared(o)
    BY <2>1, NoneAssumption DEF Inv, Sharing
  <2>3. call[o].on = None
    BY <2>1, <2>2 DEF Inv, Sharing, Shared
  <2> QED
    BY <2>1, <2>3, NoneAssumption
<1>6. Sharing'
  <2>1. \A d \in E : call'[d] = Idle
    BY <1>1
  <2>2. \A d \in Calls \ E : Same(d)
    BY <1>1 DEF Same
  <2> HIDE DEF E
  <2>3. E \in SUBSET Calls
    BY DEF E
  <2> QED
    BY <1>4, <1>5, <2>1, <2>2, <2>3, SharingStays
<1>7. \A d \in Calls : call'[d] = call[d] \/ (call'[d].step = "idle" /\ ~call'[d].write)
  BY <1>1, IdleIsTyped
<1>8. OneWriter' /\ OneRefresh'
  BY <1>7, OneWriterStays, OneRefreshStays DEF Refreshing
<1>9. Session'
  <2>1. \A d \in Calls : call[d].step = "refreshed" => call'[d] = call[d]
    <3>1. \A d \in Calls : call[d].step # "joined" => call[d].on = None
      BY DEF Inv, Sharing
    <3> QED
      BY <1>1, <3>1, NoneAssumption
  <2> QED
    BY <1>7, <2>1, SessionStays
<1>10. inFlight' \in Calls \union {None}
  BY <1>0, <1>4 DEF Typed
<1> QED
  BY <1>2, <1>3, <1>6, <1>8, <1>9, <1>10

LEMMA ReadAnsweredKeeps == ASSUME Inv, NEW c \in Calls, ReadAnswered(c) PROVE Inv'
<1>0. call[c] \in CallSet /\ CallOK(c) /\ Typed
  BY DEF Inv, Typed, CallsOK
<1>1. /\ call' \in [Calls -> CallSet] /\ inFlight' \in Calls \union {None}
      /\ CallsOK' /\ Sharing' /\ OneWriter' /\ OneRefresh' /\ Session'
  BY SettledKeeps DEF ReadAnswered, At, tab
<1>2. cache' \in [seen : 0 .. MaxWrites, late : BOOLEAN] \union {None}
  <2>1. call[c].seen \in 0 .. MaxWrites
    BY <1>0 DEF CallSet
  <2>2. call[c].late \in BOOLEAN
    BY <1>0 DEF CallSet
  <2> QED
    BY <1>0, <2>1, <2>2 DEF ReadAnswered, Typed
<1>3. Typed'
  BY <1>0, <1>1, <1>2 DEF ReadAnswered, Typed, tab
<1>4. CacheHasOwnWrites'
  <2>1. /\ acked' = acked
        /\ \/ cache'.seen = call[c].seen /\ (call[c].late => cache'.late)
           \/ cache' = cache
    BY DEF ReadAnswered
  <2>2. call[c].seen >= acked \/ call[c].late
    BY <1>0 DEF ReadAnswered, At, CallOK
  <2> QED
    BY <2>1, <2>2 DEF Inv, CacheHasOwnWrites
<1> QED
  BY <1>1, <1>3, <1>4 DEF Inv

LEMMA WriteAnsweredKeeps == ASSUME Inv, NEW c \in Calls, WriteAnswered(c) PROVE Inv'
<1>0. /\ call[c] \in CallSet /\ CallOK(c) /\ Typed /\ call[c].step = "ok" /\ call[c].write
      /\ call[c].on = None
  BY DEF Inv, Typed, CallsOK, WriteAnswered, At, Sharing
<1>1. UNCHANGED <<db, tab, inFlight, stranded, lockedOut, mishaps>>
      /\ \/ call[c].own /\ cache' = None /\ acked' = call[c].seen
         \/ ~call[c].own /\ cache' = cache /\ acked' = acked
  BY DEF WriteAnswered, Invalidated
<1>2. call'[c] = Idle
  BY DEF WriteAnswered
<1>3. ASSUME NEW d \in Calls, d # c
      PROVE  /\ call'[d] \in CallSet
             /\ call'[d].step = call[d].step /\ call'[d].write = call[d].write
             /\ call'[d].on = call[d].on /\ call'[d].ran = call[d].ran
             /\ call'[d].attempt = call[d].attempt /\ call'[d].seen = call[d].seen
             /\ call'[d].current = call[d].current /\ call'[d].fresh = call[d].fresh
             /\ call[d].step = "ok" =>
                   call'[d].late \/ (~call[c].own /\ call'[d].late = call[d].late)
  <2> DEFINE late == IF call[c].own THEN LateNow(d) ELSE call[d].late
  <2>1. call'[d] = [call[d] EXCEPT !.late = late]
    BY <1>3 DEF WriteAnswered
  <2>3. call[d] \in CallSet
    BY <1>0 DEF Typed
  <2>2. /\ late \in BOOLEAN
        /\ call[d].step = "ok" => late \/ (~call[c].own /\ late = call[d].late)
    <3>1. LateNow(d) \in BOOLEAN /\ (call[d].step = "ok" => LateNow(d))
      BY DEF LateNow
    <3>2. CASE call[c].own
      BY <3>1, <3>2
    <3>3. CASE ~call[c].own
      BY <2>3, <3>3 DEF CallSet
    <3> QED
      BY <3>2, <3>3
  <2> HIDE DEF late
  <2>4. call'[d] \in CallSet
    BY <2>1, <2>2, <2>3 DEF CallSet
  <2>5. /\ call'[d].step = call[d].step /\ call'[d].write = call[d].write
        /\ call'[d].on = call[d].on /\ call'[d].ran = call[d].ran
        /\ call'[d].attempt = call[d].attempt /\ call'[d].seen = call[d].seen
        /\ call'[d].current = call[d].current /\ call'[d].fresh = call[d].fresh
    BY <2>1, <2>3 DEF CallSet
  <2>6. call'[d].late = late
    BY <2>1, <2>3 DEF CallSet
  <2> QED
    BY <2>2, <2>4, <2>5, <2>6
<1>4. call' \in [Calls -> CallSet]
  <2>1. call' = [d \in Calls |-> call'[d]]
    BY DEF WriteAnswered
  <2> QED
    BY <1>2, <1>3, <2>1, IdleIsTyped
<1>5. acked' \in 0 .. db'
  BY <1>0, <1>1 DEF CallOK, CallSet, Typed
<1>6. Typed'
  BY <1>0, <1>1, <1>4, <1>5 DEF Typed, tab
<1>7. CallsOK'
  <2>1. CallOK(c)'
    BY <1>0, <1>1, <1>2, IdleIsTyped DEF CallOK, Typed
  <2>2. ASSUME NEW d \in Calls, d # c PROVE CallOK(d)'
    <3>1. CallOK(d)
      BY DEF Inv, CallsOK
    <3> QED
      BY <1>1, <1>3, <2>2, <3>1 DEF CallOK
  <2> QED
    BY <2>1, <2>2 DEF CallsOK
<1>8. Sharing'
  <2>1. \A d \in Calls : call[d].on # c
    <3> SUFFICES ASSUME NEW d \in Calls, call[d].on = c PROVE FALSE
      OBVIOUS
    <3>1. Shared(c)
      BY NoneAssumption DEF Inv, Sharing
    <3> QED
      BY <1>0, <3>1 DEF Shared
  <2>2. inFlight # c
    <3>1. ASSUME inFlight = c PROVE Shared(c)
      BY <3>1, NoneAssumption DEF Inv, Sharing
    <3> QED
      BY <1>0, <3>1 DEF Shared
  <2> DEFINE E == {c}
  <2>3. \A d \in Calls \ E : Same(d)
    BY <1>3 DEF Same
  <2>4. /\ E \in SUBSET Calls
        /\ \A d \in E : call'[d] = Idle
        /\ \A d \in Calls : call[d].on \in E => d \in E
        /\ inFlight' \in {inFlight, None} \ E
    BY <1>1, <1>2, <2>1, <2>2
  <2> HIDE DEF E
  <2> QED
    BY <2>3, <2>4, SharingStays
<1>9. \A d \in Calls : \/ call'[d].step = "idle" /\ ~call'[d].write
                       \/ call'[d].step = call[d].step /\ call'[d].write = call[d].write
  BY <1>2, <1>3, IdleIsTyped
<1>10. OneWriter' /\ OneRefresh'
  BY <1>9, OneWriterStays, OneRefreshStays DEF Refreshing
<1>11. Session'
  BY <1>0, <1>1, <1>2, <1>3, IdleIsTyped, SessionStays DEF tab
<1>12. CacheHasOwnWrites'
  BY <1>1 DEF Inv, CacheHasOwnWrites
<1> QED
  BY <1>6, <1>7, <1>8, <1>10, <1>11, <1>12 DEF Inv

(* A call has failed or its refresh threw.                                 *)
LEMMA FailureKeeps ==
    ASSUME Inv, NEW c \in Calls, call[c].step \in {"failed", "threw", "unauthorized"},
           \/ call' = Settled(c)
           \/ Retryable(c) /\ call' = Failed(c) /\ call[c].step # "unauthorized",
           IF call'[c] = Idle THEN Forget(c) ELSE UNCHANGED inFlight,
           stranded' \in SUBSET Calls,
           UNCHANGED <<db, tab, cache, acked, lockedOut, mishaps>>
    PROVE  Inv'
<1>0. Typed /\ call[c] \in CallSet
  BY DEF Inv, Typed
<1>1. CASE call' = Settled(c)
  <2>1. call'[c] = Idle
    BY <1>1 DEF Settled
  <2>2. /\ call' \in [Calls -> CallSet] /\ inFlight' \in Calls \union {None}
        /\ CallsOK' /\ Sharing' /\ OneWriter' /\ OneRefresh' /\ Session'
    BY <1>1, <2>1, SettledKeeps DEF tab
  <2>3. Typed' /\ CacheHasOwnWrites'
    BY <1>0, <2>2 DEF Inv, Typed, CacheHasOwnWrites, tab
  <2> QED
    BY <2>2, <2>3 DEF Inv
<1>2. CASE Retryable(c) /\ call' = Failed(c) /\ call[c].step # "unauthorized"
  <2>1. call' = [call EXCEPT ![c] = Waiting(c)]
    BY <1>2 DEF Failed
  <2>2. Waiting(c).step = "backoff"
    BY DEF Waiting, Idle
  <2>3. call'[c] # Idle
    BY <1>0, <2>1, <2>2, IdleIsTyped DEF Typed
  <2> QED
    BY <1>2, <2>1, <2>3, WaitingKeeps
<1> QED
  BY <1>1, <1>2

LEMMA CallFailedKeeps == ASSUME Inv, NEW c \in Calls, CallFailed(c) PROVE Inv'
<1>1. \/ call' = Settled(c)
      \/ Retryable(c) /\ call' = Failed(c)
  BY DEF CallFailed, Failed
<1>2. stranded' \in SUBSET Calls
  BY DEF CallFailed, Inv, Typed
<1> QED
  BY <1>1, <1>2, FailureKeeps DEF CallFailed, At

LEMMA ThrewKeeps == ASSUME Inv, NEW c \in Calls, Threw(c) PROVE Inv'
<1>1. \/ call' = Settled(c)
      \/ Retryable(c) /\ call' = Failed(c)
  BY DEF Threw, Failed
<1>2. stranded' \in SUBSET Calls
  BY DEF Threw, Queued
<1> QED
  BY <1>1, <1>2, FailureKeeps DEF Threw, At

-----------------------------------------------------------------------------
(* The refresh. *)

LEMMA UnauthorizedKeeps == ASSUME Inv, NEW c \in Calls, Unauthorized(c) PROVE Inv'
<1>0. Typed /\ call[c] \in CallSet /\ CallOK(c) /\ call[c].step = "unauthorized"
  BY DEF Inv, Typed, CallsOK, Unauthorized, At
<1>a. stranded' \in SUBSET Calls
      /\ UNCHANGED <<db, tab, cache, acked, stranded, lockedOut, mishaps>>
  BY <1>0 DEF Unauthorized, Typed
<1>1. CASE call' = Settled(c) /\ Forget(c)
  <2>1. call'[c] = Idle
    BY <1>1 DEF Settled
  <2> QED
    BY <1>0, <1>a, <1>1, <2>1, FailureKeeps
<1>2. CASE call' = [call EXCEPT ![c].step = "queued"] /\ UNCHANGED inFlight
  <2> DEFINE r == [call[c] EXCEPT !.step = "queued"]
  <2>1. r \in CallSet
    BY <1>0 DEF CallSet, Steps
  <2>2. /\ r.step = "queued" /\ r.write = call[c].write /\ r.on = call[c].on
        /\ r.ran = call[c].ran /\ r.seen = call[c].seen /\ r.fresh = call[c].fresh
    BY <1>0 DEF CallSet
  <2>3. call' = [call EXCEPT ![c] = r]
    BY <1>0, <1>2 DEF Typed
  <2> HIDE DEF r
  <2> QED
    BY <1>0, <1>a, <1>2, <2>1, <2>2, <2>3, UnansweredKeeps
<1>3. CASE /\ NoRefreshInFlight /\ UNCHANGED inFlight
           /\ call' = [call EXCEPT ![c].step = "refresh", ![c].retried = TRUE,
                                   ![c].current = hold = "current"]
  <2> DEFINE b == hold = "current"
             r == [call[c] EXCEPT !.step = "refresh", !.retried = TRUE, !.current = b]
  <2>1. b \in BOOLEAN
    OBVIOUS
  <2>2. call' = [call EXCEPT ![c] = r]
    BY <1>0, <1>3 DEF Typed
  <2>3. b => hold = "current"
    OBVIOUS
  <2>4. hold = "current" => b
    OBVIOUS
  <2> HIDE DEF b
  <2>5. r \in CallSet
    BY <1>0, <2>1 DEF CallSet, Steps, Refreshing
  <2>6. /\ r.step = "refresh" /\ r.write = call[c].write /\ r.on = call[c].on
        /\ r.ran = call[c].ran /\ r.seen = call[c].seen /\ r.attempt = call[c].attempt
        /\ r.fresh = call[c].fresh
    BY <1>0 DEF CallSet
  <2>7. b => r.current
    BY <1>0 DEF CallSet
  <2> HIDE DEF r
  <2>8. /\ Sharing' /\ OneWriter'
        /\ call'[c] = r /\ \A d \in Calls : d # c => call'[d] = call[d]
        /\ call' \in [Calls -> CallSet]
    BY <1>0, <1>3, <2>2, <2>5, <2>6, OneGoesOn
  <2>9. Typed' /\ CacheHasOwnWrites'
    BY <1>0, <1>a, <1>3, <2>8 DEF Typed, tab, Inv, CacheHasOwnWrites
  <2>10. CallsOK'
    <3>1. CallOK(c)'
      BY <1>0, <1>a, <2>6, <2>8 DEF CallOK
    <3> QED
      BY <1>a, <2>8, <3>1, CallStaysOK DEF CallsOK
  <2>11. OneRefresh'
    BY <1>3, <2>8 DEF OneRefresh, NoRefreshInFlight
  <2>12. Session'
    <3> SUFFICES ASSUME ~lockedOut PROVE Session'
      BY <1>a DEF Session
    <3>1. \A d \in Calls : call[d].step \notin Refreshing
      BY <1>3 DEF NoRefreshInFlight
    <3>2. hold = "current"
      BY <1>0, <3>1 DEF Inv, Session, Refreshing, Typed
    <3> QED
      BY <1>a, <2>4, <2>6, <2>7, <2>8, <3>1, <3>2 DEF Session, Refreshing, tab
  <2> QED
    BY <2>8, <2>9, <2>10, <2>11, <2>12 DEF Inv
<1> QED
  BY <1>1, <1>2, <1>3 DEF Unauthorized

LEMMA ServeRefreshKeeps == ASSUME Inv, NEW c \in Calls, ServeRefresh(c) PROVE Inv'
<1>0. Typed /\ call[c] \in CallSet /\ CallOK(c) /\ call[c].step = "refresh"
  BY DEF Inv, Typed, CallsOK, ServeRefresh, At
<1>1. UNCHANGED <<db, token, cache, inFlight, acked, stranded>>
      /\ mishaps' \in 0 .. MaxMishaps /\ hold' \in {"current", "old", "none"}
      /\ lockedOut' \in BOOLEAN
  <2>1. UNCHANGED <<db, token, cache, inFlight, acked, stranded>>
    BY DEF ServeRefresh
  <2>2. mishaps' \in 0 .. MaxMishaps
    BY <1>0, BoundsAssumption DEF ServeRefresh, Mishap, Typed
  <2>3. hold' \in {"current", "old", "none"}
    BY <1>0 DEF ServeRefresh, Typed
  <2>4. lockedOut' \in {lockedOut, TRUE}
    BY DEF ServeRefresh
  <2> QED
    BY <1>0, <2>1, <2>2, <2>3, <2>4 DEF Typed
<1>2. /\ call'[c].step \in {"refreshed", "refused", "threw"}
      /\ call' \in [Calls -> CallSet]
      /\ \A d \in Calls : d # c => call'[d].step = call[d].step
      /\ \A d \in Calls : /\ call'[d].write = call[d].write /\ call'[d].on = call[d].on
                          /\ call'[d].ran = call[d].ran /\ call'[d].seen = call[d].seen
                          /\ call'[d].attempt = call[d].attempt
                          /\ call'[d].fresh = call[d].fresh
      /\ \A d \in Calls : call[d].late => call'[d].late
  <2>1. CASE call' = [d \in Calls |->
                        IF d = c THEN [call[c] EXCEPT !.step = IF call[c].current
                                                               THEN "refreshed" ELSE "refused"]
                        ELSE [call[d] EXCEPT !.current = FALSE]]
    <3>1. PICK s \in {"refreshed", "refused"} : call'[c] = [call[c] EXCEPT !.step = s]
      BY <2>1
    <3>2. \A d \in Calls : d # c => call'[d] = [call[d] EXCEPT !.current = FALSE]
      BY <2>1
    <3>3. call'[c] \in CallSet
      BY <1>0, <3>1 DEF CallSet, Steps, Refreshing
    <3>4. \A d \in Calls : d # c => call'[d] \in CallSet
      <4> TAKE d \in Calls
      <4>1. call[d] \in CallSet
        BY <1>0 DEF Typed
      <4> QED
        BY <3>2, <4>1 DEF CallSet
    <3>5. call' \in [Calls -> CallSet]
      BY <2>1, <3>3, <3>4
    <3>6. /\ call'[c].step = s
          /\ call'[c].write = call[c].write /\ call'[c].on = call[c].on
          /\ call'[c].ran = call[c].ran /\ call'[c].seen = call[c].seen
          /\ call'[c].attempt = call[c].attempt /\ call'[c].late = call[c].late
          /\ call'[c].fresh = call[c].fresh
      BY <1>0, <3>1 DEF CallSet
    <3>7. \A d \in Calls : d # c =>
            /\ call'[d].step = call[d].step
            /\ call'[d].write = call[d].write /\ call'[d].on = call[d].on
            /\ call'[d].ran = call[d].ran /\ call'[d].seen = call[d].seen
            /\ call'[d].attempt = call[d].attempt /\ call'[d].late = call[d].late
            /\ call'[d].fresh = call[d].fresh
      <4> TAKE d \in Calls
      <4>1. call[d] \in CallSet
        BY <1>0 DEF Typed
      <4> QED
        BY <3>2, <4>1 DEF CallSet
    <3> QED
      BY <3>5, <3>6, <3>7
  <2>2. CASE call' = [call EXCEPT ![c].step = "threw", ![c].current = FALSE]
    <3>1. call'[c] = [call[c] EXCEPT !.step = "threw", !.current = FALSE]
          /\ \A d \in Calls : d # c => call'[d] = call[d]
      BY <1>0, <2>2 DEF Typed
    <3>2. call'[c] \in CallSet
      BY <1>0, <3>1 DEF CallSet, Steps, Refreshing
    <3>3. /\ call'[c].step = "threw"
          /\ call'[c].write = call[c].write /\ call'[c].on = call[c].on
          /\ call'[c].ran = call[c].ran /\ call'[c].seen = call[c].seen
          /\ call'[c].attempt = call[c].attempt /\ call'[c].late = call[c].late
          /\ call'[c].fresh = call[c].fresh
      BY <1>0, <3>1 DEF CallSet
    <3>4. call' \in [Calls -> CallSet]
      BY <1>0, <2>2, <3>1, <3>2 DEF Typed
    <3> QED
      BY <3>1, <3>3, <3>4
  <2> QED
    BY <2>1, <2>2 DEF ServeRefresh
<1>3. Typed' /\ CacheHasOwnWrites'
  BY <1>0, <1>1, <1>2 DEF Typed, tab, Inv, CacheHasOwnWrites
<1>4. CallsOK'
  <2> SUFFICES ASSUME NEW d \in Calls PROVE CallOK(d)'
    BY DEF CallsOK
  <2>1. CallOK(d)
    BY DEF Inv, CallsOK
  <2>2. CASE d = c
    BY <1>0, <1>1, <1>2, <2>1, <2>2 DEF CallOK
  <2>3. CASE d # c
    BY <1>1, <1>2, <2>1, <2>3 DEF CallOK
  <2> QED
    BY <2>2, <2>3
<1>5. Sharing'
  <2>1. \A d \in Calls : Same(d)
    BY <1>0, <1>2 DEF Same
  <2> QED
    BY <1>1, <2>1, SharingKept
<1>6. OneWriter' /\ OneRefresh'
  BY <1>0, <1>2, OneWriterStays, OneRefreshStays DEF Refreshing
<1>7. Session'
  <2> SUFFICES ASSUME ~lockedOut' PROVE Session'
    BY DEF Session
  <2>1. ~lockedOut /\ UNCHANGED lockedOut
    BY <1>0, <1>1 DEF ServeRefresh, Typed
  <2>2. call[c].current /\ hold = "current" /\ \A d \in Calls : call[d].step # "refused"
    BY <1>0, <2>1 DEF Inv, Session
  <2>3. \A d \in Calls : call'[d].step # "refresh"
    BY <1>0, <1>2 DEF Inv, OneRefresh, Refreshing
  <2>4. \/ call'[c].step = "refreshed" /\ hold' = "old"
        \/ call'[c].step = "threw" /\ hold' = hold
    <3>1. CASE /\ hold' = (IF hold = "current" THEN "old" ELSE hold)
               /\ call'[c] = [call[c] EXCEPT !.step = "refreshed"]
      BY <1>0, <2>2, <3>1 DEF CallSet
    <3>2. CASE call' = [call EXCEPT ![c].step = "threw", ![c].current = FALSE]
               /\ UNCHANGED <<hold, lockedOut>>
      BY <1>0, <3>2 DEF Typed, CallSet
    <3> QED
      BY <2>1, <2>2, <3>1, <3>2 DEF ServeRefresh
  <2>5. \A d \in Calls : call'[d].step # "refused"
    BY <1>2, <2>2, <2>4
  <2> QED
    BY <2>2, <2>3, <2>4, <2>5 DEF Session
<1> QED
  BY <1>3, <1>4, <1>5, <1>6, <1>7 DEF Inv

(* A call keeps all but the key that new reads have.                       *)
Stale(r) == [r EXCEPT !.fresh = FALSE]

LEMMA StaleKey ==
    ASSUME NEW r \in CallSet
    PROVE  /\ Stale(r) \in CallSet /\ Stale(r).step = r.step /\ Stale(r).write = r.write
           /\ Stale(r).on = r.on /\ Stale(r).ran = r.ran /\ Stale(r).seen = r.seen
           /\ Stale(r).late = r.late /\ Stale(r).attempt = r.attempt
BY DEF Stale, CallSet

LEMMA IdleIsStale == Stale(Idle) = Idle
<1>1. PICK r \in CallSet : r = Idle /\ r.fresh = FALSE
  BY IdleIsTyped DEF Idle
<1>2. r = [r EXCEPT !.fresh = FALSE]
  BY <1>1 DEF CallSet
<1> QED
  BY <1>1, <1>2 DEF Stale

LEMMA StaleStaysOK ==
    ASSUME Inv, UNCHANGED <<db, acked>>, NEW d \in Calls, call'[d] = Stale(call[d])
    PROVE  CallOK(d)'
<1>1. call[d] \in CallSet /\ CallOK(d)
  BY DEF Inv, Typed, CallsOK
<1> QED
  BY <1>1, StaleKey DEF CallOK

LEMMA RefreshedKeeps == ASSUME Inv, NEW c \in Calls, Refreshed(c) PROVE Inv'
<1>0. Typed /\ call[c].step = "refreshed"
  BY DEF Inv, Refreshed, At
<1>1. UNCHANGED <<db, acked, lockedOut, mishaps>> /\ cache' = None /\ inFlight' = None
      /\ hold' = "current" /\ token' = TRUE /\ stranded' = {}
  BY DEF Refreshed
<1>2. ASSUME NEW d \in Calls
      PROVE  \/ /\ d # c /\ call[d].step # "queued"
                /\ call'[d] = Stale(call[d])
                /\ call'[d] \in CallSet /\ call'[d].step = call[d].step
                /\ call'[d].write = call[d].write /\ call'[d].on = call[d].on
                /\ call'[d].ran = call[d].ran /\ call'[d].seen = call[d].seen
                /\ call'[d].late = call[d].late /\ call'[d].attempt = call[d].attempt
             \/ /\ call[d].step \in {"queued", "refreshed"}
                /\ call'[d].step = "sent"
                /\ call'[d].write = call[d].write /\ call'[d].on = call[d].on
                /\ call'[d].ran = call[d].ran /\ call'[d].seen = call[d].seen
                /\ call'[d] \in CallSet
  <2>1. CASE d \notin Queued \union {c}
    <3>1. call'[d] = Stale(call[d]) /\ d # c /\ call[d].step # "queued"
      BY <2>1 DEF Refreshed, Queued, At, Stale
    <3>2. call[d] \in CallSet
      BY <1>0 DEF Typed
    <3> QED
      BY <3>1, <3>2, StaleKey
  <2>2. CASE d \in Queued \union {c}
    <3>1. call'[d] = [call[d] EXCEPT !.step = "sent", !.good = TRUE, !.current = FALSE,
                                     !.late = FALSE, !.fresh = FALSE]
      BY <2>2 DEF Refreshed
    <3>2. call[d] \in CallSet /\ call[d].step \in {"queued", "refreshed"}
      BY <1>0, <2>2 DEF Typed, Queued, At
    <3>3. call'[d] \in CallSet
      BY <3>1, <3>2 DEF CallSet, Steps
    <3>4. /\ call'[d].step = "sent"
          /\ call'[d].write = call[d].write /\ call'[d].on = call[d].on
          /\ call'[d].ran = call[d].ran /\ call'[d].seen = call[d].seen
      BY <3>1, <3>2 DEF CallSet
    <3> QED
      BY <3>2, <3>3, <3>4
  <2> QED
    BY <2>1, <2>2
<1>3. call' \in [Calls -> CallSet]
  <2>1. \A d \in Calls : call'[d] \in CallSet
    BY <1>0, <1>2 DEF Typed
  <2>2. call' = [d \in Calls |-> call'[d]]
    BY DEF Refreshed
  <2> QED
    BY <2>1, <2>2
<1>4. Typed' /\ CacheHasOwnWrites'
  BY <1>0, <1>1, <1>3 DEF Typed, tab, CacheHasOwnWrites
<1>5. CallsOK'
  <2> SUFFICES ASSUME NEW d \in Calls PROVE CallOK(d)'
    BY DEF CallsOK
  <2>1. CASE call'[d] = Stale(call[d])
    BY <1>1, <2>1, StaleStaysOK
  <2>2. CASE call'[d] # Stale(call[d])
    <3>1. CallOK(d)
      BY DEF Inv, CallsOK
    <3>2. /\ call[d].step \in {"queued", "refreshed"} /\ call'[d].step = "sent"
          /\ call'[d].write = call[d].write /\ call'[d].ran = call[d].ran
          /\ call'[d].seen = call[d].seen
      BY <1>2, <2>2
    <3> QED
      BY <1>1, <3>1, <3>2 DEF CallOK
  <2> QED
    BY <2>1, <2>2
<1>6. Sharing'
  <2>1. \A d \in Calls : Same(d)
    BY <1>1, <1>2 DEF Same
  <2> QED
    BY <1>1, <2>1, SharingKept
<1>7. OneWriter' /\ OneRefresh'
  BY <1>2, OneWriterStays, OneRefreshStays DEF Refreshing
<1>8. Session'
  <2>1. \A d \in Calls : call'[d].step \notin Refreshing
    BY <1>0, <1>2 DEF Inv, OneRefresh, Refreshing
  <2> QED
    BY <1>1, <2>1 DEF Session, Refreshing
<1> QED
  BY <1>4, <1>5, <1>6, <1>7, <1>8 DEF Inv

LEMMA RefusedKeeps == ASSUME Inv, NEW c \in Calls, Refused(c) PROVE Inv'
<1> DEFINE E == {d \in Calls : \/ d \in Rejected(c) /\ ~Retryable(d)
                               \/ /\ d \notin Rejected(c) /\ call[d].on \in Rejected(c)
                                  /\ ~Retryable(call[d].on)}
<1>0. Typed /\ call[c].step = "refused"
  BY DEF Inv, Refused, At
<1>1. UNCHANGED <<db, acked, lockedOut, mishaps>> /\ cache' = None /\ inFlight' = None
      /\ hold' = "none" /\ token' = FALSE /\ stranded' = {}
  BY DEF Refused
<1>2. lockedOut
  BY <1>0 DEF Inv, Session
<1>3. Rejected(c) \subseteq Calls
      /\ \A d \in Rejected(c) : call[d].step \in {"queued", "refused"} /\ call[d].on = None
  BY <1>0 DEF Rejected, Queued, At, Inv, Sharing
<1>4. ASSUME NEW d \in Calls
      PROVE  \/ d \in E /\ call'[d] = Idle
             \/ /\ d \notin E /\ d \in Rejected(c) /\ Retryable(d)
                /\ call'[d] = Stale(Waiting(d))
             \/ /\ d \notin E /\ d \notin Rejected(c)
                /\ call'[d] = Stale(call[d])
  <2>1. Stale(Idle) = Idle
    BY IdleIsStale
  <2>2. call'[d] = Stale(AfterReject(Rejected(c), d))
    BY DEF Refused, Stale
  <2>3. CASE d \in E
    BY <2>1, <2>2, <2>3 DEF AfterReject
  <2>4. CASE d \notin E /\ d \in Rejected(c)
    BY <2>2, <2>4 DEF AfterReject
  <2>5. CASE d \notin E /\ d \notin Rejected(c)
    BY <2>2, <2>5 DEF AfterReject
  <2> QED
    BY <2>3, <2>4, <2>5
<1> HIDE DEF E
<1>5. ASSUME NEW d \in Calls, d \in Rejected(c), Retryable(d)
      PROVE  /\ Stale(Waiting(d)) \in CallSet /\ Stale(Waiting(d)).step = "backoff"
             /\ Stale(Waiting(d)).seen = 0 /\ Stale(Waiting(d)).ran = call[d].ran
             /\ Stale(Waiting(d)).write = call[d].write /\ ~call[d].write
             /\ Stale(Waiting(d)).on = call[d].on
             /\ Stale(Waiting(d)).attempt < MaxAttempts
  <2>1. call[d] \in CallSet
    BY <1>0 DEF Typed
  <2>2. Waiting(d) \in CallSet
    BY <2>1, IdleIsTyped DEF Waiting, CallSet, Steps
  <2>3. /\ Waiting(d).step = "backoff" /\ Waiting(d).write = call[d].write
        /\ Waiting(d).on = None /\ Waiting(d).seen = 0
        /\ Waiting(d).attempt = call[d].attempt /\ Waiting(d).ran = call[d].ran
    BY DEF Waiting, Idle
  <2> QED
    BY <1>3, <1>5, <2>2, <2>3, StaleKey DEF Retryable
<1>6. call' \in [Calls -> CallSet]
  <2>1. \A d \in Calls : call'[d] \in CallSet
    BY <1>0, <1>4, <1>5, IdleIsTyped, StaleKey DEF Typed
  <2>2. call' = [d \in Calls |-> call'[d]]
    BY DEF Refused
  <2> QED
    BY <2>1, <2>2
<1>7. Typed' /\ CacheHasOwnWrites'
  BY <1>0, <1>1, <1>6 DEF Typed, tab, CacheHasOwnWrites
<1>8. CallsOK'
  <2> SUFFICES ASSUME NEW d \in Calls PROVE CallOK(d)'
    BY DEF CallsOK
  <2>1. CASE call'[d] = Idle \/ call'[d] = Stale(call[d])
    BY <1>1, <2>1, CallStaysOK, StaleStaysOK
  <2>2. CASE d \in Rejected(c) /\ Retryable(d)
             /\ call'[d] = Stale(Waiting(d))
    <3>1. CallOK(d) /\ db \in Nat
      BY <1>0, BoundsAssumption DEF Inv, CallsOK, Typed
    <3> QED
      BY <1>1, <1>5, <2>2, <3>1 DEF CallOK
  <2> QED
    BY <1>4, <2>1, <2>2
<1>9. Sharing'
  <2>1. E \in SUBSET Calls /\ \A d \in E : call'[d] = Idle
    BY <1>4 DEF E
  <2>2. \A d \in Calls \ E : Same(d)
    BY <1>0, <1>1, <1>3, <1>4, <1>5, StaleKey DEF Same, Typed
  <2>3. ASSUME NEW d \in Calls, call[d].on \in E PROVE d \in E
    <3>1. call[d].on # None /\ call[d].on \in Calls
      BY <2>1, <2>3, NoneAssumption
    <3>2. call[d].step = "joined" /\ Shared(call[d].on)
      BY <3>1 DEF Inv, Sharing
    <3>3. call[call[d].on].on = None
      BY <3>2 DEF Shared, Inv, Sharing
    <3>4. call[d].on \in Rejected(c) /\ ~Retryable(call[d].on)
      <4>1. None \notin Rejected(c)
        BY <1>3, NoneAssumption
      <4> QED
        BY <2>3, <3>3, <4>1 DEF E
    <3>5. d \notin Rejected(c)
      BY <1>3, <3>2
    <3> QED
      BY <3>4, <3>5 DEF E
  <2>4. inFlight' \in {inFlight, None} \ E
    BY <1>1, <2>1, NoneAssumption
  <2> QED
    BY <2>1, <2>2, <2>3, <2>4, SharingStays
<1>10. \A d \in Calls : /\ call'[d].write => call[d].write
                        /\ call'[d].step \in Refreshing => call[d].step \in Refreshing
  BY <1>0, <1>4, <1>5, IdleIsTyped, StaleKey DEF Refreshing, Typed
<1>11. OneWriter' /\ OneRefresh'
  BY <1>10, OneWriterStays, OneRefreshStays
<1>12. Session'
  BY <1>1, <1>2 DEF Session
<1> QED
  BY <1>7, <1>8, <1>9, <1>11, <1>12 DEF Inv

-----------------------------------------------------------------------------
(* Around the calls. *)

LEMMA ExpireTokenKeeps == ASSUME Inv, ExpireToken PROVE Inv'
<1>0. Typed
  BY DEF Inv
<1>1. UNCHANGED <<db, hold, cache, inFlight, acked, stranded, lockedOut>>
      /\ mishaps' \in 0 .. MaxMishaps /\ token' = FALSE
  BY <1>0, BoundsAssumption DEF ExpireToken, Mishap, Typed
<1>2. ASSUME NEW d \in Calls
      PROVE  /\ call'[d] \in CallSet /\ call'[d].step = call[d].step
             /\ call'[d].write = call[d].write /\ call'[d].on = call[d].on
             /\ call'[d].ran = call[d].ran /\ call'[d].seen = call[d].seen
             /\ call'[d].attempt = call[d].attempt
             /\ call'[d].late = call[d].late /\ call'[d].current = call[d].current
             /\ call'[d].fresh = call[d].fresh
  <2>1. call[d] \in CallSet /\ call'[d] = [call[d] EXCEPT !.good = FALSE]
    BY <1>0 DEF Typed, ExpireToken
  <2>2. call'[d] \in CallSet
    BY <2>1 DEF CallSet
  <2> QED
    BY <2>1, <2>2 DEF CallSet
<1>3. call' \in [Calls -> CallSet]
  <2>1. call' = [d \in Calls |-> call'[d]]
    BY DEF ExpireToken
  <2> QED
    BY <1>2, <2>1
<1>4. Typed' /\ CacheHasOwnWrites'
  BY <1>0, <1>1, <1>3 DEF Typed, tab, Inv, CacheHasOwnWrites
<1>5. CallsOK'
  <2> SUFFICES ASSUME NEW d \in Calls PROVE CallOK(d)'
    BY DEF CallsOK
  <2>1. CallOK(d)
    BY DEF Inv, CallsOK
  <2> QED
    BY <1>1, <1>2, <2>1 DEF CallOK
<1>6. \A d \in Calls : Same(d)
  BY <1>2 DEF Same
<1>7. Sharing' /\ OneWriter' /\ OneRefresh' /\ Session'
  BY <1>1, <1>2, <1>6, SharingKept, OneWriterStays, OneRefreshStays, SessionStays
<1> QED
  BY <1>4, <1>5, <1>7 DEF Inv

(* The cache is emptied, or the tab gets another session while nothing is  *)
(* under way.                                                              *)
LEMMA QuietKeeps ==
    ASSUME Inv, ExpireCache \/ SignIn
    PROVE  Inv'
<1>0. Typed
  BY DEF Inv
<1>1. UNCHANGED <<db, inFlight, call, acked, stranded, mishaps>> /\ cache' = None
  BY DEF ExpireCache, SignIn
<1>2. Typed' /\ CacheHasOwnWrites'
  BY <1>0, <1>1 DEF Typed, tab, ExpireCache, SignIn, CacheHasOwnWrites
<1>3. CallsOK' /\ Sharing' /\ OneWriter' /\ OneRefresh'
  BY <1>1 DEF Inv, CallsOK, CallOK, Sharing, Shared, OneWriter, OneRefresh
<1>4. Session'
  <2>1. CASE ExpireCache
    BY <1>1, <2>1 DEF ExpireCache, tab, Inv, Session
  <2>2. CASE SignIn
    BY <1>1, <2>2 DEF SignIn, Quiet, At, Session
  <2> QED
    BY <2>1, <2>2
<1> QED
  BY <1>2, <1>3, <1>4 DEF Inv

LEMMA InitHolds == Init => Inv
<1> SUFFICES ASSUME Init PROVE Inv
  OBVIOUS
<1>1. \A c \in Calls : call[c] = Idle
  BY DEF Init
<1>2. Typed /\ CacheHasOwnWrites
  <2>1. call \in [Calls -> CallSet]
    BY IdleIsTyped DEF Init
  <2>2. db \in 0 .. MaxWrites /\ acked \in 0 .. db /\ mishaps \in 0 .. MaxMishaps
    BY BoundsAssumption DEF Init
  <2>3. /\ hold \in {"current", "old", "none"} /\ token \in BOOLEAN
        /\ cache = None /\ inFlight = None /\ stranded = {} /\ lockedOut \in BOOLEAN
    BY DEF Init
  <2> QED
    BY <2>1, <2>2, <2>3 DEF Typed, CacheHasOwnWrites
<1>3. CallsOK /\ Sharing
  BY <1>1, IdleIsTyped DEF Init, CallsOK, CallOK, Sharing
<1>4. OneWriter /\ OneRefresh /\ Session
  BY <1>1, IdleIsTyped DEF Init, OneWriter, OneRefresh, Refreshing, Session
<1> QED
  BY <1>2, <1>3, <1>4 DEF Inv

LEMMA NextKeeps == Inv /\ [Next]_vars => Inv'
<1> SUFFICES ASSUME Inv, [Next]_vars PROVE Inv'
  OBVIOUS
<1>1. ASSUME NEW c \in Calls, StartRead(c) \/ StartWrite(c) PROVE Inv'
  BY <1>1, StartReadKeeps, StartWriteKeeps
<1>2. ASSUME NEW c \in Calls, Progress(c) PROVE Inv'
  BY <1>2, ServeKeeps, ReadAnsweredKeeps, WriteAnsweredKeeps, CallFailedKeeps, NextAttemptKeeps,
     UnauthorizedKeeps, ServeRefreshKeeps, RefreshedKeeps, RefusedKeeps, ThrewKeeps DEF Progress
<1>3. CASE ExpireToken
  BY <1>3, ExpireTokenKeeps
<1>4. CASE ExpireCache \/ SignIn
  BY <1>4, QuietKeeps
<1>5. CASE UNCHANGED vars
  BY <1>5 DEF vars, tab, Inv, Typed, CallsOK, CallOK, Sharing, Shared, OneWriter, OneRefresh,
              Session, CacheHasOwnWrites
<1> QED
  BY <1>1, <1>2, <1>3, <1>4, <1>5 DEF Next

LEMMA InvHolds == Spec => []Inv
BY InitHolds, NextKeeps, PTL DEF Spec

(* However calls, refreshes, expiries and lost answers interleave, the     *)
(* server carries out no write twice, and the tab loses its session only   *)
(* when the answer to a refresh was lost (isRetryable, the interceptor).   *)
THEOREM NothingIsRunTwice == Spec => []NothingRunsTwice
<1>1. Inv => NothingRunsTwice
  <2> SUFFICES ASSUME Inv PROVE NothingRunsTwice
    OBVIOUS
  <2>1. TypeOK
    BY DEF Inv, Typed, TypeOK, Sharing, Shared, At
  <2>2. WritesRunOnce
    BY DEF Inv, CallsOK, CallOK, WritesRunOnce
  <2>3. StaysSignedIn
    BY DEF Inv, Session, StaysSignedIn
  <2> QED
    BY <2>1, <2>2, <2>3 DEF NothingRunsTwice
<1> QED
  BY <1>1, InvHolds, PTL

(* The cache never shows the tab what was there before a write of its own  *)
(* that was answered, unless the read was under way when it was.           *)
THEOREM OwnWritesAreShown == Spec => []CacheHasOwnWrites
<1>1. Inv => CacheHasOwnWrites
  BY DEF Inv
<1> QED
  BY <1>1, InvHolds, PTL
=============================================================================
