-------------------------------- MODULE Chat --------------------------------
(***************************************************************************)
(* The chat of one agreement: the thread and its messages on the server,   *)
(* the pages of one party (the list of conversations and the conversation) *)
(* and the other party, of whom the pages see only what the server stores. *)
(* The conversation loads the messages once, polls every four seconds for  *)
(* those after the last one it shows, and appends the messages it sends    *)
(* itself.  Its reads go through the API client, which shares reads in     *)
(* flight and keeps answers for a while.                                   *)
(*                                                                         *)
(* A message is its position in the log, which is also the order of the    *)
(* createdAt that pages send as a cursor; 0 stands for no cursor.          *)
(***************************************************************************)
EXTENDS Integers, Sequences, SequencesExt

CONSTANTS FirstPage,     \* messages of a load without cursor (limit=100)
          NextPage,      \* messages of a poll (the default limit, 50)
          MaxMessages    \* bound: messages ever stored

LimitsAssumption == FirstPage \in Nat \ {0} /\ NextPage \in Nat \ {0}
MaxMessagesAssumption == MaxMessages \in Nat

VARIABLES
    status,   \* Agreement.status: ACTIVE, then COMPLETED
    thread,   \* TRUE once the ChatThread row exists
    log,      \* the senders of the messages, in the order of createdAt
    page,     \* the page
    flight,   \* its loads in flight, by cursor
    kept      \* its answers kept by the API client, by cursor

server == <<status, thread, log>>
vars == <<server, page, flight, kept>>

Senders == {"me", "them"}

Cursors == 0 .. MaxMessages

(* What a load answers: the messages after the cursor up to one position,  *)
(* and whether the agreement was ACTIVE.                                   *)
Answers == [state : {"none", "asked", "read"}, upto : Cursors, active : BOOLEAN]

None  == [state |-> "none", upto |-> 0, active |-> FALSE]
Asked == [None EXCEPT !.state = "asked"]

Rows == {"no", "ACTIVE", "COMPLETED"}

Pages == [at      : {"closed", "listing", "list", "opening", "creating", "open", "refused"},
          row     : Rows,             \* how the list shows the agreement, if it does
          had     : BOOLEAN,          \* history: the list found a thread to begin with
          shown   : Seq(1 .. MaxMessages),
          canSend : BOOLEAN,
          sent    : BOOLEAN,          \* history: it appended a message of its own
          posting : {"no", "checked", "stored"},
          posted  : Cursors]          \* the message stored by the post under way

Closed == [at |-> "closed", row |-> "no", had |-> FALSE, shown |-> <<>>, canSend |-> FALSE, sent |-> FALSE,
           posting |-> "no", posted |-> 0]

Active == status = "ACTIVE"

Init ==
    /\ status = "ACTIVE"
    /\ thread = FALSE
    /\ log = <<>>
    /\ page = Closed
    /\ flight = [c \in Cursors |-> None]
    /\ kept = [c \in Cursors |-> None]

-----------------------------------------------------------------------------
(* The list of conversations: those with a thread, then those that are     *)
(* ACTIVE and have none yet, in two queries.                               *)

(* Mutant: only conversations one can write in are listed.                 *)
RowWhileActive == IF thread /\ Active THEN status ELSE "no"

RowOf == IF thread THEN status ELSE "no"

ListThreads ==
    /\ page.at \in {"closed", "refused", "list"}
    /\ page' = [Closed EXCEPT !.at = "listing", !.row = RowOf, !.had = thread]
    /\ UNCHANGED <<server, flight, kept>>

ListUnopened ==
    /\ page.at = "listing"
    /\ page' = [page EXCEPT !.at = "list",
                            !.row = IF @ = "no" /\ Active /\ ~thread THEN "ACTIVE" ELSE @]
    /\ UNCHANGED <<server, flight, kept>>

(* Opening the page: get or create the thread. *)

Open ==
    /\ page.at \in {"closed", "refused", "list"}
    /\ page' = [Closed EXCEPT !.at = "opening"]
    /\ UNCHANGED <<server, flight, kept>>

OpenRead ==
    /\ page.at = "opening"
    /\ page' = [page EXCEPT !.at = IF thread THEN "open"
                                      ELSE IF Active THEN "creating" ELSE "refused",
                            !.canSend = thread /\ Active]
    /\ UNCHANGED <<server, flight, kept>>

(* The unique agreementId fails the second of two creations; the client    *)
(* tries a read that failed on the server again, and finds the thread.     *)
OpenCreate ==
    /\ page.at = "creating"
    /\ \/ /\ ~thread
          /\ thread' = TRUE
          /\ page' = [page EXCEPT !.at = "open", !.canSend = TRUE]
       \/ /\ thread
          /\ page' = [page EXCEPT !.at = "opening"]
          /\ UNCHANGED thread
    /\ UNCHANGED <<status, log, flight, kept>>

(* A page is left between two posts; the loads it leaves behind answer     *)
(* nobody.                                                                 *)
Leave ==
    /\ page.at = "open"
    /\ page.posting = "no"
    /\ page' = Closed
    /\ flight' = [c \in Cursors |-> None]
    /\ UNCHANGED <<server, kept>>

-----------------------------------------------------------------------------
(* Loading and polling. *)

(* Mutant: a poll asks for what comes after this moment.                   *)
CursorOfNow == IF page.shown = <<>> THEN 0 ELSE Len(log)

Cursor == IF page.shown = <<>> THEN 0 ELSE Last(page.shown)

(* Mutant: answers are appended as they come.                              *)
MergedBlindly(shown, c, answer) ==
    shown \o [i \in 1 .. answer.upto - c |-> c + i]

(* Without a cursor the answer replaces what is shown; a poll appends the  *)
(* messages that are not shown yet.                                        *)
Merged(shown, c, answer) ==
    LET old == IF c = 0 THEN <<>> ELSE shown
        merged[m \in c .. answer.upto] ==
            IF m = c THEN old
            ELSE IF m \in Range(old) THEN merged[m - 1] ELSE Append(merged[m - 1], m)
    IN  merged[answer.upto]

Apply(c, answer) ==
    page' = [page EXCEPT !.shown = Merged(@, c, answer),
                         !.canSend = answer.active]

(* The first load, and every tick of the timer.  A kept answer is used as  *)
(* it is; a load of the same cursor in flight is shared.                   *)
Poll ==
    LET c == Cursor
    IN  /\ page.at = "open"
        /\ \/ /\ kept[c] # None
              /\ Apply(c, kept[c])
              /\ UNCHANGED flight
           \/ /\ kept[c] = None /\ flight[c] = None
              /\ flight' = [flight EXCEPT ![c] = Asked]
              /\ UNCHANGED page
        /\ UNCHANGED <<server, kept>>

(* The last message of a page of messages after c, oldest first.           *)
PageEnd(c, last) ==
    LET limit == IF c = 0 THEN FirstPage ELSE NextPage
    IN  IF c + limit < last THEN c + limit ELSE last

ListMessages(c) ==
    /\ flight[c] = Asked
    /\ flight' = [flight EXCEPT ![c] = [state |-> "read",
                                           upto |-> PageEnd(c, Len(log)),
                                           active |-> Active]]
    /\ UNCHANGED <<server, page, kept>>

Arrive(c) ==
    /\ flight[c].state = "read"
    /\ Apply(c, flight[c])
    /\ kept' = [kept EXCEPT ![c] = flight[c]]
    /\ flight' = [flight EXCEPT ![c] = None]
    /\ UNCHANGED server

(* Mutant: only answers with messages in them are ever forgotten.          *)
ExpireUseful(c) ==
    /\ kept[c].upto > c
    /\ kept' = [kept EXCEPT ![c] = None]
    /\ UNCHANGED <<server, page, flight>>

(* The lifetime of a kept answer ends.                                     *)
Expire(c) ==
    /\ kept[c] # None
    /\ kept' = [kept EXCEPT ![c] = None]
    /\ UNCHANGED <<server, page, flight>>

-----------------------------------------------------------------------------
(* Sending. *)

PostCheck ==
    /\ page.at = "open" /\ page.canSend /\ page.posting = "no"
    /\ Active
    /\ page' = [page EXCEPT !.posting = "checked"]
    /\ UNCHANGED <<server, flight, kept>>

PostInsert ==
    /\ page.posting = "checked"
    /\ Len(log) < MaxMessages
    /\ log' = Append(log, "me")
    /\ page' = [page EXCEPT !.posting = "stored", !.posted = Len(log')]
    /\ UNCHANGED <<status, thread, flight, kept>>

PostReturn ==
    /\ page.posting = "stored"
    /\ page' = [page EXCEPT !.shown = Append(@, page.posted),
                            !.sent = TRUE,
                            !.posting = "no", !.posted = 0]
    /\ UNCHANGED <<server, flight, kept>>

(* The answer of a post is lost, or the post fails before it stores.       *)
PostLost ==
    /\ page.posting # "no"
    /\ page' = [page EXCEPT !.posting = "no", !.posted = 0]
    /\ UNCHANGED <<server, flight, kept>>

(* The other party, on any client, opens the thread and posts.             *)
TheirOpen ==
    /\ Active /\ ~thread
    /\ thread' = TRUE
    /\ UNCHANGED <<status, log, page, flight, kept>>

TheirPost ==
    /\ thread /\ Active
    /\ Len(log) < MaxMessages
    /\ log' = Append(log, "them")
    /\ UNCHANGED <<status, thread, page, flight, kept>>

(* The student completes the requirement.                                  *)
Complete ==
    /\ Active
    /\ status' = "COMPLETED"
    /\ UNCHANGED <<thread, log, page, flight, kept>>

Next ==
    \/ Complete \/ TheirOpen \/ TheirPost
    \/ ListThreads \/ ListUnopened
    \/ Open \/ OpenRead \/ OpenCreate \/ Leave \/ Poll
    \/ PostCheck \/ PostInsert \/ PostReturn \/ PostLost
    \/ \E c \in Cursors : ListMessages(c) \/ Arrive(c) \/ Expire(c)

Spec == Init /\ [][Next]_vars

(* The timer ticks, the server and the network answer, and time passes.    *)
Fairness == /\ WF_vars(Poll)
            /\ \A c \in Cursors : /\ WF_vars(ListMessages(c))
                                  /\ WF_vars(Arrive(c))
                                  /\ WF_vars(Expire(c))

FairSpec == Spec /\ Fairness

-----------------------------------------------------------------------------
(* Every row, page and load has its type; an open page has a thread, and   *)
(* only an open page is sending or has loads in flight.                    *)
TypeOK ==
    /\ status \in {"ACTIVE", "COMPLETED"}
    /\ thread \in BOOLEAN
    /\ log \in Seq(Senders) /\ Len(log) <= MaxMessages
    /\ page \in Pages
    /\ flight \in [Cursors -> Answers]
    /\ kept \in [Cursors -> Answers]
    /\ page.at = "open" => thread
    /\ page.at # "open" => page.posting = "no" /\ \A c \in Cursors : flight[c] = None

(* A page that has not sent a message since it was opened shows the oldest *)
(* messages, in order, each once and none left out, whatever loads overlap *)
(* and however old the answers are that the API client kept for it         *)
(* (loadMessages, listMessages).                                           *)
ReaderMissesNothing ==
    ~page.sent => \A i \in DOMAIN page.shown : page.shown[i] = i

(* Whatever the page sends, it shows a message of the other party once:    *)
(* loadMessages compares ids before it appends.                            *)
OthersShownOnce ==
    \A i, j \in DOMAIN page.shown :
        page.shown[i] = page.shown[j] /\ log[page.shown[i]] = "them" => i = j

(* The list leaves an agreement out only if it was completed unopened, or  *)
(* if its thread was created between the two queries of listThreads, and a *)
(* conversation it shows as finished is so.                                *)
ListsTheDeal ==
    [][page.at = "listing" /\ page'.at = "list" =>
           /\ page'.row = "no" => thread # page.had \/ (~thread /\ ~Active)
           /\ page'.row = "COMPLETED" => ~Active]_vars

(* An open page comes to show every message, unless it sent one itself,    *)
(* and comes to know that the agreement was completed: the timer ticks and *)
(* what the API client kept expires.                                       *)
PageSettles ==
    []<>(page.at = "open" => /\ page.sent \/ Len(page.shown) = Len(log)
                             /\ page.canSend => Active)
=============================================================================
