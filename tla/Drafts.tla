------------------------------- MODULE Drafts -------------------------------
(***************************************************************************)
(* The form of a requirement, which saves itself: every change sets a      *)
(* timer, the timer sends the form, and the first answer tells the page    *)
(* the id of its draft, after which it reads the draft back.  A timer      *)
(* keeps the form and the id of the moment it was set; saves, the load     *)
(* and the search for the device's position run beside further typing.     *)
(*                                                                         *)
(* The fields that are sent whatever they hold are one counter that every  *)
(* change increases; the note stands for the fields that are left out of   *)
(* the body when they are empty, the notes and the address.  A place is    *)
(* where the coordinates of a form or a row come from: a pincode, the      *)
(* device, or nowhere.                                                     *)
(***************************************************************************)
EXTENDS Integers, FiniteSets

CONSTANTS Pins,       \* the pincodes that are typed
          Notes,      \* the notes that are typed
          Saves,      \* bound: saves in flight at once
          MaxDrafts,  \* bound: rows ever created
          MaxText     \* bound: changes of the text

MaxDraftsAssumption == MaxDrafts \in Nat \ {0}
MaxTextAssumption == MaxText \in Nat

VARIABLES
    rows,      \* the drafts, a function on the ids that exist
    form,      \* what the page shows
    reqId,     \* the id of the page's draft, 0 before it has one
    timer,     \* the save that is to be sent when typing pauses
    save,      \* the saves in flight
    saving,    \* the flag that disables the save button
    error,     \* a save failed since the last one was sent
    load,      \* the draft being read back
    locating,  \* the form that the position of the device will complete
    mounted,   \* FALSE once the page has been left
    raced      \* history: a change or a save was made while another was under
               \* way, or the answer of the first save was lost

page == <<form, reqId, timer, saving, error, locating, mounted>>
vars == <<rows, page, save, load, raced>>

Ids    == 1 .. MaxDrafts
NoPin  == "no pincode"
NoNote == "no note"
Device == "device"
Places == Pins \union {NoPin, Device}
Forms  == [pin : Pins \union {NoPin}, place : Places, text : 0 .. MaxText,
           note : Notes \union {NoNote}]
Blank  == [pin |-> NoPin, place |-> NoPin, text |-> 0, note |-> NoNote]

NoTimer == [on |-> FALSE, form |-> Blank, id |-> 0]
NoLoad  == [step |-> "none", id |-> 0, form |-> Blank]
NoSave  == [step |-> "idle", id |-> 0, form |-> Blank, base |-> Blank, leave |-> FALSE]
Nowhere == [on |-> FALSE, form |-> Blank]

InFlight == {s \in Saves : save[s].step # "idle"}
Busy     == InFlight # {} \/ load # NoLoad

(* A new page, or the page of an existing draft that is yet to be read.    *)
Init ==
    /\ \/ rows = <<>> /\ reqId = 0 /\ load = NoLoad
       \/ /\ \E f \in Forms : f.text = 0 /\ f.place = f.pin /\ rows = <<f>>
          /\ reqId = 1
          /\ load = [NoLoad EXCEPT !.step = "asked", !.id = 1]
    /\ form = Blank
    /\ timer = NoTimer
    /\ save = [s \in Saves |-> NoSave]
    /\ saving = FALSE /\ error = FALSE
    /\ locating = Nowhere
    /\ mounted = TRUE
    /\ raced = FALSE

-----------------------------------------------------------------------------
(* Typing.  A change shows the new form and starts the timer again. *)

(* scheduleSave: the timer remembers the form and the id of this moment.   *)
ScheduleSave(next) ==
    /\ form' = next
    /\ timer' = [on |-> TRUE, form |-> next, id |-> reqId]

EditText ==
    /\ mounted /\ form.text < MaxText
    /\ ScheduleSave([form EXCEPT !.text = @ + 1])
    /\ raced' = (raced \/ Busy)
    /\ UNCHANGED <<rows, reqId, save, saving, error, load, locating, mounted>>

EditNote(note) ==
    /\ mounted /\ note # form.note
    /\ ScheduleSave([form EXCEPT !.note = note])
    /\ raced' = (raced \/ Busy)
    /\ UNCHANGED <<rows, reqId, save, saving, error, load, locating, mounted>>

EditPin(pin) ==
    /\ mounted /\ pin # form.pin
    /\ ScheduleSave([form EXCEPT !.pin = pin, !.place = NoPin])
    /\ raced' = (raced \/ Busy)
    /\ UNCHANGED <<rows, reqId, save, saving, error, load, locating, mounted>>

(* The location button keeps the form it was pressed on until the position *)
(* of the device is known, or refused and the pincode's is asked for.      *)
Locate ==
    /\ mounted /\ ~locating.on
    /\ locating' = [on |-> TRUE, form |-> form]
    /\ UNCHANGED <<rows, form, reqId, timer, save, saving, error, load, mounted, raced>>

Located ==
    /\ locating.on
    /\ locating' = Nowhere
    /\ \/ \E place \in {Device, locating.form.pin} \ {NoPin} :
             /\ ScheduleSave([locating.form EXCEPT !.place = place])
             /\ raced' = (raced \/ Busy \/ locating.form # form)
       \/ UNCHANGED <<form, timer, raced>>
    /\ UNCHANGED <<rows, reqId, save, saving, error, load, mounted>>

-----------------------------------------------------------------------------
(* Sending. *)

(* persist: sends a form under an id, POST without one and PATCH with one. *)
Persist(s, f, id, leave) ==
    /\ save[s] = NoSave
    /\ save' = [save EXCEPT ![s] = [NoSave EXCEPT !.step = "sent", !.id = id,
                                                  !.form = f, !.leave = leave]]
    /\ saving' = TRUE
    /\ error' = FALSE
    /\ raced' = (raced \/ Busy)

(* The timer is not stopped when the page is left.                         *)
TimerFires(s) ==
    /\ timer.on
    /\ Persist(s, timer.form, timer.id, FALSE)
    /\ timer' = NoTimer
    /\ UNCHANGED <<rows, form, reqId, load, locating, mounted>>

(* The save button sends what is shown, does not stop the timer, and       *)
(* leaves the page when the save has ended if the page has an id.          *)
Submit(s) ==
    /\ mounted /\ ~saving
    /\ save[s] = NoSave
    /\ save' = [save EXCEPT ![s] = [NoSave EXCEPT !.step = "sent", !.id = reqId,
                                                  !.form = form, !.leave = reqId # 0]]
    /\ saving' = TRUE
    /\ error' = FALSE
    /\ raced' = (raced \/ Busy \/ timer.on)
    /\ UNCHANGED <<rows, form, reqId, timer, load, locating, mounted>>

-----------------------------------------------------------------------------
(* The server: create and update. *)

(* locationFields: without a pincode no coordinates are stored, otherwise  *)
(* those that were given or else those of the pincode.                     *)
Location(pin, place) ==
    IF pin = NoPin THEN NoPin ELSE IF place # NoPin THEN place ELSE pin

Create(s) ==
    LET f == save[s].form
        id == Cardinality(DOMAIN rows) + 1
    IN  /\ save[s].step = "sent" /\ save[s].id = 0
        /\ id \in Ids
        /\ rows' = [i \in 1 .. id |-> IF i = id THEN [f EXCEPT !.place = Location(f.pin, f.place)]
                                      ELSE rows[i]]
        /\ save' = [save EXCEPT ![s].step = "saved", ![s].id = id, ![s].base = rows'[id]]
        /\ UNCHANGED <<page, load, raced>>

UpdateRead(s) ==
    /\ save[s].step = "sent" /\ save[s].id # 0
    /\ save' = [save EXCEPT ![s].step = "read", ![s].base = rows[save[s].id]]
    /\ UNCHANGED <<rows, page, load, raced>>

(* Mutant: the text of the row that was read is written back.              *)
UpdatedKeepingText(base, f) == [f EXCEPT !.text = base.text]

(* The form leaves an empty pincode, an empty note and missing coordinates *)
(* out of the body, and what is not in the body stays as it was.           *)
Updated(base, f) ==
    LET pin == IF f.pin = NoPin THEN base.pin ELSE f.pin
    IN  [pin |-> pin, text |-> f.text,
         note |-> IF f.note = NoNote THEN base.note ELSE f.note,
         place |-> Location(pin, IF f.place = NoPin THEN base.place ELSE f.place)]

UpdateWrite(s) ==
    /\ save[s].step = "read"
    /\ rows' = [rows EXCEPT ![save[s].id] = Updated(save[s].base, save[s].form)]
    /\ save' = [save EXCEPT ![s].step = "updated", ![s].base = Blank]
    /\ UNCHANGED <<page, load, raced>>

(* The server refuses the form (budget, pincode, mode), or the network     *)
(* loses the request or the answer.                                        *)
Fail(s) ==
    /\ save[s].step \in {"sent", "saved", "updated"}
    /\ save' = [save EXCEPT ![s] = [NoSave EXCEPT !.step = "failed",
                                                  !.leave = save[s].leave]]
    /\ raced' = (raced \/ save[s].step = "saved")
    /\ UNCHANGED <<rows, page, load>>

-----------------------------------------------------------------------------
(* Answers. *)

(* Mutant: the page does not keep the id of the draft it created.          *)
ReturnForgetful(s) ==
    /\ save[s].step \in {"saved", "updated", "failed"}
    /\ saving' = FALSE
    /\ error' = (error \/ save[s].step = "failed")
    /\ mounted' = (mounted /\ ~save[s].leave)
    /\ save' = [save EXCEPT ![s] = NoSave]
    /\ UNCHANGED <<rows, form, reqId, load, timer, locating, raced>>

(* A created draft gives the page its id, and the new address of the page  *)
(* makes it read the draft back.  The save button's handler goes on to the *)
(* requirement's page whether the save succeeded or not.                   *)
Return(s) ==
    /\ save[s].step \in {"saved", "updated", "failed"}
    /\ saving' = FALSE
    /\ error' = (error \/ save[s].step = "failed")
    /\ mounted' = (mounted /\ ~save[s].leave)
    /\ IF save[s].step = "saved" /\ mounted
       THEN /\ reqId' = save[s].id
            /\ load' = [NoLoad EXCEPT !.step = "asked", !.id = save[s].id]
       ELSE UNCHANGED <<reqId, load>>
    /\ save' = [save EXCEPT ![s] = NoSave]
    /\ UNCHANGED <<rows, form, timer, locating, raced>>

LoadRead ==
    /\ load.step = "asked"
    /\ load' = [load EXCEPT !.step = "read", !.form = rows[load.id]]
    /\ UNCHANGED <<rows, page, save, raced>>

(* What was read replaces what is shown.                                   *)
LoadReturn ==
    /\ load.step = "read"
    /\ form' = load.form
    /\ reqId' = load.id
    /\ load' = NoLoad
    /\ UNCHANGED <<rows, timer, save, saving, error, locating, mounted, raced>>

LoadFails ==
    /\ load.step = "asked"
    /\ load' = NoLoad
    /\ UNCHANGED <<rows, page, save, raced>>

Next ==
    \/ EditText \/ (\E pin \in Pins \union {NoPin} : EditPin(pin))
    \/ \E note \in Notes \union {NoNote} : EditNote(note)
    \/ Locate \/ Located \/ LoadRead \/ LoadReturn \/ LoadFails
    \/ \E s \in Saves :
          \/ TimerFires(s) \/ Submit(s) \/ Create(s) \/ UpdateRead(s)
          \/ UpdateWrite(s) \/ Fail(s) \/ Return(s)

Spec == Init /\ [][Next]_vars

-----------------------------------------------------------------------------
(* Every variable has its type; a save or a load names a row that exists.  *)
TypeOK ==
    /\ Cardinality(DOMAIN rows) <= MaxDrafts
    /\ rows \in [1 .. Cardinality(DOMAIN rows) -> Forms]
    /\ form \in Forms /\ reqId \in {0} \union DOMAIN rows
    /\ timer.form \in Forms /\ timer.id \in {0} \union DOMAIN rows
    /\ locating.form \in Forms
    /\ \A s \in Saves : save[s].id \in {0} \union DOMAIN rows
    /\ load.id \in {0} \union DOMAIN rows
    /\ {saving, error, mounted, raced} \subseteq BOOLEAN

Quiet == ~Busy /\ ~timer.on /\ ~locating.on

(* The page creates one draft: once it knows the id it only updates        *)
(* (persist), unless a save was sent, or a change made, while another was  *)
(* in flight or the timer of an earlier one was running, or the answer of  *)
(* the first save was lost.                                                *)
OneDraft == ~raced => Cardinality(DOMAIN rows) <= 1

(* When nothing is pending and the last save did not fail, the draft is    *)
(* what the page shows (persist, update, the load effect), but for what    *)
(* was emptied in the form: a pincode or a note that was deleted there     *)
(* stays in the draft, and comes back when the draft is next opened.       *)
SavedAsShown ==
    ~raced /\ Quiet /\ ~error /\ reqId # 0 /\ form # Blank =>
        /\ rows[reqId].text = form.text
        /\ form.pin # NoPin => rows[reqId].pin = form.pin
        /\ form.note # NoNote => rows[reqId].note = form.note
=============================================================================
