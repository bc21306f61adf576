------------------------------- MODULE Wizard -------------------------------
(***************************************************************************)
(* The wizard in which a tutor fills in the profile: five steps, each of   *)
(* which saves its section and moves on when the server has answered.  The *)
(* page is loaded once; nothing is disabled while a save is under way but  *)
(* the button that sends it.                                               *)
(*                                                                         *)
(* A section is one value: 0 stands for one that is missing, and that the  *)
(* page or the server refuses.  A place is where coordinates come from: a  *)
(* pincode, the device, or nowhere.  One tab is followed; the fee may be   *)
(* settled elsewhere, everything else is changed by this tab alone.        *)
(***************************************************************************)
EXTENDS Integers, FiniteSets

CONSTANTS MaxValue,  \* the values of a section, of which 0 is refused; of the
                     \* fee there are two others
          MaxSaves,  \* bound: saves in flight at once
          MaxEdits   \* bound: changes made in the forms

MaxValueAssumption == MaxValue \in Nat \ {0, 1}
MaxSavesAssumption == MaxSaves \in Nat \ {0}
MaxEditsAssumption == MaxEdits \in Nat

VARIABLES
    row,      \* the tutor's row: the sections, the place, and whether the
              \* registration fee is settled
    shown,    \* the sections as the page shows them
    coords,   \* the coordinates the page has found; it loads none
    known,    \* the fee was settled in the last answer the page kept
    step,     \* the step that is shown, or the page that is shown instead
    loading,  \* the flag that disables the button of the step
    saves,    \* the saves in flight
    kept,     \* the answer of GET /tutors/me that the API client keeps
    edits,    \* the number of changes made
    edited,   \* history: the sections changed since the page was opened
    crossed   \* history: a section was changed, or the page left, during a
              \* save, or an answer was lost

pageVars == <<shown, coords, known, step, loading>>
vars == <<row, pageVars, saves, kept, edits, edited, crossed>>

Basics == 0   Subjects == 1   Availability == 2   Location == 3   Fee == 4
Sections  == Basics .. Fee
Checkout  == 5
Dashboard == 6

Values  == 0 .. MaxValue
NoPlace == 0
Device  == MaxValue + 1
Places  == Values \union {Device}

EarnFirst == 1
PayNow    == 2

(* What the form shows of a section that is still empty: one lesson is     *)
(* suggested, and the fee is to be taken from the first earnings.          *)
Default(s) == IF s \in {Availability, Fee} THEN 1 ELSE 0

SaveSet == [section : Sections, value : Values, place : Places, orphan : BOOLEAN]

(* The tutor is new, or has a complete profile.                            *)
Init ==
    /\ \E v \in {0, 2} : row = [section |-> [s \in Sections |-> v], place |-> v,
                                settled |-> FALSE]
    /\ shown = [s \in Sections |-> 0]
    /\ coords = NoPlace /\ known = FALSE
    /\ step = Dashboard /\ loading = FALSE
    /\ saves = {} /\ kept = {} /\ edits = 0 /\ edited = {} /\ crossed = FALSE

-----------------------------------------------------------------------------
(* The page. *)

Answer == IF kept # {} THEN CHOOSE r \in kept : TRUE ELSE row

(* Mutant: the lessons that are stored are not loaded.                     *)
LoadedWithoutLessons(r) ==
    [s \in Sections |-> IF r.section[s] = 0 \/ s = Availability THEN Default(s)
                        ELSE r.section[s]]

Loaded(r) == [s \in Sections |-> IF r.section[s] = 0 THEN Default(s) ELSE r.section[s]]

(* The wizard is opened, and loads the profile; the coordinates that are   *)
(* stored are not loaded.                                                  *)
Open ==
    /\ step \in {Dashboard, Checkout}
    /\ shown' = Loaded(Answer) /\ coords' = NoPlace /\ known' = Answer.settled
    /\ step' = Basics /\ loading' = FALSE
    /\ kept' = {Answer}
    /\ edited' = {}
    /\ UNCHANGED <<row, saves, edits, crossed>>

(* Mutant: coordinates outlive the pincode they were found for.            *)
ResetNothing(s) == coords

(* A change of the pincode forgets the coordinates.                        *)
Reset(s) == IF s = Location THEN NoPlace ELSE coords

(* A field of the step that is shown is changed.                           *)
Change(v) ==
    /\ edits < MaxEdits /\ v # shown[step]
    /\ shown' = [shown EXCEPT ![step] = v]
    /\ coords' = Reset(step)
    /\ edits' = edits + 1
    /\ edited' = edited \union {step}
    /\ crossed' = (crossed \/ saves # {})
    /\ UNCHANGED <<row, known, step, loading, saves, kept>>

EditBasics(v)       == step = Basics /\ Change(v)
EditSubjects(v)     == step = Subjects /\ Change(v)
EditAvailability(v) == step = Availability /\ Change(v)
EditPincode(v)      == step = Location /\ Change(v)

(* The fee is one of two, and cannot be changed once it is settled.        *)
EditFee(v) == step = Fee /\ ~known /\ v \in {EarnFirst, PayNow} /\ Change(v)

(* The position of the device is read.                                     *)
CaptureMyLocation ==
    /\ step = Location /\ coords # Device /\ edits < MaxEdits
    /\ coords' = Device
    /\ edits' = edits + 1
    /\ edited' = edited \union {Location}
    /\ crossed' = (crossed \/ saves # {})
    /\ UNCHANGED <<row, shown, known, step, loading, saves, kept>>

(* The previous step is shown, also during a save.                         *)
Previous ==
    /\ step \in Sections \ {Basics}
    /\ step' = step - 1
    /\ UNCHANGED <<row, shown, coords, known, loading, saves, kept, edits, edited, crossed>>

(* The photo is uploaded from the first step; when it has been, the button *)
(* is enabled, whatever else is under way.                                 *)
UploadPhoto ==
    /\ step = Basics
    /\ known' = row.settled /\ loading' = FALSE
    /\ UNCHANGED <<row, shown, coords, step, saves, kept, edits, edited, crossed>>

(* What is still under way when the page is left.                          *)
Orphaned(left) == {[c EXCEPT !.orphan = TRUE] : c \in left}

(* The tutor goes to the dashboard, which loads the same profile.          *)
Leave ==
    /\ step \in Sections
    /\ step' = Dashboard
    /\ kept' = {Answer}
    /\ saves' = Orphaned(saves)
    /\ crossed' = (crossed \/ saves # {})
    /\ UNCHANGED <<row, shown, coords, known, loading, edits, edited>>

(* The button of a step sends its section.                                 *)
Send(place) ==
    /\ ~loading /\ Cardinality(saves) < MaxSaves
    /\ saves' = saves \union {[section |-> step, value |-> shown[step],
                               place |-> place, orphan |-> FALSE]}
    /\ loading' = TRUE
    /\ UNCHANGED <<row, shown, coords, known, step, kept, edits, edited, crossed>>

SaveBasics       == step = Basics /\ Send(NoPlace)
SaveSubjects     == step = Subjects /\ Send(NoPlace)
SaveAvailability == step = Availability /\ Send(NoPlace)
SaveLocation     == step = Location /\ Send(coords)

(* A fee that is settled is not sent: the page is left.                    *)
SaveFee ==
    /\ step = Fee
    /\ \/ ~known /\ Send(NoPlace)
       \/ known /\ ~loading /\ Leave

(* resolveGeo: before a pincode without coordinates is sent, its           *)
(* coordinates are asked for, and shown.                                   *)
Asks(c) == c.section = Location /\ c.place = NoPlace /\ c.value # 0

Resolve(c) ==
    /\ Asks(c)
    /\ saves' = (saves \ {c}) \union {[c EXCEPT !.place = c.value]}
    /\ coords' = IF c.orphan THEN coords ELSE c.value
    /\ UNCHANGED <<row, shown, known, step, loading, kept, edits, edited, crossed>>

-----------------------------------------------------------------------------
(* The server: updateProfile, updateSubjects, updateAvailability,          *)
(* updateLocation and chooseRegistrationFee.                               *)

(* An empty list of subjects or lessons is refused, and so are a biography *)
(* or a lesson that do not make sense.                                     *)
AcceptsSection(c) == c.section \in {Basics, Subjects, Availability} /\ c.value # 0

(* Coordinates alone will do for a location.                               *)
AcceptsLocation(c) == c.section = Location /\ c.place # NoPlace

(* A fee that is settled cannot be chosen again.                           *)
AcceptsFee(c) == c.section = Fee /\ ~row.settled

Accepts(c) == AcceptsSection(c) \/ AcceptsLocation(c) \/ AcceptsFee(c)

(* A location without a pincode keeps the pincode that was stored.         *)
StoredLocation(c) ==
    [row EXCEPT !.section[Location] = IF c.value = 0 THEN row.section[Location] ELSE c.value,
                !.place = c.place]

Stored(c) ==
    IF c.section = Location THEN StoredLocation(c)
    ELSE [row EXCEPT !.section[c.section] = c.value]

(* The fee is paid in the checkout or with a commission, or waived.        *)
Settle ==
    /\ row.section[Fee] # 0 /\ ~row.settled
    /\ row' = [row EXCEPT !.settled = TRUE]
    /\ UNCHANGED <<pageVars, saves, kept, edits, edited, crossed>>

-----------------------------------------------------------------------------
(* The answers. *)

(* Mutant: saving the first section keeps the answer of the API client.    *)
KeptAfterAll(c) == kept

(* The client drops the answer when a write has exactly its path, which    *)
(* that of the first section has; the last one loads the profile again.    *)
KeptAfter(c) ==
    CASE c.section = Basics            -> {}
      [] c.section = Fee /\ ~c.orphan  -> {IF kept # {} THEN Answer ELSE Stored(c)}
      [] OTHER                         -> kept

StepAfter(c) ==
    IF c.section # Fee THEN c.section + 1
    ELSE IF c.value = PayNow THEN Checkout ELSE Dashboard

(* A save is carried out and its answer arrives: the wizard moves on to    *)
(* the step after the one that was saved, wherever it is by now.           *)
Saved(c) ==
    /\ ~Asks(c) /\ Accepts(c)
    /\ row' = Stored(c)
    /\ kept' = KeptAfter(c)
    /\ IF c.orphan
       THEN /\ saves' = saves \ {c}
            /\ UNCHANGED <<pageVars, crossed>>
       ELSE /\ known' = row.settled
            /\ step' = StepAfter(c)
            /\ loading' = FALSE
            /\ saves' = IF c.section = Fee THEN Orphaned(saves \ {c}) ELSE saves \ {c}
            /\ crossed' = (crossed \/ (c.section = Fee /\ saves # {c}))
            /\ UNCHANGED <<shown, coords>>
    /\ UNCHANGED <<edits, edited>>

(* Mutant: the wizard moves on when a save has ended, however it did.      *)
FailMovingOn(c) ==
    /\ saves' = saves \ {c}
    /\ step' = IF c.orphan \/ c.section = Fee THEN step ELSE StepAfter(c)
    /\ loading' = IF c.orphan THEN loading ELSE FALSE
    /\ UNCHANGED <<row, crossed, shown, coords, known, kept, edits, edited>>

(* A save fails: refused, or lost before or after it was carried out.      *)
Fail(c) ==
    /\ saves' = saves \ {c}
    /\ \/ UNCHANGED <<row, crossed>>
       \/ ~Asks(c) /\ Accepts(c) /\ row' = Stored(c) /\ crossed' = TRUE
    /\ loading' = IF c.orphan THEN loading ELSE FALSE
    /\ UNCHANGED <<shown, coords, known, step, kept, edits, edited>>

(* The lifetime of the kept answer ends.                                   *)
Expire ==
    /\ kept # {}
    /\ kept' = {}
    /\ UNCHANGED <<row, pageVars, saves, edits, edited, crossed>>

Next ==
    \/ Open \/ CaptureMyLocation \/ Previous \/ UploadPhoto \/ Leave
    \/ SaveBasics \/ SaveSubjects \/ SaveAvailability \/ SaveLocation \/ SaveFee
    \/ Settle \/ Expire
    \/ \E v \in Values : EditBasics(v) \/ EditSubjects(v) \/ EditAvailability(v)
                        \/ EditPincode(v) \/ EditFee(v)
    \/ \E c \in saves : Resolve(c) \/ Saved(c) \/ Fail(c)

Spec == Init /\ [][Next]_vars

-----------------------------------------------------------------------------
(* The row, the page and the saves are well-formed.                        *)
TypeOK ==
    /\ row \in [section : [Sections -> Values], place : Places, settled : BOOLEAN]
    /\ shown \in [Sections -> Values] /\ coords \in Places /\ known \in BOOLEAN
    /\ step \in Sections \union {Checkout, Dashboard} /\ loading \in BOOLEAN
    /\ saves \subseteq SaveSet /\ Cardinality(kept) <= 1
    /\ edited \subseteq Sections /\ edits \in 0 .. MaxEdits /\ crossed \in BOOLEAN

(* A section that the wizard has passed is stored as the wizard shows it,  *)
(* unless something crossed a save.  A pincode that was emptied is not     *)
(* taken from the row.                                                     *)
PassedIsSaved ==
    ~crossed /\ step # Dashboard =>
        \A s \in Sections : s < step =>
            \/ row.section[s] = shown[s]
            \/ s = Location /\ shown[s] = 0

(* Passing through the wizard does not change what was not edited, but for *)
(* suggesting a first lesson and the fee, unless something crossed a save: *)
(* what the wizard shows when it is opened is what is stored, although it  *)
(* may come from the client's cache.                                       *)
UntouchedIsKept ==
    [][\A s \in Sections :
          row'.section[s] # row.section[s] /\ ~crossed /\ ~crossed' =>
             s \in edited \/ (row.section[s] = 0 /\ row'.section[s] = Default(s))]_vars

(* The place that is stored is the device's or that of the pincode beside  *)
(* it, unless something crossed a save.                                    *)
PlaceIsOfPincode == ~crossed => row.place \in {NoPlace, Device, row.section[Location]}
=============================================================================
