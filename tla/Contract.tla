------------------------------ MODULE Contract ------------------------------
(***************************************************************************)
(* What the platform promises about one tuition agreement, whatever the    *)
(* requests, races and failures that produce it: an agreement is offered   *)
(* once, signed by the student, then by the tutor, then sealed (its PDF is *)
(* stored), and only a sealed agreement is billed, once per student-tutor  *)
(* pair.  No step is ever undone.                                          *)
(***************************************************************************)
CONSTANTS Agreements,      \* what can be offered: one per match
          SameParties(_, _) \* two agreements between the same two people

VARIABLES stage,   \* how far each agreement has come
          billed   \* the agreements whose commission has been charged

vars == <<stage, billed>>

Stages == {"none", "offered", "studentSigned", "signed", "sealed"}

TypeOK == /\ stage \in [Agreements -> Stages]
          /\ billed \subseteq Agreements

Init == /\ stage = [a \in Agreements |-> "none"]
        /\ billed = {}

Advance(a, from, to) == /\ stage[a] = from
                        /\ stage' = [stage EXCEPT ![a] = to]
                        /\ UNCHANGED billed

Offer(a)       == Advance(a, "none", "offered")
StudentSign(a) == Advance(a, "offered", "studentSigned")
TutorSign(a)   == Advance(a, "studentSigned", "signed")
Seal(a)        == Advance(a, "signed", "sealed")

Bill(a) == /\ stage[a] = "sealed"
           /\ \A b \in billed : ~SameParties(a, b)
           /\ billed' = billed \union {a}
           /\ UNCHANGED stage

Next == \E a \in Agreements : \/ Offer(a) \/ StudentSign(a)
                              \/ TutorSign(a) \/ Seal(a) \/ Bill(a)

Spec == Init /\ [][Next]_vars
=============================================================================
