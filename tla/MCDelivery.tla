----------------------------- MODULE MCDelivery -----------------------------
(***************************************************************************)
(* Small instances of Delivery, with two demos, a lesson and two scans.    *)
(* Bounds: each behaviour is of one kind, chosen at the start.  In a noisy *)
(* one calls fail, processes die, jobs stall and scans overlap, about one  *)
(* demo at one tick of the clock, with three notifications; where scans    *)
(* overlap one thing less fails.  In a calm one everything takes place     *)
(* that may, over several ticks, but nothing fails and one scan runs.      *)
(***************************************************************************)
EXTENDS Delivery, TLC

CONSTANTS d1, d2, l1, p1, p2

TwoDemos  == {d1, d2}
OneLesson == {l1}
TwoScans  == {p1, p2}
Simultaneous == [e \in Events |-> 3]

VARIABLE noisy   \* the kind of this behaviour

OfItsKind ==
    IF noisy
    THEN /\ now <= 1 /\ Len(notification) <= 3
         /\ now = 1 => upcoming = {d1}
         /\ overlapped => faults < MaxFaults
    ELSE faults = 0 /\ scan[p2] = Idle

MCInit == Init /\ noisy \in BOOLEAN

MCNext == Next /\ UNCHANGED noisy /\ OfItsKind'

(* The fairness of Delivery, of the steps that are of the kind.            *)
MCSpec ==
    /\ MCInit /\ [][MCNext]_<<vars, noisy>>
    /\ \A p \in Scans : WF_<<vars, noisy>>(ScanStep(p) /\ UNCHANGED noisy /\ OfItsKind')
    /\ WF_<<vars, noisy>>(Work /\ UNCHANGED noisy /\ OfItsKind')
=============================================================================
