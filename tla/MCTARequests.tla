---------------------------- MODULE MCTARequests ----------------------------
(***************************************************************************)
(* Small instances of TARequests: courses, sections and timetables for TLC. *)
(***************************************************************************)
EXTENDS TARequests, TLC

CONSTANTS cA, cB, cC, sA, sB, sC, sAlso, p1, p2, sw

(* One section a course, and a second one of the first course. *)
CourseOfEach == [s \in Sections |-> CASE s \in {sA, sAlso} -> cA [] s = sB -> cB [] OTHER -> cC]

(* The first two courses have labs that meet together. *)
LabsTogether == {<<sA, sB>>, <<sB, sA>>}

All(x) == [s \in Sections |-> x]
SomeClash == {All("none"), All("some")}
AnyClash  == {All("none"), All("all")}
AllClash  == {All("all")}

Sound    == {<<TRUE, TRUE>>}
OnTime   == {<<TRUE, FALSE>>}
AnyDuty  == BOOLEAN \X BOOLEAN

NoLegacy  == {Blank}

(* A request of the old kind: two TAs on it, waiting or rejected together. *)
OldRequest == [Blank EXCEPT !.course = cA, !.asg = [k \in Pairs |-> IF k[2] = sA THEN "active" ELSE "none"]]
OldRequests == {[OldRequest EXCEPT !.status = "submitted"],
                [OldRequest EXCEPT !.status = "rejected", !.why = "rules"]}

OldAndNew == OldRequests \cup NoLegacy

(* No action tells one API call from another; the sweep is not one of them. *)
Calls == Permutations({p1, p2})
=============================================================================
