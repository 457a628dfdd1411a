---------------------------- MODULE MCTimesheets ----------------------------
(***************************************************************************)
(* A small instance of Timesheets: a lab taught at once to a regular and a *)
(* special section of one request, and another course of the same TA.      *)
(***************************************************************************)
EXTENDS Timesheets, TLC

CONSTANTS i1, i2

Alike == Permutations(Calls)

LabCap     == [lecture |-> 0, lab |-> 4, review |-> 0]
CourseCap  == [lecture |-> 3, lab |-> 0, review |-> 2]
Section(reg, rt) == [course |-> 1, group |-> 1, regular |-> reg, rate |-> rt, kinds |-> {"lab"}, shared |-> FALSE,
                     attendance |-> 0, dayHours |-> 4, cap |-> LabCap, term |-> 8]
People == [A |-> Section(TRUE, 2), B |-> Section(FALSE, 3),
           C |-> [course |-> 2, group |-> 0, regular |-> TRUE, rate |-> 3, kinds |-> {"lecture", "review"},
                  shared |-> FALSE, attendance |-> 2, dayHours |-> 4, cap |-> CourseCap, term |-> 9]]

(* A graduate is paid nothing by the hour in a special section.              *)
Graduates == [People EXCEPT !.A.rate = 4, !.B.rate = 0]

(* A Monday, the Tuesday of that week in the next month, the next Monday.    *)
Term == <<[weekday |-> 1, week |-> 1, month |-> 1, exam |-> FALSE],
          [weekday |-> 2, week |-> 1, month |-> 2, exam |-> FALSE],
          [weekday |-> 1, week |-> 2, month |-> 2, exam |-> FALSE]>>

Classroom == <<[asg |-> "A", kind |-> "lab", weekday |-> 1, from |-> 0, to |-> 3],
               [asg |-> "B", kind |-> "lab", weekday |-> 1, from |-> 0, to |-> 3],
               [asg |-> "C", kind |-> "lecture", weekday |-> 1, from |-> 3, to |-> 6],
               [asg |-> "C", kind |-> "lecture", weekday |-> 2, from |-> 0, to |-> 2]>>
Grading   == <<[asg |-> "C", weekday |-> 1, from |-> 2, to |-> 3]>>
Own       == {[weekday |-> 2, from |-> 3, to |-> 4]}

LabFull  == [asg |-> "A", day |-> 1, from |-> 0, to |-> 3, act |-> "lab"]
LabLate  == [asg |-> "A", day |-> 1, from |-> 1, to |-> 3, act |-> "lab"]
LabAway  == [asg |-> "A", day |-> 2, from |-> 0, to |-> 1, act |-> "lab"]
Marking  == [asg |-> "C", day |-> 1, from |-> 2, to |-> 3, act |-> "review"]
Lecture  == [asg |-> "C", day |-> 1, from |-> 3, to |-> 6, act |-> "lecture"]
Tutorial == [asg |-> "C", day |-> 2, from |-> 0, to |-> 1, act |-> "lecture"]

Away  == {[asg |-> "A", day |-> 1, kind |-> "lab", to |-> 2, from |-> 0, until |-> 2],
          [asg |-> "A", day |-> 3, kind |-> "lab", to |-> 2, from |-> 0, until |-> 2],
          [asg |-> "A", day |-> 3, kind |-> "lab", to |-> 0, from |-> 0, until |-> 0]}
Feast == {[day |-> 1, from |-> 0, to |-> 2]}

On(as, os, es) == [ops |-> os, asgs |-> as, lines |-> es, rows |-> {}, atOnce |-> 1]
Typing     == On({"A", "C"}, {"type", "send", "back", "staff"}, {LabFull, LabLate, Lecture, Marking})
Bouncing   == On({"C"}, {"generate", "type", "send", "back"}, {Lecture})
Together   == On({"A", "B"}, {"generate", "send", "back", "review"}, {LabLate})
Moving     == On({"A", "C"}, {"generate", "send", "move"}, {})
Cancelling == On({"A"}, {"generate", "type", "send", "back", "move"}, {LabAway})
Closing    == On({"A", "C"}, {"generate", "send", "close", "holiday"}, {})

(* What the TA had typed, sent and perhaps got approved before.              *)
Hour(a, d, f, act, st) == [id |-> <<a, d, f, 1>>, asg |-> a, day |-> d, from |-> f, to |-> f + 1,
                           act |-> act, status |-> st, auto |-> FALSE]
Held4(st)  == {Hour("A", 1, 0, "lab", st), Hour("C", 1, 3, "lecture", st),
               Hour("C", 2, 0, "lecture", st), Hour("C", 3, 2, "review", st)}
LecHalf    == [Lecture EXCEPT !.to = 5]
Tutored    == [Tutorial EXCEPT !.to = 2]
From(w, S) == [w EXCEPT !.rows = S]
AtOnce(W)  == {[w EXCEPT !.atOnce = 2] : w \in W}

Correcting == From(On({"A", "C"}, {"staff", "send"}, {LabFull, LecHalf, Tutored, Marking}),
                   Held4("approved"))
Signing    == From(On({"A", "C"}, {"staff", "send", "review"}, {LabFull, LecHalf}),
                   {r \in Held4("submitted") : r.day # 3})
Refiling   == On({"A"}, {"generate", "send", "move"}, {})
Retyping   == On({"A"}, {"generate", "type", "send"}, {LabLate})
Returning  == On({"A"}, {"generate", "send", "back"}, {})

Single == {Typing, Bouncing, Together, Moving, Cancelling, Closing}
JustCorrecting == AtOnce({Correcting})
Racing == AtOnce({Correcting, Signing, Refiling, Retyping, Returning})
Bustle == Single \cup Racing
=============================================================================
