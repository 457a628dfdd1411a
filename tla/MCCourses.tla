----------------------------- MODULE MCCourses -----------------------------
(***************************************************************************)
(* Small instances of Courses for TLC: a course of two or three sections,  *)
(* sometimes a second one under another code.                              *)
(***************************************************************************)
EXTENDS Courses, TLC

CONSTANTS c1, c2, one, two, three

Sec(no, t, n, w) == [no |-> no, code |-> None, track |-> t, n |-> n, times |-> w,
                     spent |-> FALSE]
Of(code, secs) ==
    LET r == [code |-> code, alts |-> {}, cols |-> [t \in Tracks |-> 0], hrs |-> 1,
              exported |-> FALSE, secs |-> secs]
    IN  Recomputed(r)

Split == Of("SC", (one :> Sec(1, "regular", 2, "staff")) @@ (two :> Sec(2, "regular", 1, "none")))
Mixed == Of("SC", (one :> Sec(1, "regular", 1, "staff")) @@ (two :> Sec(2, "special", 0, "none")))

Newest == [c \in {"CP", "SC"} |-> IF c = "CP" THEN 0 ELSE 1]

Beginnings == {"k1" :> Split, "k1" :> Mixed}

Figures  == {{"numbers", "resize", "cap"}, {"numbers", "add", "drop"},
             {"numbers", "merge", "fold"}, {"create", "merge"}, {"create", "info"}}
Standing == {{"request", "log", "merge", "fold", "export", "finance", "unlock"},
             {"request", "log", "drop", "delete", "add", "export"},
             {"request", "log", "times", "resize", "export", "unlock"}}
Together == Figures \cup Standing

Alike == Permutations(Calls)
=============================================================================
