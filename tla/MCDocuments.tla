---------------------------- MODULE MCDocuments ----------------------------
(***************************************************************************)
(* Small instances of Documents for TLC: two required kinds, a few rows.   *)
(***************************************************************************)
EXTENDS Documents, TLC

CONSTANTS c1, c2

Owed == {"form", "bank"}

Seen(k, d, v) == [kind |-> k, status |-> v, current |-> TRUE, file |-> d, gone |-> FALSE,
                  clock |-> IF v = "approved" THEN "running" ELSE "off"]
Sent(v) == [docs |-> (1 :> Seen("form", 1, v)) @@ (2 :> Seen("bank", 2, v)),
            profile |-> IF v = "approved" THEN "approved" ELSE "submitted"]

FormOnly == [docs |-> 1 :> Seen("form", 1, "submitted"), profile |-> "submitted"]

(* One approved on its own, the other still to be looked at.                 *)
HalfWay == [Sent("submitted") EXCEPT !.docs[1] = Seen("form", 1, "approved")]

Beginnings == {FormOnly, HalfWay, Sent("submitted"), Sent("approved")}

Review == {{"upload", "review"}, {"upload", "all"}, {"upload", "batch"},
           {"submit", "review", "all", "batch", "profile"}}
Files  == {{"upload", "regenerate", "retention"}, {"upload", "retention", "crash"},
           {"review", "all", "retention", "crash"},
           {"erase", "crash"}, {"upload", "erase"}, {"upload", "download"}}
Again  == {{"all", "retention"}}
Both   == Review \cup Files
=============================================================================
