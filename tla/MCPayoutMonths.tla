--------------------------- MODULE MCPayoutMonths ---------------------------
(***************************************************************************)
(* Small instances of PayoutMonths: rows, months and TAs for TLC.          *)
(***************************************************************************)
EXTENDS PayoutMonths, TLC

CONSTANTS r1, r2, r3, a1, a2, c1, c2, p1, p2

(* One TA with one assignment and one month. *)
AsgOfOne    == [r \in Rows |-> a1]
MonthsOne   == [a \in Asgs |-> {c1}]
PeriodOne   == [c \in Cells |-> p1]

(* Two TAs with an assignment and a row each, one month. *)
AsgOfTwo    == [r \in Rows |-> IF r = r1 THEN a1 ELSE a2]
MonthsOwn   == [a \in Asgs |-> IF a = a1 THEN {c1} ELSE {c2}]

(* One TA with one assignment over two months. *)
MonthsBoth  == [a \in Asgs |-> Cells]
PeriodBoth  == [c \in Cells |-> IF c = c1 THEN p1 ELSE p2]

(* Every action treats the requests, and the rows of one assignment, alike. *)
Interchangeable     == Permutations(Reqs) \cup Permutations(Rows)
InterchangeableReqs == Permutations(Reqs)
=============================================================================
