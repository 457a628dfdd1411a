--------------------------- MODULE MonthLifecycle ---------------------------
(***************************************************************************)
(* What the payout workflow promises about one course's months, with no    *)
(* requests, locks or triggers: staff sign a month's claim, and from then  *)
(* on the claim stands as signed, through export and finance, until the    *)
(* month is openly taken back to pending.  A month at finance leaves it    *)
(* only by the administrator's undo.                                       *)
(***************************************************************************)
CONSTANTS
    Cells,   \* the (period, TA) cells of a course
    Papers   \* the work-log rows a claim may consist of

VARIABLES
    state,   \* the status of each (period, TA) cell
    claim    \* the claim staff signed, {} while the month is pending

vars == <<state, claim>>

Init ==
    /\ state = [c \in Cells |-> "pending"]
    /\ claim = [c \in Cells |-> {}]

(* Staff sign what the lecturers approved. *)
Sign(c) ==
    /\ state[c] = "pending"
    /\ state' = [state EXCEPT ![c] = "staff_reviewed"]
    /\ claim'[c] \in (SUBSET Papers) \ {{}}
    /\ claim' = [claim EXCEPT ![c] = claim'[c]]

Move(C, from, to) ==
    /\ C # {}
    /\ \A c \in C : state[c] = from
    /\ state' = [c \in Cells |-> IF c \in C THEN to ELSE state[c]]
    /\ UNCHANGED claim

Export(C)        == Move(C, "staff_reviewed", "exported")
Reissue(C)       == Move(C, "exported", "staff_reviewed")
SendToFinance(C) == Move(C, "exported", "finance_sent")
Revert(C)        == Move(C, "finance_sent", "exported")

(* A change to the rows, a send-back or an unlock: the signature is void. *)
TakeBack(C) ==
    /\ \A c \in C : state[c] \in {"staff_reviewed", "exported"}
    /\ state' = [c \in Cells |-> IF c \in C THEN "pending" ELSE state[c]]
    /\ claim' = [c \in Cells |-> IF c \in C THEN {} ELSE claim[c]]

Next ==
    \/ \E c \in Cells : Sign(c)
    \/ \E C \in SUBSET Cells :
          Export(C) \/ Reissue(C) \/ SendToFinance(C) \/ Revert(C) \/ TakeBack(C)

Spec == Init /\ [][Next]_vars
=============================================================================
