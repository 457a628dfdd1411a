----------------------------- MODULE Settlement -----------------------------
(***************************************************************************)
(* How a course's money is shared: a short pool over the teaching          *)
(* assistants and their months (budget_settlement.go), a graduate's lump   *)
(* over the months of a term (grad_special_schedule.go), and both when     *)
(* some months were already paid.  Amounts are whole satang.  A month has  *)
(* one slot: the split of a month over its slots is left out.              *)
(***************************************************************************)
EXTENDS Naturals, FiniteSets, Functions

CONSTANTS
    TAs,      \* the teaching assistants of the course
    Months,   \* the months of the term, 1..n
    Baht      \* satang in a baht

ASSUME SettlementAssumption ==
    /\ IsFiniteSet(TAs) /\ IsFiniteSet(Months) /\ Months \subseteq Nat \ {0}
    /\ Baht \in Nat \ {0}

Cells == TAs \X Months
Modes == {"cut", "spread"}

Less(a, b)    == IF a < b THEN a ELSE b
Minus(a, b)   == IF a < b THEN 0 ELSE a - b
Total(f, S)   == SumFunctionOnSet(f, S)
Before(f, m)  == Total(f, {n \in DOMAIN f : n < m})
WholeBaht(x)  == Baht * (x \div Baht)
Row(f, t)     == [m \in Months |-> f[<<t, m>>]]
Least(S)      == CHOOSE m \in S : \A n \in S : m <= n

(* Pay the months in order until the money is gone. *)
FillInOrder(share, cost) ==
    [m \in DOMAIN cost |-> Less(cost[m], Minus(share, Before(cost, m)))]

(* The same proportion of each month, in whole baht; what the rounding leaves *)
(* goes to the earliest months that have room.                                *)
SpreadOver(share, cost) ==
    LET all   == Total(cost, DOMAIN cost)
        floor == [m \in DOMAIN cost |-> IF all = 0 THEN 0 ELSE WholeBaht((share * cost[m]) \div all)]
        room  == [m \in DOMAIN cost |-> cost[m] - floor[m]]
        more  == FillInOrder(Minus(share, Total(floor, DOMAIN cost)), room)
    IN  [m \in DOMAIN cost |-> floor[m] + more[m]]

ShareUp(pool, owed, all) == Baht * (((pool * owed) + (all * Baht) - 1) \div (all * Baht))
Share(pool, owed, all)   == WholeBaht((pool * owed) \div all)

(* A pool of 0 is one nobody has configured: everything is paid.            *)
Settle(mode, cap, committed, cost) ==
    LET all  == Total(cost, Cells)
        pool == Minus(cap, committed)
        own(t) == Row(cost, t)
        placed(t) == LET share == Share(pool, Total(own(t), Months), all)
                     IN  IF mode = "spread" THEN SpreadOver(share, own(t))
                         ELSE FillInOrder(share, own(t))
    IN  IF cap = 0 \/ all <= pool THEN cost
        ELSE [c \in Cells |-> placed(c[1])[c[2]]]

LeftUnfloored(cap, paid) == Minus(cap, paid)
Left(cap, paid) == IF cap = 0 THEN 0 ELSE IF cap > paid THEN cap - paid ELSE 1

(* Cells already paid keep what they were paid; the rest share what is left. *)
SettleFrozen(mode, cap, committed, cost, paid) ==
    LET locked == {c \in DOMAIN paid : cost[c] > 0}
        live   == [c \in Cells |-> IF c \in locked THEN 0 ELSE cost[c]]
        out    == Settle(mode, Left(cap, Total(paid, locked)), committed, live)
    IN  [c \in Cells |-> IF c \in locked THEN Less(cost[c], paid[c]) ELSE out[c]]

(* A lump of whole baht over months by weight, the remainder to the earliest. *)
PlaceLump(lump, weight) ==
    LET open  == {m \in DOMAIN weight : weight[m] > 0}
        all   == Total(weight, open)
        floor == [m \in open |-> (lump * weight[m]) \div all]
        rest  == Minus(lump, Total(floor, open))
    IN  [m \in Months |-> IF m \notin open THEN 0
                          ELSE floor[m] + (IF m = Least(open) THEN rest ELSE 0)]

(* What is left of the lump goes to the months not yet frozen. *)
SplitLump(lump, weight, frozen) ==
    LET open == Months \ DOMAIN frozen
        with(w) == PlaceLump(Minus(lump, Total(frozen, DOMAIN frozen)),
                             [m \in open |-> w[m]])
        even == [m \in Months |-> 1]
        placed == IF Total(weight, open) > 0 THEN with(weight) ELSE with(even)
    IN  [m \in Months |-> IF m \in DOMAIN frozen THEN frozen[m] ELSE placed[m]]
=============================================================================
