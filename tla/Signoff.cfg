\* Every writer of work_logs against the sign-off: one TA, one month, two rows.
\* Symmetry is sound: no action tells one request, or one row of an assignment, from another.
SPECIFICATION Spec
CONSTANTS
    r1 = r1  r2 = r2  r3 = r3
    a1 = a1  a2 = a2  c1 = c1
    c2 = c2  p1 = p1  p2 = p2
    Rows = {r1, r2}
    Asgs = {a1}
    Cells = {c1}
    Periods = {p1}
    Vals = {v1, v2}
    Modes = {m1}
    Reqs = {i1, i2}
    Ops = {"upsert", "generate", "clear_drafts", "delete", "staff_delete",
           "submit", "approve", "approve_many", "reject", "staff_upsert",
           "adjust", "cut", "review", "sent_back", "period"}
    AsgOf <- AsgOfOne
    MonthsOf <- MonthsOne
    PeriodOf <- PeriodOne
SYMMETRY Interchangeable
INVARIANTS
    SignedMonthsComplete
PROPERTIES
    ApprovedRowsStand
    ApprovalIsOfSubmittedWork
