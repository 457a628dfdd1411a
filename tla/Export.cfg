\* The export, finance, the send-back, the unlock and the settlement mode: one month, two rows.
SPECIFICATION Spec
CONSTANTS
    r1 = r1  r2 = r2  r3 = r3
    a1 = a1  a2 = a2  c1 = c1
    c2 = c2  p1 = p1  p2 = p2
    Rows = {r1, r2}
    Asgs = {a1}
    Cells = {c1}
    Periods = {p1}
    Vals = {v1}
    Modes = {m1, m2}
    Reqs = {i1, i2}
    Ops = {"submit", "approve", "staff_upsert", "review", "export",
           "finance", "sent_back", "unexport", "settlement"}
    AsgOf <- AsgOfOne
    MonthsOf <- MonthsOne
    PeriodOf <- PeriodOne
SYMMETRY Interchangeable
PROPERTIES
    SentBackIsEditable
    ImplementsMonthLifecycle
