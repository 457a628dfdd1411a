\* One row that can be re-dated between two months, each of a period of its own.
SPECIFICATION Spec
CONSTANTS
    r1 = r1  r2 = r2  r3 = r3
    a1 = a1  a2 = a2  c1 = c1
    c2 = c2  p1 = p1  p2 = p2
    Rows = {r1}
    Asgs = {a1}
    Cells = {c1, c2}
    Periods = {p1, p2}
    Vals = {v1}
    Modes = {m1}
    Reqs = {i1, i2}
    Ops = {"upsert", "submit", "approve", "staff_upsert", "review",
           "export", "sent_back", "unexport"}
    AsgOf <- AsgOfOne
    MonthsOf <- MonthsBoth
    PeriodOf <- PeriodBoth
SYMMETRY Interchangeable
PROPERTIES
    ImplementsMonthLifecycle
