\* Two TAs with one row each in one period: the requests that span them.
SPECIFICATION Spec
CONSTANTS
    r1 = r1  r2 = r2  r3 = r3
    a1 = a1  a2 = a2  c1 = c1
    c2 = c2  p1 = p1  p2 = p2
    Rows = {r1, r2}
    Asgs = {a1, a2}
    Cells = {c1, c2}
    Periods = {p1}
    Vals = {v1}
    Modes = {m1}
    Reqs = {i1, i2}
    Ops = {"upsert", "submit", "approve_many", "review", "export",
           "unexport"}
    AsgOf <- AsgOfTwo
    MonthsOf <- MonthsOwn
    PeriodOf <- PeriodOne
SYMMETRY InterchangeableReqs
PROPERTIES
    ImplementsMonthLifecycle
