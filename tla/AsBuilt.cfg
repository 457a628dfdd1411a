\* A violation: the rows change and change back around an export's build.
SPECIFICATION Spec
CONSTANTS
    r1 = r1  r2 = r2  r3 = r3
    a1 = a1  a2 = a2  c1 = c1
    c2 = c2  p1 = p1  p2 = p2
    Rows = {r1}
    Asgs = {a1}
    Cells = {c1}
    Periods = {p1}
    Vals = {v1, v2}
    Modes = {m1}
    Reqs = {i1, i2}
    Ops = {"upsert", "submit", "approve", "review", "export",
           "staff_upsert"}
    AsgOf <- AsgOfOne
    MonthsOf <- MonthsOne
    PeriodOf <- PeriodOne
SYMMETRY Interchangeable
PROPERTIES
    LockedAsBuilt
