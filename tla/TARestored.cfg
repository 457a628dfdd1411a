\* A timetable that gives a lost section back after the TA was approved elsewhere under the cap.
SPECIFICATION Spec
CONSTANTS
    cA = cA  cB = cB  cC = cC
    sA = sA  sB = sB  sC = sC  sAlso = sAlso
    p1 = p1  p2 = p2  sw = sw
    Nobody = Nobody  Unfiled = Unfiled
    Sweeper = sw
    TAs = {1}
    Courses = {cA, cB}
    Sections = {sA, sB}
    Reqs = {1, 2}
    Caps = {1, 2}
    Procs = {p1, p2, sw}
    Duties <- OnTime
    CourseOf <- CourseOfEach
    Overlaps <- LabsTogether
    Timetables <- AnyClash
    Legacy <- NoLegacy
    Ops = {"create", "finalize", "timetable", "cancel"}
SYMMETRY Calls
INVARIANTS
    CapHolds
