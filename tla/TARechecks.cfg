\* One TA of one course whose timetable keeps changing, with hours logged, sections added, calls that die.
SPECIFICATION Spec
CONSTANTS
    cA = cA  cB = cB  cC = cC
    sA = sA  sB = sB  sC = sC  sAlso = sAlso
    p1 = p1  p2 = p2  sw = sw
    Nobody = Nobody  Unfiled = Unfiled
    Sweeper = sw
    TAs = {1}
    Courses = {cA}
    Sections = {sA, sAlso}
    Reqs = {1}
    Caps = {1}
    Procs = {p1, p2}
    Duties <- OnTime
    CourseOf <- CourseOfEach
    Overlaps <- LabsTogether
    Timetables <- AllClash
    Legacy <- NoLegacy
    Ops = {"create", "timetable", "cancel", "add", "duties", "log", "issue", "crash"}
SYMMETRY Calls
INVARIANTS
    CutsRemembered
