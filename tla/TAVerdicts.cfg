\* Verdicts for one TA on two courses, two calls at once.
SPECIFICATION Spec
CONSTANTS
    cA = cA  cB = cB  cC = cC
    sA = sA  sB = sB  sC = sC  sAlso = sAlso
    p1 = p1  p2 = p2  sw = sw
    Nobody = Nobody  Unfiled = Unfiled
    Sweeper = sw
    TAs = {1}
    Courses = {cA, cB}
    Sections = {sA, sB}
    Reqs = {1, 2}
    Caps = {1, 2}
    Procs = {p1, p2, sw}
    Duties <- Sound
    CourseOf <- CourseOfEach
    Overlaps <- LabsTogether
    Timetables <- SomeClash
    Legacy <- NoLegacy
    Ops = {"create", "finalize", "timetable", "cancel"}
SYMMETRY Calls
INVARIANTS
    TypeOK
    CapHolds
    OneApprovedPerCourse
    NoDoubleBooking
PROPERTIES
    VerdictsStand
