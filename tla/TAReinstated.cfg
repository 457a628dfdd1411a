\* A timetable that gives a lost section back after the TA was approved again on the same course.
SPECIFICATION Spec
CONSTANTS
    cA = cA  cB = cB  cC = cC
    sA = sA  sB = sB  sC = sC  sAlso = sAlso
    p1 = p1  p2 = p2  sw = sw
    Nobody = Nobody  Unfiled = Unfiled
    Sweeper = sw
    TAs = {1}
    Courses = {cA}
    Sections = {sA}
    Reqs = {1, 2}
    Caps = {1}
    Procs = {p1}
    Duties <- OnTime
    CourseOf <- CourseOfEach
    Overlaps <- LabsTogether
    Timetables <- AnyClash
    Legacy <- NoLegacy
    Ops = {"create", "finalize", "timetable"}
INVARIANTS
    OneApprovedPerCourse
