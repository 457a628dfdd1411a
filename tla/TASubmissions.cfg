\* Submissions of two TAs, and an old request that named both: answers, digests, splits.
SPECIFICATION FairSpec
CONSTANTS
    cA = cA  cB = cB  cC = cC
    sA = sA  sB = sB  sC = sC  sAlso = sAlso
    p1 = p1  p2 = p2  sw = sw
    Nobody = Nobody  Unfiled = Unfiled
    Sweeper = sw
    TAs = {1, 2}
    Courses = {cA}
    Sections = {sA}
    Reqs = {1, 2}
    Caps = {1}
    Procs = {p1, sw}
    Duties <- OnTime
    CourseOf <- CourseOfEach
    Overlaps <- LabsTogether
    Timetables <- AllClash
    Legacy <- OldAndNew
    Ops = {"create", "finalize", "timetable", "split", "day"}
INVARIANTS
    ToldOnce
PROPERTIES
    RequestsAnswered
