\* A violation: two approving transactions open at once, in two courses, over the same minute.
SPECIFICATION TimesheetSpec
SYMMETRY Alike
CONSTANTS
    i1 = i1  i2 = i2
    Info <- People
    Calendar <- Term
    Timetable <- Classroom
    Duties <- Grading
    Classes <- Own
    DayBaht = 9
    Moves <- Away
    Closures <- Feast
    MaxRows = 3
    Calls = {i1, i2}
    Workloads <- JustCorrecting
INVARIANTS
    NoCrossCoursePay
CHECK_DEADLOCK FALSE
