\* One TA, a co-taught lab and another course, three days, two months; one request at a
\* time, and two that overtake each other.
SPECIFICATION TimesheetSpec
SYMMETRY Alike
CONSTANTS
    i1 = i1  i2 = i2
    Info <- People
    Calendar <- Term
    Timetable <- Classroom
    Duties <- Grading
    Classes <- Own
    DayBaht = 9
    Moves <- Away
    Closures <- Feast
    MaxRows = 3
    Calls = {i1, i2}
    Workloads <- Bustle
INVARIANTS
    TimesheetsTypeOK
PROPERTIES
    WeekQuotaKept
    DayPayKept
    HoursPaidOnce
    GeneratedPasses
    RegenerationStable
CHECK_DEADLOCK FALSE
