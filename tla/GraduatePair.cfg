\* A violation: a graduate's co-taught rows are generated past the cap of the regular section.
SPECIFICATION TimesheetSpec
SYMMETRY Alike
CONSTANTS
    i1 = i1  i2 = i2
    Info <- Graduates
    Calendar <- Term
    Timetable <- Classroom
    Duties <- Grading
    Classes <- Own
    DayBaht = 9
    Moves <- Away
    Closures <- Feast
    MaxRows = 3
    Calls = {i1}
    Workloads <- Single
PROPERTIES
    GeneratedPasses
CHECK_DEADLOCK FALSE
