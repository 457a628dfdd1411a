\* A violation: a class moved away after its hours were sent is paid on the day it was not held.
SPECIFICATION TimesheetSpec
SYMMETRY Alike
CONSTANTS
    i1 = i1  i2 = i2
    Info <- People
    Calendar <- Term
    Timetable <- Classroom
    Duties <- Grading
    Classes <- Own
    DayBaht = 9
    Moves <- Away
    Closures <- Feast
    MaxRows = 3
    Calls = {i1}
    Workloads <- Single
INVARIANTS
    CancelledNotPaid
CHECK_DEADLOCK FALSE
