\* A course's sections, codes and head counts under requests, hours and exports.
SPECIFICATION CoursesSpec
SYMMETRY Alike
CONSTANTS
    c1 = c1  c2 = c2
    one = one  two = two  three = three
    None = None
    Ids = {"k1", "k2"}
    SecIds = {one, two, three}
    Nos = {1, 2}
    Codes = {"CP", "SC"}
    Rank <- Newest
    Numbers = {0, 3}
    MaxStudents = 4
    Caps = {2, 9}
    NoCap = 9
    Sittings = {"mon"}
    Calls = {c1, c2}
    Starts <- Beginnings
    Workloads <- Together
INVARIANTS
    CoursesTypeOK
    HeadcountsAdd
    LecturerFillsBlank
    WantedKept
PROPERTIES
    RosterFrozen
    SittingsKept
CHECK_DEADLOCK FALSE
