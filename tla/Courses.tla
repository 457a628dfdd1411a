------------------------------ MODULE Courses ------------------------------
(***************************************************************************)
(* The courses of one term and their sections: the registrar's codes and   *)
(* head counts, the timetables, merged codes and folded sections, under    *)
(* the requests, the hours and the exports that stand on them.             *)
(*                                                                         *)
(* A writer locks the course row first and keeps it to its commit.  Some   *)
(* check and read outside the transaction, before they have the lock; an   *)
(* export of a month takes no lock of the course at all.                   *)
(***************************************************************************)
EXTENDS Naturals, FiniteSets, FiniteSetsExt

CONSTANTS
    Ids,         \* names of courses, open or to be opened
    SecIds,      \* names of the sections of a course
    Nos,         \* section numbers
    Codes,       \* registrar codes
    Rank,        \* codeRank: the least prints first
    None,        \* no code, no section, no course
    Numbers,     \* the head counts people type
    MaxStudents, \* maxCourseStudents
    Caps,        \* the term's budget ceilings
    NoCap,       \* the term's ceiling while none is set, above every budget
    Sittings,    \* dates and clocks of a class
    Calls,       \* calls that may be in flight at once
    Starts,      \* the courses a behaviour begins with
    Workloads    \* the sets of operations, one of which a behaviour uses (a bound)

OpNames == {"create", "delete", "numbers", "info", "add", "resize", "drop", "times",
            "merge", "fold", "cap", "request", "log", "export", "finance", "unlock"}

Tracks == {"regular", "special"}

(* times: who wrote the section's timetable last, "none" when it has none.   *)
(* spent: schedule_set_by_lecturer_at.  code: the alternate code it came     *)
(* under, None for a section of the course's own.                            *)
Section == [no : Nos, code : Codes \cup {None}, track : Tracks, n : Nat,
            times : {"none", "staff", "lecturer"}, spent : BOOLEAN]

(* cols: num_students_regular and _special.  hrs: credit hours a week. *)
IsCourse(r) == /\ DOMAIN r = {"code", "alts", "cols", "hrs", "exported", "secs"}
               /\ r.code \in Codes /\ r.alts \subseteq Codes
               /\ r.cols \in [Tracks -> Nat] /\ r.hrs \in Nat
               /\ r.exported \in BOOLEAN
               /\ DOMAIN r.secs \subseteq SecIds /\ r.secs \in [DOMAIN r.secs -> Section]

Class(r, t) == {s \in DOMAIN r.secs : r.secs[s].track = t}
Count(r, t) == MapThenSumSet(LAMBDA s : r.secs[s].n, Class(r, t))

ASSUME CoursesAssumption ==
    /\ SecIds # {} /\ IsFiniteSet(SecIds) /\ Rank \in [Codes -> Nat]
    /\ None \notin Codes \cup SecIds \cup Ids
    /\ Numbers \subseteq Nat /\ MaxStudents \in Nat /\ Caps \subseteq Nat
    /\ NoCap \in Caps /\ Workloads \subseteq SUBSET OpNames
    /\ \A c \in Starts : /\ DOMAIN c \subseteq Ids
                         /\ \A k \in DOMAIN c : /\ IsCourse(c[k]) /\ ~c[k].exported
                                                /\ \A t \in Tracks : c[k].cols[t] = Count(c[k], t)

VARIABLES
    courses,   \* teaching_courses of the term with their sections
    wanted,    \* the sections the course's TA is assigned to
    hours,     \* his work logs: per section and sitting, "none" or a status
    approved,  \* courses whose TA request is approved
    month,     \* submission_period_status of the course's month
    due,       \* exports that have locked a month and not set exported_at
    cap,       \* academic_terms.course_budget_cap_baht
    call,      \* what each call is doing
    ops        \* the operations of this behaviour

courseVars == <<courses, wanted, hours, approved, month, due, cap, call, ops>>
underneath == <<wanted, hours, approved, month, due, cap, ops>>

(* image: the course as the call's transaction has it, unless it deletes it.  *)
(* sent: the tracks of a head count the caller gave.                         *)
Idle == [at |-> "idle", op |-> None, k |-> None, code |-> None, sent |-> {},
         cols |-> [t \in Tracks |-> 0], hrs |-> 0, image |-> None, from |-> None,
         into |-> None, lecturer |-> FALSE]

-----------------------------------------------------------------------------
(* Reading the tables.                                                     *)
Open          == DOMAIN courses
CodesOf(r)    == {r.code} \cup r.alts
CodeTaken(c, k) == \E j \in Open \ {k} : c \in CodesOf(courses[j])
Own(r, t)     == {s \in Class(r, t) : r.secs[s].code = None}
NoFree(r, no, c) == \A s \in DOMAIN r.secs : r.secs[s].no # no \/ r.secs[s].code # c
Logged(k, s)  == {x \in Sittings : hours[k][s][x] # "none"}
Least(a, b)   == IF a < b THEN a ELSE b

(* A name no section of the course has: which one makes no difference. *)
NewSection(r) == IF SecIds \subseteq DOMAIN r.secs THEN {}
                 ELSE {CHOOSE s \in SecIds : s \notin DOMAIN r.secs}

NewRow(no, c, t, n, w) == [no |-> no, code |-> c, track |-> t, n |-> n, times |-> w,
                           spent |-> FALSE]
WithSection(r, s, row) == [r EXCEPT !.secs =
    [x \in DOMAIN @ \cup {s} |-> IF x = s THEN row ELSE @[x]]]
WithoutSection(r, s)   == [r EXCEPT !.secs = [x \in DOMAIN @ \ {s} |-> @[x]]]

(* The course's ceiling: what the head counts earn, or the term's cap. *)
Budget(r, limit) == Least(r.hrs * (r.cols["regular"] + r.cols["special"]), limit)

(* guardBudgetChange, with the confirmation given. *)
MayCost(k, r) == Budget(r, cap) = Budget(courses[k], cap) \/ month[k] = "none"

Recomputed(r)  == [r EXCEPT !.cols = [t \in Tracks |-> Count(r, t)]]
WithinCourse(r) == r.cols["regular"] + r.cols["special"] <= MaxStudents

CourseUnlocked(k) == k \in Ids
CourseFree(k)  == \A j \in Calls : call[j].at = "held" => call[j].k # k

(* A fold alters the work-log table, and so keeps it to itself. *)
Folding == \E j \in Calls : call[j].at = "held" /\ call[j].op = "fold"

To(i, c) == call' = [call EXCEPT ![i] = c]
Begin(i, op) == op \in ops /\ call[i] = Idle
Hold(i, c, r) == To(i, [c EXCEPT !.at = "held", !.image = r])

(* A transaction that starts with assertNotExported. *)
Editing(i, op, k) == /\ Begin(i, op) /\ k \in Open /\ CourseFree(k)
                     /\ ~courses[k].exported
Edit(i, op, k, r) == Hold(i, [Idle EXCEPT !.op = op, !.k = k], r)

-----------------------------------------------------------------------------
(* Head counts.                                                            *)

(* A track's total over its sections, in proportion to what they hold,       *)
(* rounded down, the rest to the largest remainders.                         *)
WeightIn(r, t, s) == IF Count(r, t) = 0 THEN 1 ELSE r.secs[s].n
WeightOf(r, t)    == IF Count(r, t) = 0 THEN Cardinality(Class(r, t)) ELSE Count(r, t)
Floor(r, t, total, s) == (total * WeightIn(r, t, s)) \div WeightOf(r, t)
Rest(r, t, total, s)  == (total * WeightIn(r, t, s)) % WeightOf(r, t)
LeftNone(r, t, total) == 0
Left(r, t, total) == total - MapThenSumSet(LAMBDA s : Floor(r, t, total, s), Class(r, t))
Spread(r, t, total) ==
    {[s \in Class(r, t) |-> Floor(r, t, total, s) + IF s \in up THEN 1 ELSE 0] :
        up \in {u \in SUBSET Class(r, t) :
                  /\ Cardinality(u) = Left(r, t, total)
                  /\ \A s \in u, o \in Class(r, t) \ u :
                         Rest(r, t, total, s) >= Rest(r, t, total, o)}}

Sized(r, f, g) == [r EXCEPT !.secs =
    [s \in DOMAIN r.secs |-> [r.secs[s] EXCEPT !.n =
        IF s \in DOMAIN f THEN f[s] ELSE g[s]]]]

(* The registrar's figures section by section, when they match and add up. *)
FromRegistrar(r, cols) ==
    {q \in {Sized(r, f, f) : f \in [DOMAIN r.secs -> Numbers]} :
        \A t \in Tracks : Count(q, t) = cols[t]}

(* syncSectionCounts. *)
Synced(r, cols) ==
    FromRegistrar(r, cols) \cup
    {Sized(r, f, g) : f \in Spread(r, "regular", cols["regular"]),
                      g \in Spread(r, "special", cols["special"])}

NumbersRead(i) == \E k \in Open, sent \in SUBSET Tracks, v \in [Tracks -> Numbers] :
    /\ Begin(i, "numbers") /\ ~courses[k].exported /\ sent # {}
    /\ LET cols == [t \in Tracks |-> IF t \in sent THEN v[t] ELSE courses[k].cols[t]]
       IN  /\ cols["regular"] + cols["special"] <= MaxStudents
           /\ To(i, [Idle EXCEPT !.at = "asked", !.op = "numbers", !.k = k,
                                 !.sent = sent, !.cols = cols])
    /\ UNCHANGED <<courses, underneath>>

NumbersWrite(i) == LET c == call[i] IN
    /\ c.at = "asked" /\ c.op = "numbers" /\ c.k \in Open /\ CourseFree(c.k)
    /\ \E r \in Synced(courses[c.k], c.cols) :
          LET q == [r EXCEPT !.cols = c.cols] IN MayCost(c.k, q) /\ Hold(i, c, q)
    /\ UNCHANGED <<courses, underneath>>

SectionAdd(i) == \E k \in Open, no \in Nos, t \in Tracks, n \in Numbers,
                    w \in {"none", "staff"} :
    /\ Editing(i, "add", k) /\ NoFree(courses[k], no, None)
    /\ \E s \in NewSection(courses[k]) :
          LET r == Recomputed(WithSection(courses[k], s, NewRow(no, None, t, n, w)))
          IN  WithinCourse(r) /\ Edit(i, "add", k, r)
    /\ UNCHANGED <<courses, underneath>>

(* updateSection: a new number, or a new head count. *)
SectionUpdate(i) == \E k \in Open :
    /\ Editing(i, "resize", k)
    /\ \E s \in DOMAIN courses[k].secs :
       \/ \E no \in Nos : /\ NoFree(courses[k], no, courses[k].secs[s].code)
                          /\ Edit(i, "resize", k, [courses[k] EXCEPT !.secs[s].no = no])
       \/ \E n \in Numbers :
             LET r == Recomputed([courses[k] EXCEPT !.secs[s].n = n])
             IN  WithinCourse(r) /\ MayCost(k, r) /\ Edit(i, "resize", k, r)
    /\ UNCHANGED <<courses, underneath>>

(* deleteSection: a section some request names cannot go. *)
UnwantedOrCascading(k, s) == s \in SecIds
Unwanted(k, s) == s \notin wanted[k]
SectionDelete(i) == \E k \in Open :
    /\ Editing(i, "drop", k)
    /\ \E s \in DOMAIN courses[k].secs :
          /\ Unwanted(k, s)
          /\ Edit(i, "drop", k, Recomputed(WithoutSection(courses[k], s)))
    /\ UNCHANGED <<courses, underneath>>

(* replaceSectionSchedules: a lecturer fills a blank, once; staff write and  *)
(* clear as they like.                                                       *)
TimetableSave(i) == \E k \in Open :
    /\ Editing(i, "times", k)
    /\ \E s \in DOMAIN courses[k].secs :
       \/ \E w \in {"none", "staff"} :
             Edit(i, "times", k, [courses[k] EXCEPT !.secs[s].times = w])
       \/ /\ courses[k].secs[s].times = "none" /\ ~courses[k].secs[s].spent
          /\ Hold(i, [Idle EXCEPT !.op = "times", !.k = k, !.into = s, !.lecturer = TRUE],
                  [courses[k] EXCEPT !.secs[s].times = "lecturer", !.secs[s].spent = TRUE])
    /\ UNCHANGED <<courses, underneath>>

-----------------------------------------------------------------------------
(* Codes.                                                                  *)

(* The section an alternate code's section joins: its number and track, or   *)
(* the course's only one of the track.                                       *)
Partner(r, no, t) ==
    LET same == {s \in Own(r, t) : r.secs[s].no = no}
    IN  IF same # {} THEN same ELSE IF Cardinality(Own(r, t)) = 1 THEN Own(r, t) ELSE {}

(* promotePrimaryCode: the newest code prints first. *)
Promoted(r) ==
    LET newer == {c \in r.alts : Rank[c] < Rank[r.code]
                                 /\ \A d \in r.alts : Rank[c] <= Rank[d]}
    IN  IF newer = {} THEN {r}
        ELSE {[r EXCEPT !.code = c, !.alts = (@ \ {c}) \cup {r.code}] : c \in newer}

(* mergeCodeTx, with one section under the code. *)
CodeMerge(i) == \E k \in Open, c \in Codes, no \in Nos, t \in Tracks, n \in Numbers :
    /\ Editing(i, "merge", k) /\ ~CodeTaken(c, k) /\ c \notin CodesOf(courses[k])
    /\ LET r == [courses[k] EXCEPT !.alts = @ \cup {c}]
       IN  \/ \E p \in Partner(r, no, t) : \E q \in Promoted([r EXCEPT !.secs[p].n = @ + n]) :
                 Edit(i, "merge", k, Recomputed(q))
           \/ /\ Partner(r, no, t) = {}
              /\ \E s \in NewSection(r) :
                 \E q \in Promoted(WithSection(r, s, NewRow(no, c, t, n, "staff"))) :
                    Edit(i, "merge", k, Recomputed(q))
    /\ UNCHANGED <<courses, underneath>>

(* updateCourseInfo: another code, or other credit hours. *)
InfoRead(i) == \E k \in Open :
    /\ Begin(i, "info") /\ ~courses[k].exported
    /\ \/ \E c \in Codes : /\ ~CodeTaken(c, k)
                           /\ To(i, [Idle EXCEPT !.at = "asked", !.op = "info", !.k = k,
                                                 !.code = c, !.hrs = courses[k].hrs])
       \/ \E h \in {0, 1} : To(i, [Idle EXCEPT !.at = "asked", !.op = "info", !.k = k,
                                               !.hrs = h])
    /\ UNCHANGED <<courses, underneath>>

Primaries(k) == {courses[j].code : j \in Open \ {k}}
InfoWrite(i) == LET c == call[i] IN
    /\ c.at = "asked" /\ c.op = "info" /\ c.k \in Open /\ CourseFree(c.k)
    /\ c.code \notin Primaries(c.k)
    /\ LET r == IF c.code = None THEN [courses[c.k] EXCEPT !.hrs = c.hrs]
                                 ELSE [courses[c.k] EXCEPT !.code = c.code]
       IN  MayCost(c.k, r) /\ Hold(i, c, r)
    /\ UNCHANGED <<courses, underneath>>

(* Create and the import's commitOneCourse. *)
CreateCheck(i) == \E k \in Ids \ Open, c \in Codes :
    /\ Begin(i, "create") /\ ~CodeTaken(c, None)
    /\ To(i, [Idle EXCEPT !.at = "asked", !.op = "create", !.k = k, !.code = c])
    /\ UNCHANGED <<courses, underneath>>

CreateInsert(i) == LET c == call[i] IN
    /\ c.at = "asked" /\ c.op = "create" /\ c.k \in Ids \ Open
    /\ c.code \notin Primaries(c.k)
    /\ \E no \in Nos, t \in Tracks, n \in Numbers :
          LET s   == CHOOSE x \in SecIds : TRUE
              sec == NewRow(no, None, t, n, "staff")
              r == Recomputed([code |-> c.code, alts |-> {}, hrs |-> 1, exported |-> FALSE,
                               cols |-> [x \in Tracks |-> 0], secs |-> [x \in {s} |-> sec]])
          IN  courses' = [x \in Open \cup {c.k} |-> IF x = c.k THEN r ELSE courses[x]]
    /\ To(i, Idle) /\ UNCHANGED underneath

(* Delete: everything is checked before the transaction; in it, the foreign  *)
(* keys still refuse to part a request from its section.                     *)
DeleteCheck(i) == \E k \in Open :
    /\ Begin(i, "delete") /\ ~courses[k].exported /\ wanted[k] = {} /\ month[k] = "none"
    /\ \A s \in SecIds : Logged(k, s) = {}
    /\ To(i, [Idle EXCEPT !.at = "asked", !.op = "delete", !.k = k])
    /\ UNCHANGED <<courses, underneath>>

DeleteWrite(i) == LET c == call[i] IN
    /\ c.at = "asked" /\ c.op = "delete" /\ c.k \in Open /\ CourseFree(c.k)
    /\ \A s \in DOMAIN courses[c.k].secs : Unwanted(c.k, s)
    /\ Hold(i, c, courses[c.k])
    /\ UNCHANGED <<courses, underneath>>

(* foldSection: the students, the requests and the hours of one section move *)
(* to another; where both hold a sitting, the other's stands.                *)
SectionFold(i) == \E k \in Open :
    /\ Editing(i, "fold", k) /\ ~Folding
    /\ \E s, p \in DOMAIN courses[k].secs :
          /\ s # p /\ courses[k].secs[s].track = courses[k].secs[p].track
          /\ LET r == [courses[k] EXCEPT !.secs[p].n = @ + courses[k].secs[s].n]
             IN  Hold(i, [Idle EXCEPT !.op = "fold", !.k = k, !.from = s, !.into = p],
                      Recomputed(WithoutSection(r, s)))
    /\ UNCHANGED <<courses, underneath>>

MovedHoursLost(h, s, p) == [h EXCEPT ![s] = [x \in Sittings |-> "none"]]
MovedHours(h, s, p) ==
    [h EXCEPT ![p] = [x \in Sittings |-> IF @[x] # "none" THEN @[x] ELSE h[s][x]],
              ![s] = [x \in Sittings |-> "none"]]

Commit(i) == LET c == call[i] IN
    /\ c.at = "held"
    /\ courses' = IF c.op = "delete" THEN [x \in Open \ {c.k} |-> courses[x]]
                  ELSE [courses EXCEPT ![c.k] =
                           [c.image EXCEPT !.exported = courses[c.k].exported]]
    /\ IF c.op = "fold"
       THEN /\ hours' = [hours EXCEPT ![c.k] = MovedHours(@, c.from, c.into)]
            /\ wanted' = [wanted EXCEPT ![c.k] =
                   IF c.from \in @ THEN (@ \ {c.from}) \cup {c.into} ELSE @]
       ELSE UNCHANGED <<hours, wanted>>
    /\ To(i, Idle) /\ UNCHANGED <<approved, month, due, cap, ops>>

(* A refusal, an error, a lost connection: the transaction is rolled back. *)
GiveUp(i) == call[i] # Idle /\ To(i, Idle) /\ UNCHANGED <<courses, underneath>>

-----------------------------------------------------------------------------
(* What stands on a course, each in one statement of its own.              *)
Keeps(k, s) == \A j \in Calls : (call[j].at = "held" /\ call[j].k = k) =>
                   /\ call[j].op # "delete"
                   /\ s \in DOMAIN call[j].image.secs

(* A request names a section, or is given one more: its foreign keys wait    *)
(* for who has the course locked, or would delete the section.               *)
RequestFiled(k, s) ==
    /\ "request" \in ops /\ s \in DOMAIN courses[k].secs /\ s \notin wanted[k]
    /\ Keeps(k, s) /\ (wanted[k] = {} => CourseFree(k))
    /\ wanted' = [wanted EXCEPT ![k] = @ \cup {s}]
    /\ UNCHANGED <<courses, hours, approved, month, due, cap, call, ops>>

RequestApproved(k) ==
    /\ "request" \in ops /\ wanted[k] # {} /\ k \notin approved
    /\ approved' = approved \cup {k}
    /\ UNCHANGED <<courses, wanted, hours, month, due, cap, call, ops>>

(* The TA logs a sitting, the lecturer approves it: not in a locked month,   *)
(* nor while a fold holds the table.                                         *)
LogHours(k, s, x) ==
    /\ "log" \in ops /\ k \in approved /\ s \in wanted[k] /\ ~Folding
    /\ month[k] = "none" /\ hours[k][s][x] # "approved"
    /\ hours' = [hours EXCEPT ![k][s][x] = IF @ = "none" THEN "sent" ELSE "approved"]
    /\ UNCHANGED <<courses, wanted, approved, month, due, cap, call, ops>>

ExportMonth(k) ==
    /\ "export" \in ops /\ k \in approved /\ month[k] = "none" /\ ~Folding
    /\ \E s \in wanted[k] : Logged(k, s) # {}
    /\ \A s \in wanted[k], x \in Sittings : hours[k][s][x] # "sent"
    /\ month' = [month EXCEPT ![k] = "exported"] /\ due' = due \cup {k}
    /\ UNCHANGED <<courses, wanted, hours, approved, cap, call, ops>>

(* MarkExported, whose failure the handler ignores. *)
MarkExported(k) ==
    /\ k \in due /\ k \in Open /\ CourseFree(k)
    /\ courses' = [courses EXCEPT ![k].exported = TRUE] /\ due' = due \ {k}
    /\ UNCHANGED <<wanted, hours, approved, month, cap, call, ops>>

MarkExportedFails(k) ==
    /\ k \in due /\ due' = due \ {k}
    /\ UNCHANGED <<courses, wanted, hours, approved, month, cap, call, ops>>

SendToFinanceMisnamed(k) ==
    /\ "finance" \in ops /\ month[k] = "exported"
    /\ month' = [month EXCEPT ![k] = "sent"]
    /\ UNCHANGED <<courses, wanted, hours, approved, due, cap, call, ops>>
SendToFinance(k) ==
    /\ "finance" \in ops /\ month[k] = "exported"
    /\ month' = [month EXCEPT ![k] = "finance_sent"]
    /\ UNCHANGED <<courses, wanted, hours, approved, due, cap, call, ops>>

(* Unexport: the exported month comes back with its rows, a month at finance *)
(* does not.                                                                 *)
Unexport(k) ==
    /\ "unlock" \in ops /\ CourseFree(k) /\ ~Folding
    /\ courses[k].exported \/ month[k] = "exported"
    /\ courses' = [courses EXCEPT ![k].exported = FALSE]
    /\ IF month[k] = "exported"
       THEN /\ month' = [month EXCEPT ![k] = "none"]
            /\ hours' = [hours EXCEPT ![k] = [s \in SecIds |-> [x \in Sittings |->
                            IF @[s][x] = "approved" THEN "sent" ELSE @[s][x]]]]
       ELSE UNCHANGED <<month, hours>>
    /\ UNCHANGED <<wanted, approved, due, cap, call, ops>>

(* SetTermBudgetCap: no course with a month at finance may change its price. *)
SetTermBudgetCap ==
    /\ "cap" \in ops
    /\ \E b \in Caps :
          /\ \A k \in Open : \/ Budget(courses[k], b) = Budget(courses[k], cap)
                             \/ month[k] = "none"
          /\ cap' = b
    /\ UNCHANGED <<courses, wanted, hours, approved, month, due, call, ops>>

Init ==
    /\ courses \in Starts /\ ops \in Workloads /\ cap = NoCap
    /\ wanted = [k \in Ids |-> {}] /\ approved = {} /\ due = {}
    /\ month = [k \in Ids |-> "none"]
    /\ hours = [k \in Ids |-> [s \in SecIds |-> [x \in Sittings |-> "none"]]]
    /\ call = [i \in Calls |-> Idle]

Around ==
    \/ \E k \in Open : \/ \E s \in SecIds : RequestFiled(k, s)
                       \/ \E s \in SecIds, x \in Sittings : LogHours(k, s, x)
                       \/ RequestApproved(k) \/ ExportMonth(k) \/ MarkExported(k)
                       \/ MarkExportedFails(k) \/ SendToFinance(k) \/ Unexport(k)
    \/ SetTermBudgetCap

Next ==
    \/ \E i \in Calls :
          \/ NumbersRead(i) \/ NumbersWrite(i) \/ SectionAdd(i) \/ SectionUpdate(i)
          \/ SectionDelete(i) \/ TimetableSave(i) \/ CodeMerge(i) \/ InfoRead(i)
          \/ InfoWrite(i) \/ CreateCheck(i) \/ CreateInsert(i) \/ DeleteCheck(i)
          \/ DeleteWrite(i) \/ SectionFold(i) \/ Commit(i) \/ GiveUp(i)
    \/ Around

CoursesSpec == Init /\ [][Next]_courseVars

-----------------------------------------------------------------------------
(* Types of the tables and of the calls. *)
CoursesTypeOK ==
    /\ Open \subseteq Ids /\ \A k \in Open : IsCourse(courses[k])
    /\ wanted \in [Ids -> SUBSET SecIds]
    /\ hours \in [Ids -> [SecIds -> [Sittings -> {"none", "sent", "approved"}]]]
    /\ approved \subseteq Ids /\ due \subseteq Ids /\ cap \in Caps /\ ops \in Workloads
    /\ month \in [Ids -> {"none", "exported", "finance_sent"}]
    /\ \A i \in Calls : /\ call[i].at \in {"idle", "asked", "held"}
                        /\ call[i].at # "idle" => call[i].k \in Ids
                        /\ call[i].at = "held" => IsCourse(call[i].image)

(* teaching.go, recomputeAggregate and syncSectionCounts: the counts the     *)
(* budget is made of are those of the sections the planner reads, whoever    *)
(* typed last and however a total was shared out.                            *)
HeadcountsAdd == \A k \in Open, t \in Tracks :
    Class(courses[k], t) # {} => courses[k].cols[t] = Count(courses[k], t)

(* teaching.go, assertNotExported: "the export file stays the source of      *)
(* truth": while a course stays exported no section of it comes, goes or is  *)
(* retimed, not by a request that looked before the export either.           *)
Roster(r) == [s \in DOMAIN r.secs |-> [r.secs[s] EXCEPT !.n = 0, !.spent = FALSE]]
RosterFrozen == [][\A k \in Open :
    courses[k].exported /\ (k \in DOMAIN courses' => courses'[k].exported)
        => k \in DOMAIN courses' /\ Roster(courses'[k]) = Roster(courses[k])]_courseVars

(* teaching.go, replaceSectionSchedules: "two lecturers hitting save at once *)
(* must not both see 'empty' and both write": the section a lecturer's save  *)
(* is about to fill is blank, and was never filled, to the last.             *)
LecturerFillsBlank == \A i \in Calls :
    call[i].at = "held" /\ call[i].op = "times" /\ call[i].lecturer =>
        /\ call[i].k \in Open /\ call[i].into \in DOMAIN courses[call[i].k].secs
        /\ courses[call[i].k].secs[call[i].into].times = "none"
        /\ ~courses[call[i].k].secs[call[i].into].spent

(* teaching.go, Delete, deleteSection and foldSection: what a request names  *)
(* is there, and hours are of a section that its TA is assigned to.          *)
WantedKept == \A k \in Ids :
    /\ wanted[k] # {} => k \in Open /\ wanted[k] \subseteq DOMAIN courses[k].secs
    /\ \A s \in SecIds : Logged(k, s) # {} => s \in wanted[k]

(* Migration 0145: the hours move with the section that is folded: a sitting *)
(* once logged for the course is never lost to a change of its sections.     *)
SittingsKept == [][\A k \in Ids, s \in SecIds, x \in Sittings :
    x \in Logged(k, s) => \E p \in SecIds : hours'[k][p][x] # "none"]_courseVars

-----------------------------------------------------------------------------
(* What one might expect, and the code does not keep.                      *)

(* teaching.go, SetNumStudents: -1 is "for a field they don't want to change *)
(* (current value is kept)".  The current value is read before the lock.     *)
UnsentTrackKept == [][\A i \in Calls :
    call[i].op = "numbers" /\ call[i].at = "held" /\ courses' # courses /\ call'[i] = Idle
        => \A t \in Tracks \ call[i].sent :
               courses'[call[i].k].cols[t] = courses[call[i].k].cols[t]]_courseVars

(* teaching_rules.go, guardBudgetChange: a change to the ceiling is refused  *)
(* "once any month of the course has been exported".  Adding and deleting a  *)
(* section and merging a code never ask it, and after an unlock may run over *)
(* a month at finance.                                                       *)
IssuedBudgetStands == [][\A k \in Open :
    month[k] # "none" /\ month'[k] # "none" /\ k \in DOMAIN courses'
        => Budget(courses'[k], cap') = Budget(courses[k], cap)]_courseVars

(* teaching_merge.go, foldSection: not where "a payout file already stands   *)
(* on the old sections".  An unlock leaves a month at finance and clears the *)
(* flag the fold looks at.                                                   *)
SentRowsStand == [][\A k \in Ids :
    month[k] = "finance_sent" => hours'[k] = hours[k]]_courseVars

(* teaching_merge.go, codeTakenInTerm: a code is open once in a term.  A     *)
(* course created or renamed looks before its transaction, and no constraint *)
(* reaches the alternate codes.                                              *)
CodesOpenOnce == \A j, k \in Open : j # k => CodesOf(courses[j]) \cap CodesOf(courses[k]) = {}

(* Migration 0145 keeps the partner's copy of a sitting whatever became of   *)
(* it: an approved hour is lost to a copy that is only sent.                 *)
FoldKeepsApproved == [][\A i \in Calls :
    call[i].op = "fold" /\ call[i].at = "held" /\ hours' # hours /\ call'[i] = Idle
        => \A s \in SecIds, x \in Sittings : hours[call[i].k][s][x] = "approved"
               => \E p \in SecIds : hours'[call[i].k][p][x] = "approved"]_courseVars
=============================================================================
