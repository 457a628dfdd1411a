----------------------------- MODULE Timesheets -----------------------------
(***************************************************************************)
(* The lines of one TA's timesheets, in all the sections they help with:   *)
(* generated from the class timetable or typed in, sent, approved, sent    *)
(* back, corrected; and the makeup classes, waivers and holidays that      *)
(* move the classes under them.                                            *)
(*                                                                         *)
(* Times are half hours.  A request looks at the tables on the pool, then  *)
(* writes: one statement, guarded by no more than its WHERE, whatever      *)
(* others committed in between.  Nothing locks the TA; approving takes a   *)
(* lock per course before its look.  A write that leaves a row approved    *)
(* goes past the trigger of migration 0131, which sees what is committed,  *)
(* and commits in a step of its own.  Exported months, settlement and the  *)
(* signatures of a month are PayoutMonths; the caps come from the workload *)
(* a request declared and do not change here.                              *)
(***************************************************************************)
EXTENDS Integers, FiniteSets, SequencesExt, FiniteSetsExt

CONSTANTS
    Info,       \* per assignment: course, group, regular, rate, kinds, shared, attendance,
                \* dayHours, cap (per activity, a week) and term
    Calendar,   \* per day of the term: its weekday, week, month, and exam or not
    Timetable,  \* section_schedules in the order read: asg, kind, weekday, from, to
    Duties,     \* ta_review_schedules (kind review), the same way
    Classes,    \* the TA's own timetable: weekday, from, to
    DayBaht,    \* daily_pay_cap_baht
    Moves,      \* the makeups and waivers a course may file (a bound)
    Closures,   \* the holidays staff may declare (a bound)
    MaxRows,    \* rows at which nobody types another (a bound)
    Calls,      \* the requests that may be in flight (a bound)
    Workloads   \* operations, assignments, lines somebody may type, rows to start from and
                \* how many requests may be in flight at once: a behaviour uses one (a bound)

Asgs     == DOMAIN Info
Days     == DOMAIN Calendar
Months   == {Calendar[d].month : d \in Days}
Statuses == {"draft", "submitted", "approved", "rejected"}
Kinds    == {"lecture", "lab", "review"}
Lasting(S) == \A x \in S : x.from \in Nat /\ x.to \in Nat /\ x.from < x.to
Range2(s)  == {s[i] : i \in DOMAIN s}
TimesheetOps == {"generate", "type", "send", "back", "staff", "review", "move", "holiday", "close"}

(* A row of work_logs: within a day, of an assignment that has its activity. *)
(* A row keeps its id and its assignment, so an id may as well name it.      *)
Keys       == Asgs \X Days \X Nat \X Nat
Lines(ids) == [id : ids, asg : Asgs, day : Days, from : Nat, to : Nat, act : Kinds,
               status : Statuses, auto : BOOLEAN]
OnSheet(r) == /\ r \in Lines(Keys) /\ r.id[1] = r.asg
              /\ r.from < r.to /\ r.act \in Info[r.asg].kinds
Keyed(S)   == \A r, s \in S : r.id = s.id => r = s

(* A co-taught group joins two sections of one request, one of each track.   *)
(* Every slot, line and makeup with a window of its own takes some time.    *)
ASSUME TimesheetsAssumption ==
    /\ \A a, b \in Asgs : /\ a # b /\ Info[a].group # 0 /\ Info[a].group = Info[b].group
                          => Info[a].regular # Info[b].regular /\ Info[a].course = Info[b].course
    /\ \A a \in Asgs : /\ Info[a].kinds \subseteq Kinds /\ Info[a].cap \in [Kinds -> Nat]
                       /\ Info[a].regular \in BOOLEAN
                       /\ {Info[a].rate, Info[a].attendance} \subseteq Nat
                       /\ {Info[a].dayHours, Info[a].term} \subseteq Nat \ {0}
    /\ DayBaht \in Nat \ {0}
    /\ Calendar \in Seq([weekday : Nat, week : Nat, month : Nat, exam : BOOLEAN])
    /\ Timetable \in Seq([asg : Asgs, kind : Kinds, weekday : Nat, from : Nat, to : Nat])
    /\ Duties \in Seq([asg : Asgs, weekday : Nat, from : Nat, to : Nat])
    /\ Lasting(Range2(Timetable)) /\ Lasting(Range2(Duties))
    /\ \A m \in Moves : /\ m.to \in Days \cup {0} /\ m.from \in Nat /\ m.until \in Nat
                        /\ m.until # 0 => m.from < m.until
    /\ \A w \in Workloads :
          /\ w.ops \subseteq TimesheetOps /\ w.asgs \subseteq Asgs /\ w.atOnce \in Nat
          /\ Lasting(w.lines)
          /\ \A e \in w.lines : e.asg \in Asgs /\ e.day \in Days
          /\ IsFiniteSet(w.rows) /\ Keyed(w.rows) /\ \A r \in w.rows : OnSheet(r)

VARIABLES
    rows,      \* work_logs: id, asg, day, from, to, act, status, auto
    makeups,   \* makeup_schedules: asg, day, kind, to (0: waived), from, until (0: no window)
    holidays,  \* public_holidays: day, from, to
    closed,    \* months whose submission period is closed
    req,       \* per call, the request in flight: what it looked up and is to write
    overtaken, \* calls that looked at sent rows or makeups which have changed since
    work       \* what this behaviour may use

tsVars == <<rows, makeups, holidays, closed, req, overtaken, work>>

-----------------------------------------------------------------------------
Span(r)       == r.to - r.from
Hours(S)      == MapThenSumSet(Span, S)
MonthOf(r)    == Calendar[r.day].month
Has(S, st)    == {r \in S : r.status \in st}
OfAsg(S, a)   == {r \in S : r.asg = a}
OnDay(S, d)   == {r \in S : r.day = d}
Live(S)       == {r \in S : r.status # "rejected"}
InReview(S)   == Has(S, {"submitted", "approved"})

Ids(S)        == {r.id : r \in S}
Those(S, ids) == {r \in S : r.id \in ids}

Typed(e)      == [id |-> <<>>, asg |-> e.asg, day |-> e.day, from |-> e.from, to |-> e.to, act |-> e.act,
                  status |-> "draft", auto |-> FALSE]
Retyped(q, e) == [q EXCEPT !.day = e.day, !.from = e.from, !.to = e.to, !.act = e.act]

(* A new row's id is one no row has.                                        *)
Key(r, n)   == <<r.asg, r.day, r.from, n>>
NewId(r, S) == Key(r, CHOOSE n \in 1..(Cardinality(S) + 1) : Key(r, n) \notin Ids(S))
Keep(r, S)  == [r EXCEPT !.id = NewId(r, S)]

(* Two rows share a minute; copies of one sitting, taught to co-scheduled    *)
(* sections of a request, may.                                               *)
Overlap(r, s) == r.day = s.day /\ r.from < s.to /\ s.from < r.to
Twins(r, s)   == r.asg # s.asg /\ Info[r.asg].group # 0 /\ Info[r.asg].group = Info[s.asg].group
Busy(r, s)    == Overlap(r, s) /\ ~Twins(r, s)
Clash(r, s)   == r # s /\ Busy(r, s)
Copy(r, s)    == Twins(r, s) /\ r.day = s.day /\ r.from = s.from /\ r.to = s.to

(* Rule B2: a shared sitting is priced once, at the regular section's rate.  *)
Paid(r)  == Span(r) * Info[r.asg].rate
Baht(S)  == MapThenSumSet(Paid, {r \in S : ~\E s \in S : Copy(r, s) /\ Info[s.asg].regular})

(* The weekly quota an hour belongs to; a generated row on a makeup's day    *)
(* belongs to the week whose class was cancelled.                            *)
Pool(r)          == IF Info[r.asg].shared /\ r.act = "lab" THEN "lecture" ELSE r.act
Cap(r)           == Info[r.asg].cap[Pool(r)]
Landed(r)        == r.auto /\ \E m \in makeups : m.asg = r.asg /\ m.to = r.day /\ m.kind = r.act
WeekMates(r, S)  == {s \in S : /\ s.asg = r.asg /\ Pool(s) = Pool(r)
                               /\ Calendar[s.day].week = Calendar[r.day].week}
WeekHours(r, S)  == Hours({s \in WeekMates(r, S) : ~Landed(s)})

Shut(d, from, to, hs)  == \E h \in hs : h.day = d /\ h.from < to /\ from < h.to
InClass(d, from, to)   == \E c \in Classes : /\ c.weekday = Calendar[d].weekday
                                             /\ c.from < to /\ from < c.to
Meets(p, a, kind, d)   == p.asg = a /\ p.kind = kind /\ p.weekday = Calendar[d].weekday

-----------------------------------------------------------------------------
(* Generate.  A month is left alone when it is closed, or in review: it has  *)
(* a sent row, or a rejected one that can still be sent.                     *)
KeptMonths(v, a) == v.closed \cup {MonthOf(r) : r \in {q \in OfAsg(v.rows, a) :
                        q.status \in {"submitted", "approved", "rejected"}}}
Wiped(v, a, S)   == {r \in OfAsg(S, a) : r.status = "draft" /\ MonthOf(r) \notin KeptMonths(v, a)}

Moved(v, a, d, kind) == {m \in v.makeups : m.asg = a /\ m.day = d /\ m.kind = kind /\ m.to # 0}
Waived(v, a, d, kind) == \E m \in v.makeups : m.asg = a /\ m.day = d /\ m.kind = kind /\ m.to = 0

(* The row of a period on a day: at its makeup if it has one, and only the   *)
(* last attendance hours of a lecture.                                       *)
RowOf(v, d, p) ==
    LET ms    == Moved(v, p.asg, d, p.kind)
        m     == CHOOSE x \in ms : TRUE
        timed == ms # {} /\ m.until # 0
        end   == IF timed THEN m.until ELSE p.to
        start == IF timed THEN m.from ELSE p.from
        duty  == Info[p.asg].attendance
        cut   == p.kind = "lecture" /\ 0 < duty /\ duty < end - start
    IN  [row |-> [id |-> <<>>, asg |-> p.asg, day |-> IF ms = {} THEN d ELSE m.to, act |-> p.kind,
                  auto |-> TRUE, from |-> IF cut THEN end - duty ELSE start, to |-> end, status |-> "draft"],
         timed |-> timed]

Happens(v, d, p) ==
    LET c == RowOf(v, d, p)  r == c.row IN
    /\ p.kind \in Info[p.asg].kinds
    /\ p.weekday \notin {0, 6} /\ ~Waived(v, p.asg, d, p.kind)
    /\ r.day = d /\ ~c.timed => ~Shut(d, p.from, p.to, v.holidays)
    /\ ~Shut(r.day, IF c.timed THEN r.from ELSE p.from, IF c.timed THEN r.to ELSE p.to, v.holidays)
    /\ ~Calendar[r.day].exam
    /\ MonthOf(r) \notin KeptMonths(v, p.asg)
    /\ ~InClass(r.day, p.from, p.to)

DutyRow(d, u)     == [id |-> <<>>, asg |-> u.asg, day |-> d, from |-> u.from, to |-> u.to, act |-> "review",
                      status |-> "draft", auto |-> TRUE]
DutyHappens(v, d, u) ==
    /\ "review" \in Info[u.asg].kinds
    /\ ~Calendar[d].exam
    /\ Calendar[d].month \notin KeptMonths(v, u.asg)
    /\ ~InClass(d, u.from, u.to)

(* Day by day the periods, then the TA's own weekly slots: what each comes   *)
(* to, if it is the assignment's, falls on the day and takes place.          *)
Turns(plan)   == 1..(Len(Calendar) * Len(plan))
DayAt(plan, k)  == 1 + ((k - 1) \div Len(plan))
SlotAt(plan, k) == plan[1 + ((k - 1) % Len(plan))]
Falls(p, a, d)  == p.asg = a /\ p.weekday = Calendar[d].weekday

Lessons(v, a) == [k \in Turns(Timetable) |->
    LET d == DayAt(Timetable, k)  p == SlotAt(Timetable, k)
    IN  [row |-> RowOf(v, d, p).row, holds |-> Falls(p, a, d) /\ Happens(v, d, p)]]
Gradings(v, a) == [k \in Turns(Duties) |->
    LET d == DayAt(Duties, k)  u == SlotAt(Duties, k)
    IN  [row |-> DutyRow(d, u), holds |-> Falls(u, a, d) /\ DutyHappens(v, d, u)]]

(* The end a row may have under the day's pay cap: shortened in half hours;  *)
(* a slot a co-taught sibling already bills costs nothing more.              *)
Fit(v, a, made, r) ==
    LET rate  == Info[a].rate
        old   == OnDay(Live(v.rows), r.day) \ Wiped(v, a, v.rows)
        free(q) == \E s \in old : Twins(q, s) /\ s.day = q.day /\ s.from = q.from /\ s.to = q.to
        spent == Baht(old) + MapThenSumSet(Paid, {q \in OnDay(made, r.day) : ~free(q)})
        cost  == IF free(r) THEN 0 ELSE Paid(r)
        room  == (DayBaht - spent) \div rate
    IN  IF rate = 0 \/ spent + cost <= DayBaht THEN r.to
        ELSE r.from + (IF room < 0 THEN 0 ELSE IF room > Span(r) THEN Span(r) ELSE room)

(* One more candidate, unless a limit stops it: the day's hours, another row *)
(* of the TA, the day's pay, the term, the week.                             *)
AdmitFreshWeek(v, a, base, made, r) ==
    LET t     == [r EXCEPT !.to = Fit(v, a, made, r)]
        spent == {q \in OfAsg(v.rows, a) : q.status # "draft" \/ MonthOf(q) \in KeptMonths(v, a)}
    IN  IF /\ Hours(OnDay(made, r.day)) + Span(r) <= Info[a].dayHours
           /\ \A q \in Live(base) \cup made : ~Busy(r, q)
           /\ t.from < t.to
           /\ Hours(spent) + Hours(made) + Span(t) <= Info[a].term
           /\ Cap(r) > 0 => Hours(WeekMates(r, made)) + Span(t) <= Cap(r)
        THEN made \cup {Keep(t, base \cup made)} ELSE made
AdmitCountsOldDrafts(v, a, base, made, r) ==
    LET t     == [r EXCEPT !.to = Fit(v, a, made, r)]
        kept  == {q \in WeekMates(r, OfAsg(base, a)) : ~Landed(q)}
    IN  IF /\ Hours(OnDay(made, r.day)) + Span(r) <= Info[a].dayHours
           /\ \A q \in Live(base) \cup made : ~Busy(r, q)
           /\ t.from < t.to
           /\ Hours(OfAsg(v.rows, a)) + Hours(made) + Span(t) <= Info[a].term
           /\ Cap(r) > 0 => Hours(kept) + Hours(WeekMates(r, made)) + Span(t) <= Cap(r)
        THEN made \cup {Keep(t, base \cup made)} ELSE made
Admit(v, a, base, made, r) ==
    LET t     == [r EXCEPT !.to = Fit(v, a, made, r)]
        spent == {q \in OfAsg(v.rows, a) : q.status # "draft" \/ MonthOf(q) \in KeptMonths(v, a)}
        kept  == {q \in WeekMates(r, OfAsg(base, a)) : ~Landed(q)}
    IN  IF /\ Hours(OnDay(made, r.day)) + Span(r) <= Info[a].dayHours
           /\ \A q \in Live(base) \cup made : ~Busy(r, q)
           /\ t.from < t.to
           /\ Hours(spent) + Hours(made) + Span(t) <= Info[a].term
           /\ Cap(r) > 0 => Hours(kept) + Hours(WeekMates(r, made)) + Span(t) <= Cap(r)
        THEN made \cup {Keep(t, base \cup made)} ELSE made

Turn(v, a, base, made, c) == IF c.holds THEN Admit(v, a, base, made, c.row) ELSE made
Filled(v, a, base, made, C) == FoldLeft(LAMBDA acc, c : Turn(v, a, base, acc, c), made, C)
Made(v, a, base) == Filled(v, a, base, Filled(v, a, base, {}, Lessons(v, a)), Gradings(v, a))

Outcome(v, a, S) == LET base == S \ Wiped(v, a, S) IN base \cup Made(v, a, base)

-----------------------------------------------------------------------------
(* Requests in flight.  A call is idle, has looked, or has written and is    *)
(* to commit what it put.                                                    *)
View == [rows |-> rows, makeups |-> makeups, holidays |-> holidays, closed |-> closed]

Idle     == [op |-> "idle"]
Look(i, q) ==
    /\ req' = [req EXCEPT ![i] = q]
    /\ UNCHANGED <<rows, makeups, holidays, closed, overtaken, work>>

(* The rows a request is to write, and those a statement not yet committed   *)
(* holds; the course an approval has locked.                                 *)
Aims(q)   == IF q.op \in {"edit", "delete", "staff", "adjust", "cut"} THEN q.ids ELSE {}
Puts(q)   == IF q.op = "written" THEN q.puts ELSE {}
Held(i)   == Ids(UNION {Puts(req[j]) : j \in Calls \ {i}})
Locks(q)  == IF q.op = "approve" THEN {Info[q.asg].course}
             ELSE IF q.op = "written" THEN q.locks ELSE {}

(* What makes hours payable, or moves the week they count in.                *)
Gates == {"approve", "staff", "written", "unfile", "waive"}

(* A commit ends its call and those whose rows or makeup it took; the gates  *)
(* left have missed it when it changed what they looked at.                  *)
Commits(i, lost) ==
    /\ req' = [j \in Calls |-> IF j = i \/ j \in lost THEN Idle ELSE req[j]]
    /\ overtaken' = {j \in Calls \ ({i} \cup lost) : req[j].op \in Gates /\
          (j \in overtaken \/ InReview(rows') # InReview(rows) \/ makeups' # makeups)}
    /\ UNCHANGED work
Losing(S) == {j \in Calls : Aims(req[j]) \cap Ids(S) # {}}

(* The request fails, or its client goes away.                               *)
Drop(i) ==
    /\ req[i] # Idle
    /\ req' = [req EXCEPT ![i] = Idle]
    /\ overtaken' = overtaken \ {i}
    /\ UNCHANGED <<rows, makeups, holidays, closed, work>>

GenerateRead(i, a) ==
    /\ "generate" \in work.ops
    /\ Look(i, [op |-> "generate", asg |-> a, view |-> View])

Generate(i) ==
    LET v == req[i].view  a == req[i].asg IN
    /\ req[i].op = "generate"
    /\ rows' = Outcome(v, a, rows)
    /\ UNCHANGED <<makeups, holidays, closed>> /\ Commits(i, Losing(Wiped(v, a, rows)))

-----------------------------------------------------------------------------
(* A line typed in: what the date, the class and the caps let through.       *)
(* Waivers and moves are looked up by the date alone, whatever the period.   *)
DateAllows(r) ==
    LET here == {m \in makeups : m.asg = r.asg /\ m.to = r.day} IN
    /\ r.act \in Info[r.asg].kinds
    /\ ~Calendar[r.day].exam
    /\ r.act \in {"lecture", "lab"} =>
           /\ ~\E m \in makeups : m.asg = r.asg /\ m.day = r.day
           /\ Shut(r.day, r.from, r.to, holidays) => here # {}

Inside(r, p)   == p.from <= r.from /\ r.to <= p.to
ClassWindow(r) ==
    r.act \in {"lecture", "lab"} =>
        \/ \E p \in Range2(Timetable) : Meets(p, r.asg, r.act, r.day) /\ Inside(r, p)
        \/ \E m \in makeups :
              /\ m.asg = r.asg /\ m.to = r.day /\ m.kind = r.act
              /\ IF m.until # 0 THEN m.from <= r.from /\ r.to <= m.until
                 ELSE \E p \in Range2(Timetable) : Meets(p, r.asg, r.act, m.day) /\ Inside(r, p)
ReviewWindow(r) ==
    r.act = "review" => \E u \in Range2(Duties) : /\ u.asg = r.asg /\ Inside(r, u)
                                                  /\ u.weekday = Calendar[r.day].weekday

(* The limits, against the other rows of the TA.                             *)
Limits(r, others) ==
    /\ Hours(OnDay(OfAsg(others, r.asg), r.day)) + Span(r) <= Info[r.asg].dayHours
    /\ Cap(r) > 0 => WeekHours(r, others) + Span(r) <= Cap(r)
    /\ Hours(OfAsg(Live(others), r.asg)) + Span(r) <= Info[r.asg].term
    /\ \A s \in Live(others) : ~Clash(r, s)
    /\ ~InClass(r.day, r.from, r.to)
DayPay(r, others) == Baht(OnDay(Live(others), r.day) \cup {r}) <= DayBaht

(* A month in review takes only later days, and the days of filed makeups.   *)
LateAllowed(r) ==
    LET sent == {s \in InReview(OfAsg(rows, r.asg)) : MonthOf(s) = MonthOf(r)} IN
    \/ \A s \in sent : s.day < r.day
    \/ \E m \in makeups : m.asg = r.asg /\ m.to = r.day

Writable(r, others) == /\ DateAllows(r) /\ ClassWindow(r) /\ MonthOf(r) \notin closed
                       /\ Limits(r, others) /\ DayPay(r, others)

UpsertNew(i, e, who) ==
    /\ who \in work.ops /\ Cardinality(rows) < MaxRows
    /\ Writable(Typed(e), rows)
    /\ who = "type" => ReviewWindow(Typed(e)) /\ LateAllowed(Typed(e))
    /\ Look(i, [op |-> "new", line |-> e])
Insert(i) ==
    /\ req[i].op = "new"
    /\ rows' = rows \cup {Keep(Typed(req[i].line), rows)}
    /\ UNCHANGED <<makeups, holidays, closed>> /\ Commits(i, {})

UpsertEdit(i, q, e) ==
    LET r == Retyped(q, e) IN
    /\ "type" \in work.ops /\ q.status \in {"draft", "rejected"} /\ e.asg = q.asg
    /\ MonthOf(q) \notin closed /\ Writable(r, rows \ {q}) /\ ReviewWindow(r)
    /\ Look(i, [op |-> "edit", ids |-> {q.id}, line |-> e])
Edit(i) ==
    \E q \in Those(rows, Aims(req[i])) :
        /\ req[i].op = "edit" /\ q.status \in {"draft", "rejected"}
        /\ rows' = (rows \ {q}) \cup {[Retyped(q, req[i].line) EXCEPT !.status = "draft"]}
        /\ UNCHANGED <<makeups, holidays, closed>> /\ Commits(i, {})

(* The TA's own, or staff for the TA, who do not look at the status.         *)
DeleteLook(i, q) ==
    /\ \/ "type" \in work.ops /\ q.status \in {"draft", "rejected"}
       \/ "staff" \in work.ops
    /\ MonthOf(q) \notin closed
    /\ Look(i, [op |-> "delete", ids |-> {q.id}])
Delete(i) ==
    \E q \in Those(rows, Aims(req[i])) :
        /\ req[i].op = "delete" /\ q.status \in {"draft", "rejected"}
        /\ rows' = rows \ {q}
        /\ UNCHANGED <<makeups, holidays, closed>> /\ Commits(i, Losing({q}))

(* Staff write on the TA's behalf: the review window and the order of days   *)
(* do not bind them, and a row they correct keeps its status, an approved    *)
(* one only if it was approved when they looked.  The trigger lets a row     *)
(* become or stay approved at new times only while no approved row of        *)
(* another course shares a minute with it.                                   *)
StaffUpsert(i, q, e) ==
    /\ "staff" \in work.ops /\ e.asg = q.asg
    /\ MonthOf(q) \notin closed /\ Writable(Retyped(q, e), rows \ {q})
    /\ Look(i, [op |-> "staff", ids |-> {q.id}, line |-> e, was |-> q.status = "approved"])

Across(r, s) == Overlap(r, s) /\ Info[r.asg].course # Info[s.asg].course
Unbilled(r)  == \A s \in Has(rows, {"approved"}) : ~Across(r, s)

StaffEdit(i) ==
    \E q \in Those(rows, Aims(req[i])) :
        /\ req[i].op = "staff" /\ q.status # "approved" /\ q.id \notin Held(i)
        /\ rows' = (rows \ {q}) \cup {Retyped(q, req[i].line)}
        /\ UNCHANGED <<makeups, holidays, closed>> /\ Commits(i, {})
Writes(i, puts, locks) ==
    /\ req' = [req EXCEPT ![i] = [op |-> "written", puts |-> puts, locks |-> locks]]
    /\ UNCHANGED <<rows, makeups, holidays, closed, overtaken, work>>
StaffCorrectUnwatched(i) ==
    \E q \in Those(rows, Aims(req[i])) :
        LET r == Retyped(q, req[i].line) IN
        /\ req[i].op = "staff" /\ req[i].was /\ q.status = "approved" /\ q.id \notin Held(i)
        /\ Writes(i, {r}, {})
StaffCorrect(i) ==
    \E q \in Those(rows, Aims(req[i])) :
        LET r == Retyped(q, req[i].line) IN
        /\ req[i].op = "staff" /\ req[i].was /\ q.status = "approved" /\ q.id \notin Held(i)
        /\ (r.day = q.day /\ r.from = q.from /\ r.to = q.to) \/ Unbilled(r)
        /\ Writes(i, {r}, {})

(* A lecturer corrects or cuts a sent sitting, every co-taught copy of it,   *)
(* after the deadline too.                                                   *)
At(c, from, to) == [c EXCEPT !.from = from, !.to = to]
Copies(q) == {q} \cup {s \in rows : Copy(q, s) /\ s.status = q.status}

LecturerAdjust(i, q, e) ==
    LET cs == Copies(q)
        at(c) == At(c, e.from, e.to)
    IN  /\ "review" \in work.ops /\ q.status = "submitted"
        /\ e.asg = q.asg /\ e.day = q.day /\ e.act = q.act /\ at(q) # q
        /\ \A c \in cs : /\ DateAllows(at(c)) /\ ClassWindow(at(c))
                         /\ Limits(at(c), rows \ {c}) /\ DayPay(at(c), rows \ cs)
        /\ Look(i, [op |-> "adjust", ids |-> Ids(cs), line |-> e])
LecturerCut(i, q) ==
    /\ "review" \in work.ops /\ q.status = "submitted"
    /\ Look(i, [op |-> "cut", ids |-> Ids(Copies(q))])

StillSent(i, cs) == /\ \A c \in cs : c.status = "submitted"
                    /\ Ids(cs) = req[i].ids /\ Ids(cs) \cap Held(i) = {}
Adjust(i) ==
    LET cs == Those(rows, Aims(req[i])) IN
    /\ req[i].op = "adjust" /\ StillSent(i, cs)
    /\ rows' = (rows \ cs) \cup {At(c, req[i].line.from, req[i].line.to) : c \in cs}
    /\ UNCHANGED <<makeups, holidays, closed>> /\ Commits(i, {})
Cut(i) ==
    LET cs == Those(rows, Aims(req[i])) IN
    /\ req[i].op = "cut" /\ StillSent(i, cs)
    /\ rows' = rows \ cs
    /\ UNCHANGED <<makeups, holidays, closed>> /\ Commits(i, Losing(cs))

-----------------------------------------------------------------------------
Becomes(S, st) == (rows \ S) \cup {[r EXCEPT !.status = st] : r \in S}
Chosen(a, ms, st) == {r \in OfAsg(rows, a) : r.status \in st /\ MonthOf(r) \in ms}

(* Sending takes the drafts and the rejected rows of the open months chosen, *)
(* unless one shares a minute with another row the TA still holds.           *)
SendClash(c, o) ==
    /\ Clash(c, o)
    /\ o.status # "rejected" \/ (o.asg = c.asg /\ MonthOf(o) \notin closed)
    /\ ~(o.status = "draft" /\ MonthOf(o) \in closed)

Submit(i, a, ms) ==
    /\ "send" \in work.ops
    /\ \A c \in Chosen(a, ms \ closed, {"draft", "rejected"}), o \in rows : ~SendClash(c, o)
    /\ Look(i, [op |-> "submit", asg |-> a, months |-> ms])
Send(i) ==
    LET S == Chosen(req[i].asg, req[i].months \ closed, {"draft", "rejected"}) IN
    /\ req[i].op = "submit" /\ S # {}
    /\ rows' = Becomes(S, "submitted")
    /\ UNCHANGED <<makeups, holidays, closed>> /\ Commits(i, {})

(* What approving re-checks: no minute already approved, the day's hours,    *)
(* the day's pay, the TA's classes, the week.                                *)
NotApprovedTwice(S, all) == \A c \in S, o \in Has(all, {"approved"}) : ~Clash(c, o)
DayHoursHold(a, all) == \A d \in Days :
    Hours(OnDay(InReview(OfAsg(all, a)), d)) <= Info[a].dayHours
DayBahtOfCourse(S, all) == \A r \in S :
    Baht(OnDay(OfAsg(InReview(all), r.asg), r.day)) <= DayBaht
DayBahtHolds(S, all) == \A d \in {r.day : r \in S} : Baht(OnDay(InReview(all), d)) <= DayBaht
WeeksHold(a, all)    == \A r \in InReview(OfAsg(all, a)) :
    Cap(r) > 0 => WeekHours(r, InReview(OfAsg(all, a))) <= Cap(r)
ClassesKept(S)       == \A r \in S : ~InClass(r.day, r.from, r.to)

CapsHold(a, S, all) == /\ NotApprovedTwice(S, all)
                       /\ DayHoursHold(a, all) /\ DayBahtHolds(S, all) /\ WeeksHold(a, all)

Approve(i, a, ms) ==
    LET S == Chosen(a, ms, {"submitted"}) IN
    /\ "send" \in work.ops /\ S # {}
    /\ \A j \in Calls : Info[a].course \notin Locks(req[j])
    /\ CapsHold(a, S, rows) /\ ClassesKept(S)
    /\ Look(i, [op |-> "approve", asg |-> a, months |-> ms])
ApproveRows(i) ==
    LET S == Chosen(req[i].asg, req[i].months, {"submitted"}) IN
    /\ req[i].op = "approve" /\ S # {} /\ \A r \in S : Unbilled(r)
    /\ Writes(i, {[r EXCEPT !.status = "approved"] : r \in S}, Locks(req[i]))

Commit(i) ==
    /\ req[i].op = "written"
    /\ rows' = (rows \ Those(rows, Ids(Puts(req[i])))) \cup Puts(req[i])
    /\ UNCHANGED <<makeups, holidays, closed>> /\ Commits(i, {})

(* Sending back is one UPDATE, without a look.                               *)
Reject(i, a, ms) ==
    LET S == Chosen(a, ms, {"submitted"}) IN
    /\ "back" \in work.ops /\ S # {} /\ Ids(S) \cap Held(i) = {}
    /\ rows' = Becomes(S, "rejected")
    /\ UNCHANGED <<makeups, holidays, closed>> /\ Commits(i, {})

-----------------------------------------------------------------------------
(* A class is moved or waived only while none of its hours was sent; its     *)
(* drafts go.                                                                *)
Sitting(m, st) == {r \in OfAsg(rows, m.asg) : r.day = m.day /\ r.act = m.kind /\ r.status \in st}
Scheduled(m)   == \E p \in Range2(Timetable) : Meets(p, m.asg, m.kind, m.day)
SamePeriod(k, m) == k.asg = m.asg /\ k.day = m.day /\ k.kind = m.kind
Filed(m)       == {k \in makeups : SamePeriod(k, m)}
Sent           == {"submitted", "approved"}

AddMakeup(i, m) ==
    /\ "move" \in work.ops /\ m.to # 0 /\ Scheduled(m)
    /\ Sitting(m, Sent) = {}
    /\ Calendar[m.to].month \notin closed
    /\ ~\E h \in holidays : h.day = m.to /\ (m.until = 0 \/ (h.from < m.until /\ m.from < h.to))
    /\ Look(i, [op |-> "file", filing |-> m])

FileTwice(i) ==
    LET m == req[i].filing  S == Sitting(m, {"draft"}) IN
    /\ req[i].op = "file"
    /\ makeups' = makeups \cup {m}
    /\ rows' = rows \ S
    /\ UNCHANGED <<holidays, closed>> /\ Commits(i, Losing(S))
File(i) ==
    LET m == req[i].filing  S == Sitting(m, {"draft"}) IN
    /\ req[i].op = "file" /\ Filed(m) = {}
    /\ makeups' = makeups \cup {m}
    /\ rows' = rows \ S
    /\ UNCHANGED <<holidays, closed>> /\ Commits(i, Losing(S))

WaiveMakeup(i, m) ==
    /\ "move" \in work.ops /\ m.to = 0 /\ Scheduled(m)
    /\ \A k \in Filed(m) : k.to = 0
    /\ Sitting(m, Sent) = {}
    /\ Look(i, [op |-> "waive", filing |-> m])
(* Whatever is filed by then becomes the waiver.                            *)
Waive(i) ==
    LET m == req[i].filing  S == Sitting(m, {"draft"}) IN
    /\ req[i].op = "waive"
    /\ makeups' = (makeups \ Filed(m)) \cup {m}
    /\ rows' = rows \ S
    /\ UNCHANGED <<holidays, closed>> /\ Commits(i, Losing(S))

DeleteMakeupAnyway(i, m) ==
    /\ "move" \in work.ops
    /\ Look(i, [op |-> "unfile", filing |-> m])
DeleteMakeup(i, m) ==
    /\ "move" \in work.ops
    /\ m.to # 0 => InReview(OnDay(OfAsg(rows, m.asg), m.to)) = {}
    /\ Look(i, [op |-> "unfile", filing |-> m])
(* By its id: the makeup, or the waiver it became.                          *)
Unfile(i) ==
    LET m == req[i].filing
        S == IF m.to = 0 THEN {} ELSE Has(OnDay(OfAsg(rows, m.asg), m.to), {"draft"})
        others == {j \in Calls : req[j].op = "unfile" /\ SamePeriod(req[j].filing, m)}
    IN  /\ req[i].op = "unfile"
        /\ makeups' = makeups \ {k \in Filed(m) : k = m \/ k.to = 0}
        /\ rows' = rows \ S
        /\ UNCHANGED <<holidays, closed>> /\ Commits(i, Losing(S) \cup others)

(* A closure is refused while sent hours stand in it, and takes the drafts.  *)
Under(h, st) == {r \in OnDay(rows, h.day) : /\ r.act \in {"lecture", "lab"} /\ r.status \in st
                                            /\ r.from < h.to /\ h.from < r.to}
HolidayCreate(i, h) ==
    /\ "holiday" \in work.ops /\ Under(h, Sent) = {}
    /\ Look(i, [op |-> "holiday", closure |-> h])
Declare(i) ==
    LET h == req[i].closure  S == Under(h, {"draft"}) IN
    /\ req[i].op = "holiday" /\ h \notin holidays
    /\ holidays' = holidays \cup {h}
    /\ rows' = rows \ S
    /\ UNCHANGED <<makeups, closed>> /\ Commits(i, Losing(S))

HolidayDelete(h) ==
    /\ "holiday" \in work.ops
    /\ holidays' = holidays \ {h}
    /\ UNCHANGED <<rows, makeups, closed, req, overtaken, work>>

CloseMonth(mm) ==
    /\ "close" \in work.ops
    /\ closed' = IF mm \in closed THEN closed \ {mm} ELSE closed \cup {mm}
    /\ UNCHANGED <<rows, makeups, holidays, req, overtaken, work>>

-----------------------------------------------------------------------------
TimesheetInit ==
    /\ work \in Workloads /\ rows = work.rows
    /\ makeups = {} /\ holidays = {} /\ closed = {}
    /\ req = [i \in Calls |-> Idle] /\ overtaken = {}

Periods == {Months} \cup {{mm} : mm \in Months}

Touched(S) == {x \in S : x.asg \in work.asgs}
FewAtOnce  == Cardinality({i \in Calls : req[i] # Idle}) < work.atOnce

Looks(i) ==
    \/ \E a \in work.asgs : GenerateRead(i, a)
    \/ \E e \in work.lines : UpsertNew(i, e, "type") \/ UpsertNew(i, e, "staff")
    \/ \E q \in rows, e \in work.lines :
          UpsertEdit(i, q, e) \/ StaffUpsert(i, q, e) \/ LecturerAdjust(i, q, e)
    \/ \E q \in rows : DeleteLook(i, q) \/ LecturerCut(i, q)
    \/ \E a \in work.asgs, ms \in Periods : Submit(i, a, ms) \/ Approve(i, a, ms)
    \/ \E m \in Touched(Moves) : AddMakeup(i, m) \/ WaiveMakeup(i, m)
    \/ \E m \in makeups : DeleteMakeup(i, m)
    \/ \E h \in Closures : HolidayCreate(i, h)
    \/ \E a \in work.asgs, ms \in Periods : Reject(i, a, ms)

Ends(i) ==
    \/ Generate(i) \/ Insert(i) \/ Edit(i) \/ Delete(i) \/ StaffEdit(i) \/ StaffCorrect(i)
    \/ Adjust(i) \/ Cut(i) \/ Send(i) \/ ApproveRows(i) \/ Commit(i)
    \/ File(i) \/ Waive(i) \/ Unfile(i) \/ Declare(i) \/ Drop(i)

TimesheetNext ==
    \/ \E i \in Calls : (FewAtOnce /\ req[i] = Idle /\ Looks(i)) \/ Ends(i)
    \/ \E h \in holidays : HolidayDelete(h)
    \/ \E mm \in Months : CloseMonth(mm)

TimesheetSpec == TimesheetInit /\ [][TimesheetNext]_tsVars

-----------------------------------------------------------------------------
(* What a request carries, by its operation.                                *)
Asked(q) ==
    /\ q.op \in {"generate", "submit", "approve"} => q.asg \in Asgs
    /\ q.op \in {"new", "edit", "staff", "adjust"} => q.line \in work.lines
    /\ q.op \in {"new", "edit", "staff"} => q.line.act \in Info[q.line.asg].kinds
    /\ q.op \in {"edit", "staff"} => \A x \in q.ids : x[1] = q.line.asg
    /\ q.op \in {"file", "waive", "unfile"} => q.filing \in Moves
    /\ \A p \in Puts(q) : OnSheet(p) /\ p.status = "approved"

(* Every row lies within its day, belongs to one of the assignments and has  *)
(* an id of its own, whichever requests made and moved it at once; a period  *)
(* has one makeup or waiver (work_logs, makeup_schedules).                   *)
TimesheetsTypeOK ==
    /\ Keyed(rows) /\ \A r \in rows : OnSheet(r)
    /\ makeups \subseteq Moves /\ \A m, k \in makeups : SamePeriod(m, k) => m = k
    /\ closed \subseteq Months /\ overtaken \subseteq Calls
    /\ \A i \in Calls : Asked(req[i])

(* A gate that commits although what it looked at has changed since.         *)
Overtaken == \E i \in overtaken : Commit(i) \/ Unfile(i) \/ Waive(i)

(* The approved hours of a week stay within what the workload form declared, *)
(* generated makeup rows aside.  However late the others write, only an      *)
(* overtaken approval, correction of an approved row, removal or waiver of a *)
(* makeup can push them over (recheckCapsForApproval, validateOnBehalfWrite, *)
(* DeleteMakeup): no generation, typing, sending, sending back, lecturer's   *)
(* correction or filing can.                                                 *)
WeekQuotaHeld == \A a \in Asgs : WeeksHold(a, Has(rows, {"approved"}))
WeekQuotaKept == [][WeekQuotaHeld /\ ~Overtaken => WeekQuotaHeld']_<<rows, makeups>>

(* What is approved for a day, over all courses, stays within the day's pay, *)
(* rows of special sections aside: their price falls while a regular copy is *)
(* in review and rises again when only the copy is sent back.  Again nothing *)
(* but an overtaken gate can break it                                        *)
(* (recheckDailyBahtForApproval, enforceDailyBahtCap).                       *)
DayPayHeld == \A d \in Days :
    Baht({r \in OnDay(Has(rows, {"approved"}), d) : Info[r.asg].regular}) <= DayBaht
DayPayKept == [][DayPayHeld /\ ~Overtaken => DayPayHeld']_<<rows, makeups>>

(* "an approved row may not overlap another approved row of the same TA in a *)
(* DIFFERENT course": the rows approved, and those about to be, share no     *)
(* minute across courses, unless two of their transactions are open at once, *)
(* when neither's trigger sees the other's rows; however stale the looks     *)
(* (refuse_cross_course_double_pay, findSetOverlap).                         *)
Billed      == Has(rows, {"approved"}) \cup UNION {Puts(req[i]) : i \in Calls}
BilledOnce  == \A r, s \in Billed : ~Across(r, s)
Crossing    == \E i, j \in Calls : i # j /\ req[i].op = "written" /\ req[j].op = "written"
HoursPaidOnce == [][BilledOnce /\ ~Crossing' => BilledOnce']_tsVars

(* What those two open transactions can leave behind: one minute of the TA   *)
(* approved in two courses (migration 0131's rule, as stated).               *)
NoCrossCoursePay == \A r, s \in Has(rows, {"approved"}) : ~Across(r, s)

(* A Generate about to write while nothing it read has changed.              *)
Undisturbed(i) == req[i].op = "generate" /\ req[i].view = View

(* "so generation can never mint a row the approval-time recheck would then  *)
(* reject for a reason the TA had no way to see coming": were everything the *)
(* TA holds sent, an undisturbed Generate leaves no cap broken that its rows *)
(* did not find broken.                                                      *)
AsSent(S) == {IF r.status = "draft" THEN [r EXCEPT !.status = "submitted"] ELSE r : r \in S}
GeneratedPasses ==
    [][\A i \in Calls : Undisturbed(i) /\ Generate(i) =>
         LET a    == req[i].asg
             kept == rows \ Wiped(req[i].view, a, rows)
         IN  CapsHold(a, {}, AsSent(kept)) =>
                 CapsHold(a, AsSent(rows' \ kept), AsSent(rows'))]_tsVars

(* Generating again changes nothing when nothing else changed: no drift, no  *)
(* hour counted against itself (Generate's wipe and its totals).             *)
RegenerationStable ==
    [][\A i \in Calls : Undisturbed(i) /\ Generate(i) =>
         Outcome([req[i].view EXCEPT !.rows = rows'], req[i].asg, rows') = rows']_tsVars

(* "A makeup REPLACES the original sitting": a class that was moved to       *)
(* another day or waived is not paid on the day it did not take place        *)
(* (insertMakeup, WaiveMakeup, Submit).                                      *)
CancelledNotPaid ==
    \A m \in makeups : m.to # m.day =>
        Sitting(m, {"approved"}) = {} \/ \E k \in makeups : k.asg = m.asg /\ k.to = m.day
=============================================================================
