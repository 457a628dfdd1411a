----------------------------- MODULE TARequests -----------------------------
(***************************************************************************)
(* The life of the teaching-assistant requests of one term.                *)
(*                                                                         *)
(* A lecturer files one request per TA.  It is judged at once when the TA  *)
(* has a timetable and otherwise rests in "submitted" until the timetable  *)
(* arrives; every later timetable can trim, drop or give back sections,    *)
(* reject an approved request and reinstate one rejected for a clash.      *)
(* Lecturers cancel and add sections meanwhile, a sweep finishes what was  *)
(* missed and splits the old requests that named several TAs, and the      *)
(* lecturer is told the verdicts of one submission together.               *)
(*                                                                         *)
(* The grain is that of the locks: a transaction that reads what its own   *)
(* locks do not protect is two steps, one that reads and decides and one   *)
(* that commits, and in between others see the rows as they were.          *)
(***************************************************************************)
EXTENDS Naturals, FiniteSets

CONSTANTS
    TAs, Courses, Sections,
    CourseOf,    \* the course of a section
    Overlaps,    \* pairs of sections that meet at once, one of them in a lab
    Timetables,  \* what a TA can file: how each section clashes with it
    Unfiled,     \* no timetable yet
    Reqs,        \* request ids, used and not yet used
    Nobody,      \* the NULL of an id
    Caps,        \* what pay_rates.max_courses_per_student can be
    Legacy,      \* what the first request may be at the start
    Duties,      \* what a form can declare: <<within the workload rule, off-slot hours>>
    Procs,       \* API calls that may be in flight at once
    Sweeper,     \* the scheduler's hourly sweep, when it is one of Procs
    Ops          \* the operations of a run (a bound)

Clashes  == {"none", "some", "all"}
Statuses == {"none", "submitted", "approved", "rejected", "cancelled"}
AsgStates == {"none", "active", "trimmed", "dropped"}
OpNames  == {"create", "finalize", "timetable", "cancel", "add", "duties",
             "split", "log", "issue", "day", "crash"}
Stages   == {"idle", "filing", "decide", "write", "hush", "tell", "mark",
             "refiled", "listed", "recheck"}

Papers   == {"order", "export"}

(* An assignment of a request: a TA and a section. *)
Pairs == TAs \X Sections

(* A ta_requests row with its assignments.  why: the reason of a rejection,   *)
(* "clash" for clashRejectReason.  told: lecturer_notified_at is set.  sound: *)
(* the declared hours pass the workload rule.  off: duties outside the        *)
(* sessions were declared.  cut: the assignments with a pre_clash snapshot.   *)
Row == [status : Statuses, course : Courses \cup {Nobody}, batch : Reqs \cup {Nobody},
        why : {"", "rules", "clash"}, told : BOOLEAN, sound : BOOLEAN,
        off : BOOLEAN, asg : [Pairs -> AsgStates], cut : SUBSET Pairs]

Blank == [status |-> "none", course |-> Nobody, batch |-> Nobody, why |-> "",
          told |-> FALSE, sound |-> TRUE, off |-> FALSE,
          asg |-> [k \in Pairs |-> "none"], cut |-> {}]

(* A trimmed or dropped assignment is one whose snapshot is kept. *)
Remembered(rec) == rec.cut = {k \in Pairs : rec.asg[k] \in {"trimmed", "dropped"}}

ASSUME ConstantsAssumption ==
    /\ TAs \subseteq Nat /\ Reqs \subseteq Nat /\ Nobody \notin Nat
    /\ IsFiniteSet(TAs) /\ IsFiniteSet(Reqs)
    /\ CourseOf \in [Sections -> Courses]
    /\ Timetables \subseteq [Sections -> Clashes] /\ Unfiled \notin Timetables
    /\ Legacy \subseteq Row /\ \A rec \in Legacy : Remembered(rec)
    /\ Duties \subseteq BOOLEAN \X BOOLEAN
    /\ Caps \subseteq Nat /\ Ops \subseteq OpNames

VARIABLES
    req,      \* the committed requests
    cap,      \* pay_rates.max_courses_per_student, the version in force
    table,    \* the timetable of each TA
    logged,   \* the assignments with work logs
    issued,   \* what was issued for a TA and a course: an order, or an export
    overdue,  \* the submissions sent more than 24 hours ago
    heard,    \* how many digests have told the lecturer of a request
    proc      \* what each call is doing, and its open transaction

vars == <<req, cap, table, logged, issued, overdue, heard, proc>>

(* to: where the call goes on after its transaction.  todo: requests it has   *)
(* listed.  quiet: verdicts after a split, told only when they approve.       *)
(* rows, locks: the request rows and the per-TA advisory locks it holds.      *)
(* work: the rows it has written and not committed, Blank for the others.     *)
Proc == [at : Stages, to : Stages, on : Reqs \cup {Nobody}, ta : TAs \cup {Nobody},
         course : Courses \cup {Nobody}, secs : SUBSET Sections, left : SUBSET TAs,
         todo : SUBSET Reqs, quiet : BOOLEAN, rows : SUBSET Reqs, locks : SUBSET TAs,
         work : [Reqs -> Row]]

NoWork == [r \in Reqs |-> Blank]
Idle   == [at |-> "idle", to |-> "idle", on |-> Nobody, ta |-> Nobody,
           course |-> Nobody, secs |-> {}, left |-> {}, todo |-> {}, quiet |-> FALSE,
           rows |-> {}, locks |-> {}, work |-> NoWork]

-----------------------------------------------------------------------------
(* Reading the tables.                                                      *)
Least(S) == CHOOSE x \in S : \A y \in S : x <= y

Written(i) == {r \in Reqs : proc[i].work[r].status # "none"}

(* What the transaction of i sees: committed rows and its own. *)
View(i) == [r \in Reqs |-> IF r \in Written(i) THEN proc[i].work[r] ELSE req[r]]

LiveStatus   == {"submitted", "approved"}
Held(rec)    == {k \in Pairs : rec.asg[k] \in {"active", "trimmed"}}
OnIt(rec)    == {k \in Pairs : rec.asg[k] # "none"}
Staff(rec)   == {k[1] : k \in OnIt(rec)}
Holds(rec, t) == \E k \in Held(rec) : k[1] = t

RowFree(i, r)   == \A j \in Procs \ {i} : r \notin proc[j].rows
LocksNotTaken(i, T) == i \in Procs /\ T \subseteq TAs
LocksFree(i, T) == \A j \in Procs \ {i} : proc[j].locks \cap T = {}

(* Ids no request has: not committed, not being inserted. *)
Fresh == {r \in Reqs : req[r].status = "none" /\ \A j \in Procs : r \notin Written(j)}
Owed  == {x \in Procs \X TAs : x[2] \in proc[x[1]].left}
Room(n) == Cardinality(Fresh) >= Cardinality(Owed) + n

AlreadyActive(t, c) ==
    \E r \in Reqs : /\ req[r].course = c /\ req[r].status \in LiveStatus
                    /\ Holds(req[r], t)

(* reservedCourseCount: the other courses whose quota the TA takes. *)
Reserved(v, t, c) ==
    {d \in Courses \ {c} : \E r \in Reqs : /\ v[r].course = d /\ v[r].status \in LiveStatus
                                           /\ Holds(v[r], t)}
UnderCap(v, t, c) == Cardinality(Reserved(v, t, c)) < cap

CrossConflictWithWaiting(v, r, t, s) ==
    \E q \in Reqs \ {r} : /\ v[q].status = "submitted" /\ v[q].course # v[r].course
                          /\ \E k \in OnIt(v[q]) : k[1] = t /\ <<s, k[2]>> \in Overlaps

(* checkCrossRequestConflict: dropped assignments are not left out. *)
CrossConflict(v, r, t, s) ==
    \E q \in Reqs \ {r} : /\ v[q].status = "approved" /\ v[q].course # v[r].course
                          /\ \E k \in OnIt(v[q]) : k[1] = t /\ <<s, k[2]>> \in Overlaps

Filed(rec) == \A k \in Held(rec) : table[k[1]] # Unfiled

-----------------------------------------------------------------------------
(* The clash rule.                                                          *)
Clash(k) == IF table[k[1]] = Unfiled THEN "none" ELSE table[k[1]][k[2]]

(* The assignments applyClashOutcomeFor looks at. *)
Judged(rec, T, again) ==
    {k \in OnIt(rec) : k[1] \in T /\ (rec.asg[k] # "dropped" \/ (again /\ k \in rec.cut))}

(* restoreFromClash: a dropped one comes back only under the course cap. *)
Restored(v, r, T) ==
    {k \in Judged(v[r], T, TRUE) :
        /\ Clash(k) = "none" /\ k \in v[r].cut /\ v[r].asg[k] # "active"
        /\ v[r].asg[k] = "dropped" => UnderCap(v, k[1], v[r].course)}

(* Every session clashes and nothing outside them was declared; a recheck    *)
(* spares an assignment that has hours.                                      *)
Lost(rec, r, k, again) == /\ Clash(k) = "all" /\ ~rec.off
                          /\ ~(again /\ <<r, k>> \in logged)

CutForgotten(v, r, T, again) ==
    LET rec  == v[r]
        hit  == {k \in Judged(rec, T, again) : Clash(k) # "none"}
    IN  [rec EXCEPT !.asg = [k \in Pairs |->
                                IF k \in hit
                                THEN IF Lost(rec, r, k, again) THEN "dropped" ELSE "trimmed"
                                ELSE rec.asg[k]],
                    !.cut = IF again THEN rec.cut ELSE rec.cut \cup hit]

Cut(v, r, T, again) ==
    LET rec  == v[r]
        hit  == {k \in Judged(rec, T, again) : Clash(k) # "none"}
        back == IF again THEN Restored(v, r, T) ELSE {}
    IN  [rec EXCEPT !.asg = [k \in Pairs |->
                                IF k \in hit
                                THEN IF Lost(rec, r, k, again) THEN "dropped" ELSE "trimmed"
                                ELSE IF k \in back THEN "active" ELSE rec.asg[k]],
                    !.cut = (rec.cut \cup hit) \ back]

-----------------------------------------------------------------------------
Decided(rec, status, why) == [rec EXCEPT !.status = status, !.why = why]

TAPassesTwice(v, r, t) == table[t] # Unfiled /\ UnderCap(v, t, v[r].course)

(* autoDecide: the rules about a TA, the other rules of a request being       *)
(* warnings, and the rules about a section.                                   *)
TAPasses(v, r, t) ==
    /\ table[t] # Unfiled
    /\ \A q \in Reqs \ {r} : ~(/\ v[q].course = v[r].course
                               /\ v[q].status \in LiveStatus /\ Holds(v[q], t))
    /\ UnderCap(v, t, v[r].course)

Passes(v, r) ==
    /\ v[r].sound
    /\ \A t \in Staff(v[r]) : TAPasses(v, r, t)
    /\ \A k \in OnIt(v[r]) : ~CrossConflict(v, r, k[1], k[2])

Verdict(v, r) ==
    LET cut == Cut(v, r, TAs, FALSE)
        w   == [v EXCEPT ![r] = cut]
    IN  IF Held(cut) = {} THEN Decided(cut, "rejected", "clash")
        ELSE IF Passes(w, r) THEN Decided(cut, "approved", "")
        ELSE Decided(cut, "rejected", "rules")

-----------------------------------------------------------------------------
(* Steps of a call.                                                         *)
Become(i, p)  == proc' = [proc EXCEPT ![i] = p]
Released(i)   == [proc[i] EXCEPT !.rows = {}, !.locks = {}, !.work = NoWork]
Done(i)       == IF proc[i].to = "idle" THEN Idle
                 ELSE [Released(i) EXCEPT !.at = proc[i].to, !.on = Nobody]
(* A call whose transaction has written one row under its lock. *)
Writing(r, w) == [Idle EXCEPT !.at = "write", !.on = r, !.rows = {r}, !.work[r] = w]
TablesKept    == UNCHANGED <<req, cap, table, logged, issued, overdue, heard>>

CreateCheck(i) ==
    /\ "create" \in Ops /\ i # Sweeper /\ proc[i] = Idle
    /\ \E T \in (SUBSET TAs) \ {{}}, c \in Courses :
         \E S \in (SUBSET {s \in Sections : CourseOf[s] = c}) \ {{}} :
            /\ \A t \in T : ~AlreadyActive(t, c)
            /\ Room(Cardinality(T))
            /\ Become(i, [Idle EXCEPT !.at = "filing", !.left = T, !.course = c, !.secs = S])
    /\ TablesKept

(* The next TA of the submission, in id order: its request is inserted and,  *)
(* if the TA has a timetable, judged under the TA's advisory lock.           *)
FileOne(i) ==
    /\ proc[i].at = "filing" /\ proc[i].left # {} /\ Fresh # {}
    /\ LET t == Least(proc[i].left)
           r == Least(Fresh)
           b == Least(Written(i) \cup {r})
       IN  \E d \in Duties :
             LET new  == [Blank EXCEPT !.status = "submitted", !.course = proc[i].course,
                              !.batch = b, !.sound = d[1], !.off = d[2],
                              !.asg = [k \in Pairs |-> IF k[1] = t /\ k[2] \in proc[i].secs
                                                       THEN "active" ELSE "none"]]
                 v    == [View(i) EXCEPT ![r] = new]
             IN  IF table[t] = Unfiled
                 THEN Become(i, [proc[i] EXCEPT !.left = @ \ {t}, !.work[r] = new])
                 ELSE /\ LocksFree(i, {t})
                      /\ Become(i, [proc[i] EXCEPT !.left = @ \ {t}, !.locks = @ \cup {t},
                                                   !.work[r] = Verdict(v, r)])
    /\ TablesKept

(* The submission commits; the digest of its batch is then looked at. *)
CreateCommit(i) ==
    /\ proc[i].at = "filing" /\ proc[i].left = {}
    /\ req' = View(i)
    /\ Become(i, [Idle EXCEPT !.at = "tell", !.on = Least(Written(i))])
    /\ UNCHANGED <<cap, table, logged, issued, overdue, heard>>

-----------------------------------------------------------------------------
(* finalize: the timetable check is made on the pool; the status is read     *)
(* again under the row lock.                                                 *)
SweepFinalize(i) ==
    /\ "finalize" \in Ops /\ i = Sweeper /\ proc[i] = Idle
    /\ \E r \in Reqs : /\ req[r].status = "submitted" /\ Filed(req[r])
                       /\ Become(i, [Idle EXCEPT !.at = "decide", !.on = r])
    /\ TablesKept

ListedFinalize(i) ==
    /\ proc[i].at = "refiled"
    /\ \E r \in proc[i].todo :
         LET p == [proc[i] EXCEPT !.todo = @ \ {r}]
         IN  Become(i, IF Filed(req[r])
                       THEN [p EXCEPT !.at = "decide", !.to = "refiled", !.on = r] ELSE p)
    /\ TablesKept

OpenBefore(r) == req[r].status # "none"
Open(r)       == req[r].status = "submitted"

FinalizeJudge(i) ==
    LET r == proc[i].on IN
    /\ proc[i].at = "decide" /\ RowFree(i, r)
    /\ IF ~Open(r) THEN Become(i, Done(i))
       ELSE /\ LocksFree(i, Staff(req[r]))
            /\ Become(i, [proc[i] EXCEPT !.at = "write", !.rows = {r}, !.locks = Staff(req[r]),
                                         !.work[r] = Verdict(req, r)])
    /\ TablesKept

(* The commit of a transaction that decided one request. *)
Commit(i) ==
    LET r == proc[i].on
        w == proc[i].work[r]
    IN
    /\ proc[i].at = "write"
    /\ req' = View(i)
    /\ Become(i, [Released(i) EXCEPT
                    !.at = IF w.status = req[r].status \/ w.status = "cancelled" THEN Done(i).at
                           ELSE IF proc[i].quiet /\ w.status # "approved" THEN "hush" ELSE "tell",
                    !.on = IF w.status = req[r].status \/ w.status = "cancelled" THEN Done(i).on
                           ELSE IF proc[i].quiet /\ w.status # "approved" THEN r
                           ELSE w.batch])
    /\ UNCHANGED <<cap, table, logged, issued, overdue, heard>>

(* A verdict the TA was already given under the old request. *)
Hush(i) ==
    /\ proc[i].at = "hush" /\ RowFree(i, proc[i].on)
    /\ req' = [req EXCEPT ![proc[i].on].told = TRUE]
    /\ Become(i, Done(i))
    /\ UNCHANGED <<cap, table, logged, issued, overdue, heard>>

-----------------------------------------------------------------------------
(* The digest of a submission.                                              *)
Batch(b)   == {r \in Reqs : req[r].batch = b}
Untold(b)  == {r \in Batch(b) : req[r].status \in {"approved", "rejected"} /\ ~req[r].told}
DueWhenDecided(b) == Untold(b) # {} /\ \A r \in Batch(b) : req[r].status # "submitted"
Due(b)     == /\ Untold(b) # {}
              /\ \/ \A r \in Batch(b) : req[r].status # "submitted"
                 \/ \E r \in Batch(b) : req[r].status \in {"approved", "rejected"} /\ req[r].told
                 \/ b \in overdue

SweepDigest(i) ==
    /\ i = Sweeper /\ proc[i] = Idle
    /\ \E b \in Reqs : Due(b) /\ Become(i, [Idle EXCEPT !.at = "tell", !.on = b])
    /\ TablesKept

BatchUnlocked(i, b) == i \in Procs /\ Batch(b) # {}
BatchFree(i, b)     == \A r \in Batch(b) : RowFree(i, r)

FlushRead(i) ==
    LET b == proc[i].on IN
    /\ proc[i].at = "tell"
    /\ IF b = Nobody \/ ~Due(b) THEN Become(i, Done(i))
       ELSE /\ BatchFree(i, b)
            /\ Become(i, [proc[i] EXCEPT !.at = "mark", !.rows = Batch(b),
                            !.work = [r \in Reqs |-> IF r \in Untold(b) THEN [req[r] EXCEPT !.told = TRUE]
                                                                   ELSE Blank]])
    /\ TablesKept

(* The marks commit, then the one notice goes out. *)
FlushMark(i) ==
    /\ proc[i].at = "mark"
    /\ req' = View(i)
    /\ heard' = [r \in Reqs |-> IF r \in Written(i) THEN heard[r] + 1 ELSE heard[r]]
    /\ Become(i, Done(i))
    /\ UNCHANGED <<cap, table, logged, issued, overdue>>

-----------------------------------------------------------------------------
(* ScheduleLockedReason: a payout document of the term names the TA. *)
ScheduleLocked(t) == \E c \in Courses : <<t, c, "export">> \in issued

(* A timetable is saved; ReevaluateForTA then runs outside that transaction. *)
SaveTimetable(i) ==
    /\ "timetable" \in Ops /\ i # Sweeper /\ proc[i] = Idle
    /\ \E t \in TAs : \E tt \in (Timetables \cup {Unfiled}) \ {table[t]} :
         /\ ~ScheduleLocked(t)
         /\ table' = [table EXCEPT ![t] = tt]
         /\ Become(i, [Idle EXCEPT !.at = "listed", !.to = "refiled", !.ta = t])
    /\ UNCHANGED <<req, cap, logged, issued, overdue, heard>>

ListSubmitted(i) ==
    /\ proc[i].at = "listed"
    /\ Become(i, [proc[i] EXCEPT !.at = "refiled",
                    !.todo = {r \in Reqs : req[r].status = "submitted" /\ proc[i].ta \in Staff(req[r])}])
    /\ TablesKept

ListDecided(i) ==
    /\ proc[i].at = "refiled" /\ proc[i].todo = {}
    /\ Become(i, IF proc[i].ta = Nobody THEN Idle
                 ELSE [proc[i] EXCEPT !.at = "recheck", !.to = "recheck",
                         !.todo = {r \in Reqs :
                            /\ \/ req[r].status = "approved"
                               \/ req[r].status = "rejected" /\ req[r].why = "clash"
                            /\ \E k \in OnIt(req[r]) : /\ k[1] = proc[i].ta
                                                       /\ k \in Held(req[r]) \cup req[r].cut}])
    /\ TablesKept

RecheckNext(i) ==
    /\ proc[i].at = "recheck"
    /\ IF proc[i].todo = {} THEN Become(i, Idle)
       ELSE \E r \in proc[i].todo :
              /\ RowFree(i, r)
              /\ LET rec == Cut(req, r, {proc[i].ta}, TRUE)
                     out == IF Held(rec) = {} THEN Decided(rec, "rejected", "clash")
                                              ELSE Decided(rec, "approved", "")
                     p   == [proc[i] EXCEPT !.todo = @ \ {r}]
                     open == \/ req[r].status = "approved"
                             \/ req[r].status = "rejected" /\ req[r].why = "clash"
                 IN  Become(i, IF open /\ rec.asg # req[r].asg
                               THEN [p EXCEPT !.at = "write", !.on = r, !.rows = {r}, !.work[r] = out]
                               ELSE p)
    /\ TablesKept

-----------------------------------------------------------------------------
CancelledUnlisted(rec) == [rec EXCEPT !.status = "withdrawn"]
Cancelled(rec)         == Decided(rec, "cancelled", "")

(* Cancel: nothing logged, nothing issued. *)
CancelJudge(i) ==
    /\ "cancel" \in Ops /\ i # Sweeper /\ proc[i] = Idle
    /\ \E r \in Reqs :
         /\ RowFree(i, r) /\ req[r].status \in LiveStatus
         /\ \A k \in Pairs : <<r, k>> \notin logged
         /\ \A t \in Staff(req[r]), p \in Papers : <<t, req[r].course, p>> \notin issued
         /\ Become(i, Writing(r, Cancelled(req[r])))
    /\ TablesKept

(* AddSections: a section for a TA already on the request. *)
Addable(r, k) ==
    /\ req[r].status \in LiveStatus
    /\ Holds(req[r], k[1]) /\ CourseOf[k[2]] = req[r].course
    /\ \A q \in Reqs : ~(/\ req[q].course = req[r].course
                         /\ req[q].status \in LiveStatus /\ k \in Held(req[q]))
    /\ req[r].asg[k] = "none"
    /\ ~CrossConflict(req, r, k[1], k[2])

AddSections(i) ==
    /\ "add" \in Ops /\ i # Sweeper /\ proc[i] = Idle
    /\ \E r \in Reqs, k \in Pairs :
         LET new == [req EXCEPT ![r].asg[k] = "active"]
         IN
         /\ RowFree(i, r) /\ Addable(r, k)
         /\ Become(i, Writing(r, IF req[r].status = "approved" /\ Filed(new[r])
                              THEN Cut(new, r, {k[1]}, TRUE) ELSE new[r]))
    /\ TablesKept

(* UpdateAssignmentWorkload: the duties change, the verdict does not; it      *)
(* waits for a transaction that has written the assignment.                  *)
SetDuties(r) ==
    /\ "duties" \in Ops /\ OnIt(req[r]) # {}
    /\ \A j \in Procs : r \notin Written(j)
    /\ req' = [req EXCEPT ![r].off = ~@]
    /\ UNCHANGED <<cap, table, logged, issued, overdue, heard, proc>>

(* SplitLegacyRequests: an undecided or system-rejected request of several. *)
Splittable(r) ==
    /\ req[r].batch = Nobody /\ req[r].status \in {"submitted", "rejected"}
    /\ Cardinality(Staff(req[r])) > 1

(* What one TA keeps of the request of several: waiting again, by itself. *)
Part(old, r, t) ==
    [old EXCEPT !.status = "submitted", !.why = "", !.batch = r, !.told = FALSE,
                !.asg = [k \in Pairs |-> IF k[1] = t THEN old.asg[k] ELSE "none"],
                !.cut = {k \in old.cut : k[1] = t}]

(* splitLegacy, under the row lock, then the verdict of each part. *)
SplitLegacy(i) ==
    /\ "split" \in Ops /\ i = Sweeper /\ proc[i] = Idle
    /\ \E r \in Reqs :
         LET old   == req[r]
             first == Least(Staff(old))
             rest  == Staff(old) \ {first}
         IN
         /\ RowFree(i, r) /\ Splittable(r) /\ Room(Cardinality(rest))
         /\ \E ids \in [rest -> Fresh] :
              /\ \A t, u \in rest : ids[t] = ids[u] => t = u
              /\ req' = [q \in Reqs |-> IF q = r THEN Part(old, r, first)
                                        ELSE IF \E t \in rest : ids[t] = q
                                        THEN Part(old, r, CHOOSE t \in rest : ids[t] = q)
                                        ELSE req[q]]
              /\ Become(i, [Idle EXCEPT !.at = "refiled", !.quiet = TRUE,
                              !.todo = {r} \cup {ids[t] : t \in rest}])
    /\ UNCHANGED <<cap, table, logged, issued, overdue, heard>>

-----------------------------------------------------------------------------
(* Around the requests: work is logged, documents are issued, a day passes.  *)
LogWork(r, k) ==
    /\ "log" \in Ops /\ req[r].status = "approved" /\ k \in Held(req[r])
    /\ logged' = logged \cup {<<r, k>>}
    /\ UNCHANGED <<req, cap, table, issued, overdue, heard, proc>>

Issue(t, c, p) ==
    /\ "issue" \in Ops
    /\ \E r \in Reqs : req[r].status = "approved" /\ req[r].course = c /\ Holds(req[r], t)
    /\ issued' = issued \cup {<<t, c, p>>}
    /\ UNCHANGED <<req, cap, table, logged, overdue, heard, proc>>

Day(b) ==
    /\ "day" \in Ops /\ Batch(b) # {}
    /\ overdue' = overdue \cup {b}
    /\ UNCHANGED <<req, cap, table, logged, issued, heard, proc>>

(* A call dies: its transaction rolls back, the rest of its work is not done. *)
Crash(i) ==
    /\ "crash" \in Ops /\ i # Sweeper /\ proc[i] # Idle
    /\ Become(i, Idle)
    /\ TablesKept

-----------------------------------------------------------------------------
Init ==
    /\ \E rec \in Legacy : req = [r \in Reqs |-> IF r = Least(Reqs) THEN rec ELSE Blank]
    /\ cap \in Caps
    /\ table \in [TAs -> Timetables \cup {Unfiled}]
    /\ logged = {} /\ issued = {} /\ overdue = {}
    /\ heard = [r \in Reqs |-> 0]
    /\ proc = [i \in Procs |-> Idle]

(* The next step of a call under way. *)
Proceed(i) ==
    \/ FileOne(i) \/ CreateCommit(i)
    \/ ListedFinalize(i) \/ FinalizeJudge(i) \/ Commit(i) \/ Hush(i)
    \/ FlushRead(i) \/ FlushMark(i)
    \/ ListSubmitted(i) \/ ListDecided(i) \/ RecheckNext(i)

Begin(i) ==
    \/ CreateCheck(i) \/ SaveTimetable(i) \/ CancelJudge(i) \/ AddSections(i)
    \/ SweepFinalize(i) \/ SweepDigest(i) \/ SplitLegacy(i)

Around ==
    \/ \E r \in Reqs : SetDuties(r)
    \/ \E r \in Reqs, k \in Pairs : LogWork(r, k)
    \/ \E t \in TAs, c \in Courses, p \in Papers : Issue(t, c, p)
    \/ \E b \in Reqs : Day(b)
    \/ \E i \in Procs : Crash(i)

Next == (\E i \in Procs : Begin(i) \/ Proceed(i)) \/ Around

Spec == Init /\ [][Next]_vars

(* A call under way goes on, and one that waits for a row or an advisory lock *)
(* gets its turn (PostgreSQL queues the waiters); the scheduler sweeps for    *)
(* ever; a day passes.                                                        *)
FairSpec ==
    /\ Spec
    /\ \A i \in Procs : SF_vars(Proceed(i))
    /\ WF_vars(SweepFinalize(Sweeper)) /\ WF_vars(SweepDigest(Sweeper))
    /\ WF_vars(\E b \in Reqs : Day(b))

-----------------------------------------------------------------------------
TypeOK ==
    /\ req \in [Reqs -> Row] /\ cap \in Caps
    /\ table \in [TAs -> Timetables \cup {Unfiled}]
    /\ logged \subseteq Reqs \X Pairs
    /\ issued \subseteq TAs \X Courses \X Papers
    /\ overdue \subseteq Reqs
    /\ heard \in [Reqs -> Nat]
    /\ proc \in [Procs -> Proc]

(* No TA is approved on more courses of the term than the cap allows,         *)
(* whatever requests for them are being decided at once (autoDecide).         *)
CapHolds ==
    \A t \in TAs :
        Cardinality({c \in Courses : \E r \in Reqs :
            req[r].status = "approved" /\ req[r].course = c /\ Holds(req[r], t)}) <= cap

(* No TA has two approved requests of one course: their hours there would be  *)
(* logged and paid twice (autoDecide's duplicate rule).                       *)
OneApprovedPerCourse ==
    \A q, r \in Reqs : \A t \in TAs :
        (/\ q # r /\ req[q].status = "approved" /\ req[r].status = "approved"
         /\ Holds(req[q], t) /\ Holds(req[r], t)) => req[q].course # req[r].course

(* No TA is appointed to two places at once: sections of two courses that     *)
(* meet together, one of them in a lab (checkCrossRequestConflict).           *)
NoDoubleBooking ==
    \A q, r \in Reqs :
        (req[q].status = "approved" /\ req[r].status = "approved" /\ req[q].course # req[r].course) =>
            \A k \in Held(req[q]), l \in Held(req[r]) :
                k[1] = l[1] => <<k[2], l[2]>> \notin Overlaps

(* A cancelled request stays cancelled and a rejection for the rules is       *)
(* final, whatever verdicts and rechecks were under way when it was reached;  *)
(* only a request from before the split is judged again.                      *)
VerdictsStand ==
    [][\A r \in Reqs :
        (\/ req[r].status = "cancelled"
         \/ req[r].status = "rejected" /\ req[r].why = "rules" /\ req[r].batch # Nobody)
           => req'[r].status = req[r].status]_vars

(* What a clash took can always be given back: an assignment is trimmed or    *)
(* dropped exactly while its pre-clash snapshot is kept, through splits,      *)
(* rechecks, restorations and calls that die (applyClashOutcomeFor).          *)
CutsRemembered ==
    \A r \in Reqs : Remembered(req[r])

(* The lecturer is told the verdict of a request in at most one digest, even  *)
(* when the decision, a timetable and the sweep flush the submission at once. *)
ToldOnce == \A r \in Reqs : heard[r] <= 1

(* No request rests for ever once its TA has a timetable, and every verdict   *)
(* of a submission reaches its digest.                                        *)
RequestsAnswered ==
    \A r \in Reqs :
        /\ []<>(req[r].status # "submitted" \/ ~Filed(req[r]))
        /\ []<>(req[r].status \notin {"approved", "rejected"} \/ req[r].batch = Nobody \/ req[r].told)
=============================================================================
