---------------------------- MODULE PayoutMonths ----------------------------
(***************************************************************************)
(* The payout months of one teaching course.                               *)
(*                                                                         *)
(* A work_logs row goes draft -> submitted -> approved or rejected.  A     *)
(* submission_period_status cell, one per (period, TA) of the course, goes *)
(* pending -> staff_reviewed -> exported -> finance_sent.  TAs, lecturers, *)
(* staff and the ZIP export work on both at once, each request in its own  *)
(* READ COMMITTED transaction; what keeps the two tables in step is a set  *)
(* of row locks, advisory locks, one table lock and two triggers.  This    *)
(* module models the requests at the grain of those locks: a check made on *)
(* the connection pool is a step of its own, a statement is a step that    *)
(* waits for its locks, and a transaction's rows become visible when it    *)
(* commits.                                                                *)
(***************************************************************************)
EXTENDS Naturals, FiniteSets

CONSTANTS
    Rows,      \* work_logs ids, used and not yet used
    Asgs,      \* ta_request_assignments of the course
    Cells,     \* the (period, TA) cells of the course
    Periods,   \* the submission_periods of its term
    Vals,      \* what a row claims: date, clock, hours, activity
    Modes,     \* the settlement modes of the course
    Reqs,      \* requests that may be in flight at once
    Ops,       \* the operations those requests may be (a bound on a run)
    AsgOf,     \* the assignment a row belongs to
    MonthsOf,  \* the cells the rows of an assignment can be dated in
    PeriodOf   \* the period of a cell

RowStates    == {"none", "draft", "submitted", "approved", "rejected", "deleted"}
CellStates   == {"pending", "staff_reviewed", "exported", "finance_sent"}
PeriodStates == {"none", "open", "closed"}
RowRec       == [st : RowStates, cell : Cells, val : Vals]

OpNames == {"upsert", "generate", "clear_drafts", "delete", "staff_delete",
            "submit", "approve", "approve_many", "reject", "staff_upsert",
            "adjust", "cut", "review", "finance", "export", "export_empty",
            "sent_back", "unexport", "settlement", "period", "period_delete"}

Stages  == {"idle", "checked", "snapped", "serial", "ready", "written",
            "counted", "fingerprinted", "gated", "built", "share", "locked",
            "flagged", "listed", "reopened"}

(* A pair <<r, rec>>: row r and what it said when it was read. *)
Versions == Rows \X RowRec

ASSUME ConstantsAssumption ==
    /\ AsgOf \in [Rows -> Asgs]
    /\ MonthsOf \in [Asgs -> SUBSET Cells]
    /\ PeriodOf \in [Cells -> Periods]
    /\ Vals # {} /\ Modes # {} /\ Cells # {}
    /\ \A a \in Asgs : MonthsOf[a] # {}
    /\ Ops \subseteq OpNames

VARIABLES
    work,     \* the committed work_logs rows
    status,   \* the committed submission_period_status of each cell
    period,   \* the submission_periods: absent, open, or closed to submissions
    mode,     \* teaching_courses.settlement_mode
    ledger,   \* export_month_ledger: what the last export of the cell paid
    flagged,  \* teaching_courses.exported_at is set
    req,      \* the request each slot is serving and how far it has come
    held,     \* the locks its transaction holds
    buf       \* the work_logs rows it has written and not committed

dbVars == <<work, status, period, mode, ledger, flagged>>
vars   == <<work, status, period, mode, ledger, flagged, req, held, buf>>

-----------------------------------------------------------------------------
(* Locks.  Every lock is exclusive except the two modes on work_logs, which *)
(* exclude each other and not themselves: LOCK TABLE ... IN SHARE MODE      *)
(* (the export) against ROW EXCLUSIVE (every statement that writes rows).   *)
TableShare   == <<"table", "share">>
TableRowEx   == <<"table", "row exclusive">>
CourseLock   == <<"advisory", "course">>       \* hashtextextended(course, 42)
CourseRow    == <<"course row", "course">>     \* the teaching_courses row
CellLock(c)  == <<"cell", c>>                  \* hashtextextended(cell, 7)
StatusRow(c) == <<"status", c>>                \* the submission_period_status row
RowLock(r)   == <<"work_log", r>>

Locks == {TableShare, TableRowEx, CourseLock, CourseRow}
         \cup {CellLock(c) : c \in Cells}
         \cup {StatusRow(c) : c \in Cells}
         \cup {RowLock(r) : r \in Rows}

Conflict(k, l) == IF k[1] = "table" /\ l[1] = "table" THEN k # l ELSE k = l

(* No other transaction holds a lock that request i would have to wait for. *)
Free(i, L) == \A j \in Reqs \ {i} : \A k \in held[j] : \A l \in L : ~Conflict(k, l)

(* No transaction at all does. *)
Unheld(L) == \A j \in Reqs : \A k \in held[j] : \A l \in L : ~Conflict(k, l)

-----------------------------------------------------------------------------
(* Reading the tables.                                                      *)
Live         == {"draft", "submitted", "approved", "rejected"}
RowsIn(c, S) == {r \in Rows : work[r].cell = c /\ work[r].st \in S}
Approved(c)  == RowsIn(c, {"approved"})

(* The approved claim of a cell: which rows, and what each of them says. *)
Claim(c) == {<<r, work[r]>> : r \in Approved(c)}

Defined(c) == period[PeriodOf[c]] # "none"
Closed(c)  == period[PeriodOf[c]] = "closed"
Locked(c)  == status[c] \in {"exported", "finance_sent"}

(* assertWorklogWritable; a month without a period is unrestricted. *)
Writable(c) == ~Locked(c) /\ ~Closed(c)

(* unsubmittableMonthSQL and outstandingRowSQL: rows somebody can still move. *)
(* A draft or rejected row of a closed month is forfeited, waiting on nobody. *)
Unsubmittable(c) == Closed(c) \/ Locked(c)
Outstanding(c)   == RowsIn(c, {"submitted"})
                    \cup (IF Unsubmittable(c) THEN {} ELSE RowsIn(c, {"draft", "rejected"}))

(* The months a request can name: one period, or none named, meaning all. *)
MonthSets == {{c \in Cells : PeriodOf[c] = p} : p \in Periods} \cup {Cells}

(* The rows of the assignments A dated in the months S. *)
Batch(A, S, St) == {r \in Rows : AsgOf[r] \in A /\ work[r].cell \in S /\ work[r].st \in St}

-----------------------------------------------------------------------------
(* Requests.                                                                *)
NoPack  == [rows |-> {}, mode |-> CHOOSE m \in Modes : TRUE]
NoRow   == [st |-> "none", cell |-> CHOOSE c \in Cells : TRUE,
            val |-> CHOOSE v \in Vals : TRUE]
NoWrite == [r \in Rows |-> NoRow]

(* op and at: the operation and its stage.  asgs, cells, rows: what it is     *)
(* about, or has read.  to: the entry it was asked to write.  seen, pack: an  *)
(* export's fingerprint and the file it built; pack.mode is also the mode a   *)
(* settlement change asks for.  sure: StaffUpsert read the row as approved.   *)
Request == [op : OpNames \cup {"idle"}, at : Stages, asgs : SUBSET Asgs,
            cells : SUBSET Cells, rows : SUBSET Rows, to : RowRec,
            seen : SUBSET Versions, pack : [rows : SUBSET Versions, mode : Modes],
            sure : BOOLEAN]

Idle == [op |-> "idle", at |-> "idle", asgs |-> {}, cells |-> {}, rows |-> {},
         to |-> NoRow, seen |-> {}, pack |-> NoPack, sure |-> FALSE]

New(op, at) == [Idle EXCEPT !.op = op, !.at = at]

(* A request's checks on the pool passed; it holds no lock yet. *)
Begin(i, r) ==
    /\ req[i] = Idle
    /\ r.op \in Ops
    /\ req' = [req EXCEPT ![i] = r]
    /\ UNCHANGED <<dbVars, held, buf>>

(* Mutant: pg_advisory_lock for pg_advisory_xact_lock; a session lock outlives *)
(* the transaction.                                                          *)
FinishKeepingAdvisory(i) ==
    /\ req'  = [req EXCEPT ![i] = Idle]
    /\ held' = [held EXCEPT ![i] = {k \in @ : k[1] \in {"cell", "advisory"}}]
    /\ buf'  = [buf EXCEPT ![i] = NoWrite]

(* The transaction ends, committed or rolled back: its locks go. *)
Finish(i) ==
    /\ req'  = [req EXCEPT ![i] = Idle]
    /\ held' = [held EXCEPT ![i] = {}]
    /\ buf'  = [buf EXCEPT ![i] = NoWrite]

At(i, ops, stage) == req[i].op \in ops /\ req[i].at = stage

(* A new row id: unused, and in no other request's hands. *)
Fresh(r) == work[r].st = "none" /\ \A j \in Reqs : r \notin req[j].rows

Init ==
    /\ work = [r \in Rows |-> NoRow]
    /\ status = [c \in Cells |-> "pending"]
    /\ period = [p \in Periods |-> "open"]
    /\ mode \in Modes
    /\ ledger = [c \in Cells |-> NoPack]
    /\ flagged = FALSE
    /\ req = [i \in Reqs |-> Idle]
    /\ held = [i \in Reqs |-> {}]
    /\ buf = [i \in Reqs |-> NoWrite]

(* A request that fails, is cancelled or loses its connection: PostgreSQL *)
(* rolls its transaction back.                                            *)
Abort(i) == req[i] # Idle /\ Finish(i) /\ UNCHANGED dbVars

-----------------------------------------------------------------------------
(* The row images a statement writes: NoRow where it leaves a row alone.    *)
Rewrite(S, st) == [r \in Rows |-> IF r \in S THEN [work[r] EXCEPT !.st = st] ELSE NoRow]
Entry(S, rec)  == [r \in Rows |-> IF r \in S THEN rec ELSE NoRow]

Written(W) == {r \in Rows : W[r].st # "none"}
Changed(W) == {r \in Written(W) : W[r] # work[r]}

(* Mutant: the trigger looks at NEW.work_date and forgets OLD.work_date. *)
TouchedByNewDate(W) == {W[r].cell : r \in Written(W)}

(* The cells a write concerns: where each row is dated and where it was. *)
Touched(W) == {W[r].cell : r \in Written(W)}
              \cup {work[r].cell : r \in {s \in Written(W) : work[s].st \in Live}}

(* refuse_worklog_write_in_locked_month, BEFORE INSERT OR UPDATE: a delete *)
(* passes, every other change must keep clear of locked months.            *)
Refused(W) ==
    \E r \in Changed(W) :
        /\ W[r].st # "deleted"
        /\ \/ Locked(W[r].cell)
           \/ work[r].st \in Live /\ Locked(work[r].cell)

(* Mutant: the UPDATE lost its "status IN ('draft', 'rejected')". *)
UpsertAnyRow(i) ==
    Entry({r \in req[i].rows : work[r].st # "deleted"}, [req[i].to EXCEPT !.st = "draft"])

UpsertRows(i) ==
    LET editable == {r \in req[i].rows : work[r].st \in {"none", "draft", "rejected"}}
    IN  Entry(editable, [req[i].to EXCEPT !.st = "draft"])

(* The wipe of the drafts outside the blocked months, then the INSERT of new ones. *)
GenerateRows(i) ==
    LET wiped == Batch(req[i].asgs, req[i].cells, {"draft"})
    IN  [r \in Rows |-> IF r \in req[i].rows /\ work[r].st = "none"
                        THEN [req[i].to EXCEPT !.st = "draft"]
                        ELSE Rewrite(wiped, "deleted")[r]]

ClearRows(i) ==
    Rewrite({r \in Batch(req[i].asgs, req[i].cells, {"draft"}) : work[r].val = req[i].to.val},
            "deleted")

DeleteRows(i) == Rewrite({r \in req[i].rows : work[r].st \in {"draft", "rejected"}}, "deleted")

SubmitRows(i) ==
    Rewrite({r \in Batch(req[i].asgs, req[i].cells, {"draft", "rejected"}) :
                ~Unsubmittable(work[r].cell) /\ Defined(work[r].cell)}, "submitted")

(* Mutant: the rows listed for the audit entry are approved by id. *)
ApproveListedRows(i) == Rewrite(req[i].rows, "approved")

ApproveRows(i) == Rewrite(Batch(req[i].asgs, req[i].cells, {"submitted"}), "approved")
RejectRows(i)  == Rewrite(Batch(req[i].asgs, req[i].cells, {"submitted"}), "rejected")

(* Mutant: the upsert lost its "status <> 'approved' OR $11". *)
StaffUpsertAnyRow(i) ==
    [r \in Rows |->
        IF r \notin req[i].rows \/ work[r].st = "deleted" THEN NoRow
        ELSE [req[i].to EXCEPT !.st = IF work[r].st = "none" THEN "draft" ELSE work[r].st]]

StaffUpsertRows(i) ==
    [r \in Rows |->
        IF r \notin req[i].rows \/ work[r].st = "deleted" THEN NoRow
        ELSE IF work[r].st = "none" THEN [req[i].to EXCEPT !.st = "draft"]
        ELSE IF req[i].sure \/ work[r].st # "approved"
             THEN [req[i].to EXCEPT !.st = work[r].st]
             ELSE NoRow]

AdjustRows(i) ==
    [r \in Rows |-> IF r \in req[i].rows /\ work[r].st = "submitted"
                    THEN [work[r] EXCEPT !.val = req[i].to.val] ELSE NoRow]

CutRows(i) == Rewrite({r \in req[i].rows : work[r].st = "submitted"}, "deleted")

(* What a send-back rejects: every row of the month a lecturer has or had. *)
Opened(i)     == {c \in Cells : CellLock(c) \in held[i]}
(* Mutant: a send-back that forgets the rows the lecturer has approved. *)
ReopenSubmittedRows(i) ==
    Rewrite({r \in Rows : work[r].cell \in Opened(i) /\ work[r].st = "submitted"}, "rejected")

ReopenRows(i) == Rewrite({r \in Rows : /\ work[r].cell \in Opened(i)
                                       /\ work[r].st \in {"approved", "submitted"}}, "rejected")

Reopens == {"sent_back", "unexport"}
Exports == {"export", "export_empty"}
Writes  == {"upsert", "generate", "clear_drafts", "delete", "staff_delete", "submit",
            "approve", "approve_many", "reject", "staff_upsert", "adjust", "cut"}

(* Mutant: the INSERT ... SELECT without its join on staff_reviewed. *)
ExportableUnsigned(i) == {c \in req[i].cells : /\ status[c] \in {"pending", "staff_reviewed"}
                                               /\ Defined(c)
                                               /\ Approved(c) # {}
                                               /\ Outstanding(c) = {}}

(* The cells an export's INSERT ... ON CONFLICT takes to 'exported'. *)
Exportable(i) == {c \in req[i].cells : /\ status[c] = "staff_reviewed"
                                       /\ Defined(c)
                                       /\ Approved(c) # {}
                                       /\ Outstanding(c) = {}}

(* The cell an unlock or a send-back turns to next, in a fixed order. *)
Unopened(i) == req[i].cells \ Opened(i)
NextCell(i) == CHOOSE c \in Unopened(i) : TRUE
NextCells(i) == IF Unopened(i) = {} THEN {} ELSE {NextCell(i)}

(* A statement locks the table against LOCK TABLE, and the rows it writes.  *)
StatementLocks(W) == {TableRowEx} \cup {RowLock(r) : r \in Written(W)}

(* The locks the next step of request i waits for: one set per step that waits. *)
When(i, ops, stage, L) == IF At(i, ops, stage) THEN L ELSE {}

Need(i) == UNION {
    When(i, {"upsert"}, "ready", StatementLocks(UpsertRows(i))),
    When(i, {"generate"}, "ready", StatementLocks(GenerateRows(i))),
    When(i, {"clear_drafts"}, "ready", StatementLocks(ClearRows(i))),
    When(i, {"delete", "staff_delete"}, "ready", StatementLocks(DeleteRows(i))),
    When(i, {"submit"}, "ready", StatementLocks(SubmitRows(i))),
    When(i, {"approve", "approve_many"}, "ready", StatementLocks(ApproveRows(i))),
    When(i, {"reject"}, "ready", StatementLocks(RejectRows(i))),
    When(i, {"staff_upsert"}, "ready", StatementLocks(StaffUpsertRows(i))),
    When(i, {"adjust"}, "ready", StatementLocks(AdjustRows(i))),
    When(i, {"cut"}, "ready", StatementLocks(CutRows(i))),
    When(i, Writes, "written", {CellLock(c) : c \in {d \in Touched(buf[i]) : Defined(d)}}),
    When(i, {"approve"}, "snapped", {CourseLock}),
    When(i, {"approve_many"}, "checked", {CourseLock}),
    When(i, {"review"}, "checked", {CellLock(c) : c \in req[i].cells}),
    When(i, {"review"}, "counted", {StatusRow(c) : c \in req[i].cells}),
    When(i, {"export"}, "built", {TableShare}),
    When(i, Exports, "share", {StatusRow(c) : c \in Exportable(i)}),
    When(i, Exports, "locked", {CourseRow}),
    When(i, {"unexport"}, "checked", {CourseRow}),
    When(i, Reopens, "listed",
         UNION {{CourseLock, CellLock(c), StatusRow(c)} : c \in NextCells(i)}),
    When(i, Reopens, "reopened", StatementLocks(ReopenRows(i))),
    When(i, {"settlement"}, "checked",
         {CourseRow} \cup {StatusRow(c) : c \in {d \in Cells : status[d] = "exported"}}),
    When(i, {"period_delete"}, "checked", {StatusRow(c) : c \in req[i].cells})}

Granted(i) == Free(i, Need(i))
Acquire(i) == held' = [held EXCEPT ![i] = @ \cup Need(i)]
Goto(i, stage) == req' = [req EXCEPT ![i].at = stage]

-----------------------------------------------------------------------------
(* Writes to work_logs: the checks on the pool.                             *)

(* WorkLogService.Upsert by the TA: a new row, or an edit of an own row. *)
UpsertCheck(i) ==
    \E r \in Rows, c \in Cells, v \in Vals :
        /\ c \in MonthsOf[AsgOf[r]]
        /\ Writable(c) /\ Defined(c)
        /\ \/ Fresh(r)
           \/ work[r].st \in Live /\ (work[r].cell # c => Writable(work[r].cell))
        /\ Begin(i, [New("upsert", "ready") EXCEPT
                        !.rows = {r}, !.to = [st |-> "draft", cell |-> c, val |-> v]])

(* Generate: months in review, closed or locked are kept as they are; the *)
(* others lose their drafts and get new ones.                              *)
InReview(a, c) == \/ Batch({a}, {c}, {"submitted", "approved"}) # {}
                  \/ Batch({a}, {c}, {"rejected"}) # {} /\ ~Unsubmittable(c)
GenerateCheck(i) ==
    \E a \in Asgs, v \in Vals :
        LET clear == {c \in MonthsOf[a] : ~InReview(a, c) /\ ~Closed(c) /\ ~Locked(c)}
            spare == {r \in Rows : AsgOf[r] = a /\ Fresh(r)}
        IN  \E c \in clear, N \in SUBSET spare :
                Begin(i, [New("generate", "ready") EXCEPT !.asgs = {a}, !.cells = clear,
                             !.rows = N, !.to = [st |-> "draft", cell |-> c, val |-> v]])

(* A makeup class, a waiver, a TDBM sync or a holiday takes the drafts of a *)
(* day away, whatever the state of their month.                             *)
ClearDraftsCheck(i) ==
    \E A \in (SUBSET Asgs) \ {{}}, c \in Cells, v \in Vals :
        Begin(i, [New("clear_drafts", "ready") EXCEPT !.asgs = A, !.cells = {c},
                     !.to = [st |-> "draft", cell |-> c, val |-> v]])

DeleteCheck(i) ==
    \E r \in Rows :
        /\ work[r].st \in {"draft", "rejected"}
        /\ Writable(work[r].cell)
        /\ Begin(i, [New("delete", "ready") EXCEPT !.rows = {r}])

StaffDeleteCheck(i) ==
    \E r \in Rows :
        /\ work[r].st \in Live
        /\ Writable(work[r].cell)
        /\ Begin(i, [New("staff_delete", "ready") EXCEPT !.rows = {r}])

(* Submit goes straight to its UPDATE, which skips the months out of reach. *)
SubmitCheck(i) ==
    \E a \in Asgs, S \in MonthSets :
        Begin(i, [New("submit", "ready") EXCEPT !.asgs = {a}, !.cells = S])

(* assertNoFinanceLockedRows, on the pool. *)
NoLockedRows(A, S) == \A r \in Batch(A, S, {"submitted"}) : ~Locked(work[r].cell)

ReviewBatch(i, op, A, S) ==
    /\ NoLockedRows(A, S)
    /\ Begin(i, [New(op, "checked") EXCEPT !.asgs = A, !.cells = S])

ApproveCheck(i)     == \E a \in Asgs, S \in MonthSets : ReviewBatch(i, "approve", {a}, S)
RejectCheck(i)      == \E a \in Asgs, S \in MonthSets : ReviewBatch(i, "reject", {a}, S)
ApproveManyCheck(i) ==
    \E A \in (SUBSET Asgs) \ {{}}, S \in MonthSets : ReviewBatch(i, "approve_many", A, S)

(* worklogSetSnapshot: the rows the audit entry will say were moved. *)
Snapshot(i, stage) ==
    /\ req' = [req EXCEPT ![i].at = stage,
                          ![i].rows = Batch(req[i].asgs, req[i].cells, {"submitted"})]
    /\ UNCHANGED <<dbVars, held, buf>>

TakeCourseLock(i, stage) ==
    /\ Granted(i) /\ Acquire(i) /\ Goto(i, stage)
    /\ UNCHANGED <<dbVars, buf>>

(* Approve lists the rows, then waits for the course; ApproveMany waits first. *)
ApproveSnapshot(i)     == At(i, {"approve"}, "checked") /\ Snapshot(i, "snapped")
ApproveSerialize(i)    == At(i, {"approve"}, "snapped") /\ TakeCourseLock(i, "ready")
ApproveManySerialize(i) == At(i, {"approve_many"}, "checked") /\ TakeCourseLock(i, "serial")
ApproveManySnapshot(i) == At(i, {"approve_many"}, "serial") /\ Snapshot(i, "ready")
RejectSnapshot(i)      == At(i, {"reject"}, "checked") /\ Snapshot(i, "ready")

(* StaffUpsert, by staff or the course's lecturer: sure remembers that the   *)
(* row read as approved, for which a password and a reason were asked.       *)
StaffUpsertCheck(i) ==
    \E r \in Rows, c \in Cells, v \in Vals :
        /\ c \in MonthsOf[AsgOf[r]]
        /\ Writable(c) /\ Defined(c)
        /\ \/ Fresh(r)
           \/ work[r].st \in Live /\ (work[r].cell # c => Writable(work[r].cell))
        /\ Begin(i, [New("staff_upsert", "ready") EXCEPT !.rows = {r},
                        !.to = [st |-> "draft", cell |-> c, val |-> v],
                        !.sure = (work[r].st = "approved")])

(* reviewCorrectionTarget: a sitting still waiting, in a month not exported. *)
AdjustCheck(i) ==
    \E r \in Rows, v \in Vals :
        /\ work[r].st = "submitted" /\ ~Locked(work[r].cell) /\ v # work[r].val
        /\ Begin(i, [New("adjust", "ready") EXCEPT !.rows = {r},
                        !.to = [work[r] EXCEPT !.val = v]])

CutCheck(i) ==
    \E r \in Rows :
        /\ work[r].st = "submitted" /\ ~Locked(work[r].cell)
        /\ Begin(i, [New("cut", "ready") EXCEPT !.rows = {r}])

(* The statement itself.  It waits for the table and its rows; it touches no *)
(* row, is refused by the trigger, or leaves its rows to the commit.         *)
Statement(i, W) ==
    /\ Granted(i)
    /\ UNCHANGED dbVars
    /\ IF Changed(W) = {} \/ Refused(W)
       THEN Finish(i)
       ELSE Acquire(i) /\ Goto(i, "written") /\ buf' = [buf EXCEPT ![i] = W]

UpsertWrite(i)      == At(i, {"upsert"}, "ready") /\ Statement(i, UpsertRows(i))
GenerateWrite(i)    == At(i, {"generate"}, "ready") /\ Statement(i, GenerateRows(i))
ClearDraftsWrite(i) == At(i, {"clear_drafts"}, "ready") /\ Statement(i, ClearRows(i))
DeleteWrite(i)      == At(i, {"delete", "staff_delete"}, "ready") /\ Statement(i, DeleteRows(i))
SubmitWrite(i)      == At(i, {"submit"}, "ready") /\ Statement(i, SubmitRows(i))
ApproveWrite(i)     == At(i, {"approve", "approve_many"}, "ready") /\ Statement(i, ApproveRows(i))
RejectWrite(i)      == At(i, {"reject"}, "ready") /\ Statement(i, RejectRows(i))
StaffUpsertWrite(i) == At(i, {"staff_upsert"}, "ready") /\ Statement(i, StaffUpsertRows(i))
AdjustWrite(i)      == At(i, {"adjust"}, "ready") /\ Statement(i, AdjustRows(i))
CutWrite(i)         == At(i, {"cut"}, "ready") /\ Statement(i, CutRows(i))

(* The rows of a transaction over those of the table. *)
Overlay(W) == [r \in Rows |-> IF W[r].st # "none" THEN W[r] ELSE work[r]]

(* reset_staff_review_on_worklog_change, AFTER every write: under the lock   *)
(* of each cell it touched, a signed-off month goes back to pending.         *)
ReviewReset(W) == [c \in Cells |-> IF c \in Touched(W) /\ Defined(c) /\ status[c] = "staff_reviewed"
                                   THEN "pending" ELSE status[c]]

Commit(i) ==
    /\ req[i].op \in Writes /\ req[i].at = "written"
    /\ Granted(i)
    /\ work' = Overlay(buf[i])
    /\ status' = ReviewReset(buf[i])
    /\ Finish(i)
    /\ UNCHANGED <<period, mode, ledger, flagged>>

-----------------------------------------------------------------------------
(* MarkStaffReviewed: under the cell's lock, count the month, then sign.    *)
ReviewBegin(i) ==
    \E c \in Cells : Defined(c) /\ Begin(i, [New("review", "checked") EXCEPT !.cells = {c}])

(* Mutant: the month is counted before lockPeriodCell. *)
ReviewCountUnlocked(i) ==
    /\ At(i, {"review"}, "checked")
    /\ UNCHANGED <<dbVars, held>>
    /\ IF \A c \in req[i].cells : Outstanding(c) = {} /\ Approved(c) # {}
       THEN Goto(i, "counted") /\ UNCHANGED buf
       ELSE req' = [req EXCEPT ![i] = Idle] /\ UNCHANGED buf

ReviewCount(i) ==
    /\ At(i, {"review"}, "checked")
    /\ Granted(i)
    /\ UNCHANGED dbVars
    /\ IF \A c \in req[i].cells : Outstanding(c) = {} /\ Approved(c) # {}
       THEN Acquire(i) /\ Goto(i, "counted") /\ UNCHANGED buf
       ELSE Finish(i)

(* Mutant: a status the CHECK constraint does not know. *)
ReviewSignMisspelt(i) ==
    /\ At(i, {"review"}, "counted")
    /\ Granted(i)
    /\ status' = [c \in Cells |-> IF c \in req[i].cells THEN "reviewed" ELSE status[c]]
    /\ Finish(i)
    /\ UNCHANGED <<work, period, mode, ledger, flagged>>

ReviewSign(i) ==
    /\ At(i, {"review"}, "counted")
    /\ Granted(i)
    /\ status' = [c \in Cells |-> IF c \in req[i].cells /\ Defined(c) /\ status[c] = "pending"
                                  THEN "staff_reviewed" ELSE status[c]]
    /\ Finish(i)
    /\ UNCHANGED <<work, period, mode, ledger, flagged>>

(* MarkFinanceSent and RevertFinanceSent: one guarded UPDATE under the lock. *)
MarkFinanceSent(c) ==
    /\ "finance" \in Ops
    /\ Unheld({CellLock(c), StatusRow(c)})
    /\ status[c] \in {"exported", "finance_sent"}
    /\ status' = [status EXCEPT ![c] = "finance_sent"]
    /\ UNCHANGED <<work, period, mode, ledger, flagged, req, held, buf>>

RevertFinanceSent(c) ==
    /\ "finance" \in Ops
    /\ Unheld({CellLock(c), StatusRow(c)})
    /\ status[c] = "finance_sent"
    /\ status' = [status EXCEPT ![c] = "exported"]
    /\ UNCHANGED <<work, period, mode, ledger, flagged, req, held, buf>>

-----------------------------------------------------------------------------
(* CourseZip: fingerprint, gate, build, lock, flag, send.                   *)

(* courseWorklogFingerprintSQL: the rows of the slice that are not drafts. *)
Fingerprint(S) == {<<r, work[r]>> : r \in {s \in Rows : /\ work[s].cell \in S
                                                        /\ work[s].st \in Live \ {"draft"}}}

(* A slice without such rows digests to '', which MarkCourseExportedAsBuilt *)
(* takes for "no fingerprint": no table lock and no comparison.             *)
ExportFingerprint(i) ==
    \E S \in MonthSets :
        LET fp == Fingerprint(S)
            op == IF fp = {} THEN "export_empty" ELSE "export"
        IN  Begin(i, [New(op, "fingerprinted") EXCEPT !.cells = S, !.seen = fp])

(* CourseExportBlockers: nothing outstanding, and staff signed what is paid. *)
ExportGate(i) ==
    /\ At(i, Exports, "fingerprinted")
    /\ UNCHANGED dbVars
    /\ IF \A c \in req[i].cells : Defined(c) =>
              Outstanding(c) = {} /\ (Approved(c) # {} => status[c] # "pending")
       THEN Goto(i, "gated") /\ UNCHANGED <<held, buf>>
       ELSE Finish(i)

ExportBuild(i) ==
    /\ At(i, Exports, "gated")
    /\ req' = [req EXCEPT ![i].at = "built",
                          ![i].pack = [rows |-> UNION {Claim(c) : c \in req[i].cells},
                                       mode |-> mode]]
    /\ UNCHANGED <<dbVars, held, buf>>

ExportLockTable(i) ==
    /\ At(i, Exports, "built")
    /\ Granted(i) /\ Acquire(i) /\ Goto(i, "share")
    /\ UNCHANGED <<dbVars, buf>>

PackOf(i, c) == [rows |-> {v \in req[i].pack.rows : v[2].cell = c}, mode |-> req[i].pack.mode]

(* The locking transaction: refused when the rows moved since the            *)
(* fingerprint, else the cells that are ready become exported, with the      *)
(* figures of the file.  cells then names the months of the slice locked.    *)
ExportMark(i) ==
    /\ At(i, Exports, "share")
    /\ Granted(i)
    /\ UNCHANGED <<work, period, mode, flagged>>
    /\ IF req[i].op = "export" /\ req[i].seen # Fingerprint(req[i].cells)
       THEN Finish(i) /\ UNCHANGED <<status, ledger>>
       ELSE /\ status' = [c \in Cells |-> IF c \in Exportable(i) THEN "exported" ELSE status[c]]
            /\ ledger' = [c \in Cells |-> IF c \in Exportable(i) THEN PackOf(i, c) ELSE ledger[c]]
            /\ held' = [held EXCEPT ![i] = {}]
            /\ req' = [req EXCEPT ![i].at = "locked",
                         ![i].cells = {c \in @ : Locked(c) \/ c \in Exportable(i)}]
            /\ UNCHANGED buf

(* MarkExported runs outside that transaction and its failure is ignored. *)
ExportFlag(i) ==
    /\ At(i, Exports, "locked")
    /\ Granted(i)
    /\ flagged' \in {TRUE, flagged}
    /\ Goto(i, "flagged")
    /\ UNCHANGED <<work, status, period, mode, ledger, held, buf>>

(* The audit entry and the batch record, then the file leaves the server. *)
ExportSend(i) == At(i, Exports, "flagged") /\ Finish(i) /\ UNCHANGED dbVars

-----------------------------------------------------------------------------
(* MarkSentBack (one cell) and Unexport (every exported cell): each cell is *)
(* reopened under the course, cell and status locks, its rows are rejected, *)
(* and all of it commits together.                                          *)
SentBackBegin(i) ==
    \E c \in Cells : Defined(c) /\ Begin(i, [New("sent_back", "listed") EXCEPT !.cells = {c}])

UnexportBegin(i) == Begin(i, New("unexport", "checked"))

UnexportList(i) ==
    /\ At(i, {"unexport"}, "checked")
    /\ Granted(i)
    /\ UNCHANGED dbVars
    /\ LET exported == {c \in Cells : status[c] = "exported"} IN
       IF exported = {} /\ ~flagged
       THEN Finish(i)
       ELSE /\ Acquire(i)
            /\ req' = [req EXCEPT ![i].at = "listed", ![i].cells = exported]
            /\ UNCHANGED buf

(* Mutant: the upsert without its "status <> 'finance_sent'". *)
ReopenAnyCell(i) ==
    /\ At(i, Reopens, "listed")
    /\ Unopened(i) # {}
    /\ Granted(i)
    /\ UNCHANGED dbVars
    /\ IF Closed(NextCell(i)) \/ ~Defined(NextCell(i))
       THEN Finish(i)
       ELSE Acquire(i) /\ Goto(i, "reopened") /\ UNCHANGED buf

(* reopenCellForCorrection up to its status upsert.  A month at finance or  *)
(* closed, or a period gone meanwhile, refuses the whole request.           *)
ReopenCell(i) ==
    /\ At(i, Reopens, "listed")
    /\ Unopened(i) # {}
    /\ Granted(i)
    /\ UNCHANGED dbVars
    /\ LET c == NextCell(i) IN
       IF status[c] = "finance_sent" \/ Closed(c) \/ ~Defined(c)
       THEN Finish(i)
       ELSE Acquire(i) /\ Goto(i, "reopened") /\ UNCHANGED buf

(* Its UPDATE of the rows: its own status is pending, so no trigger refuses. *)
ReopenWrite(i) ==
    /\ At(i, Reopens, "reopened")
    /\ Granted(i) /\ Acquire(i) /\ Goto(i, "listed")
    /\ buf' = [buf EXCEPT ![i] = ReopenRows(i)]
    /\ UNCHANGED dbVars

ReopenCommit(i) ==
    /\ At(i, Reopens, "listed")
    /\ Unopened(i) = {}
    /\ UNCHANGED <<period, mode, ledger>>
    /\ IF /\ req[i].op = "sent_back"
          /\ Written(buf[i]) = {}
          /\ \A c \in req[i].cells : status[c] = "pending"
       THEN UNCHANGED <<work, status, flagged>>
       ELSE /\ work' = Overlay(buf[i])
            /\ status' = [c \in Cells |-> IF c \in Opened(i) THEN "pending" ELSE status[c]]
            /\ flagged' = (flagged /\ req[i].op # "unexport")
    /\ Finish(i)

-----------------------------------------------------------------------------
(* SetSettlementMode: the checks on the pool, then one transaction that     *)
(* changes the mode and sends exported months back for re-issue.            *)
SettlementCheck(i) ==
    \E m \in Modes :
        /\ \A c \in Cells : status[c] # "finance_sent"
        /\ m # mode
        /\ Begin(i, [New("settlement", "checked") EXCEPT !.pack = [rows |-> {}, mode |-> m]])

SettlementApply(i) ==
    /\ At(i, {"settlement"}, "checked")
    /\ Granted(i)
    /\ mode' = req[i].pack.mode
    /\ status' = [c \in Cells |-> IF status[c] = "exported" THEN "staff_reviewed" ELSE status[c]]
    /\ flagged' = (flagged /\ \A c \in Cells : status[c] # "exported")
    /\ Finish(i)
    /\ UNCHANGED <<work, period, ledger>>

(* The periods: the due date passes or AutoCloseExpired runs, staff extend   *)
(* the due date, staff open a month.                                         *)
PeriodClose(p) ==
    /\ "period" \in Ops /\ period[p] = "open"
    /\ period' = [period EXCEPT ![p] = "closed"]
    /\ UNCHANGED <<work, status, mode, ledger, flagged, req, held, buf>>

PeriodExtend(p) ==
    /\ "period" \in Ops /\ period[p] = "closed"
    /\ period' = [period EXCEPT ![p] = "open"]
    /\ UNCHANGED <<work, status, mode, ledger, flagged, req, held, buf>>

PeriodCreate(p) ==
    /\ "period_delete" \in Ops /\ period[p] = "none"
    /\ period' = [period EXCEPT ![p] = "open"]
    /\ UNCHANGED <<work, status, mode, ledger, flagged, req, held, buf>>

(* Delete: no signed cell on the pool, then the DELETE and its cascade. *)
PeriodDeleteCheck(i) ==
    \E p \in Periods :
        LET C == {c \in Cells : PeriodOf[c] = p} IN
        /\ period[p] # "none" /\ C # {}
        /\ \A c \in C : status[c] = "pending"
        /\ Begin(i, [New("period_delete", "checked") EXCEPT !.cells = C])

PeriodDelete(i) ==
    /\ At(i, {"period_delete"}, "checked")
    /\ Granted(i)
    /\ period' = [p \in Periods |-> IF \E c \in req[i].cells : PeriodOf[c] = p
                                    THEN "none" ELSE period[p]]
    /\ status' = [c \in Cells |-> IF c \in req[i].cells THEN "pending" ELSE status[c]]
    /\ Finish(i)
    /\ UNCHANGED <<work, mode, ledger, flagged>>

-----------------------------------------------------------------------------
(* PostgreSQL's deadlock detector: one member of a circle of waiters fails. *)
BlockedBy(i, j) == i # j /\ \E k \in held[j] : \E l \in Need(i) : Conflict(k, l)
Deadlocked(i)   ==
    \E S \in SUBSET {j \in Reqs : held[j] # {}} :
        i \in S /\ \A j \in S : \E k \in S : BlockedBy(j, k)
DeadlockAbort(i) == Deadlocked(i) /\ Finish(i) /\ UNCHANGED dbVars

(* A request arrives: its checks on the pool and its first read. *)
Arrive(i) ==
    \/ UpsertCheck(i) \/ GenerateCheck(i) \/ ClearDraftsCheck(i)
    \/ DeleteCheck(i) \/ StaffDeleteCheck(i) \/ SubmitCheck(i)
    \/ ApproveCheck(i) \/ ApproveManyCheck(i) \/ RejectCheck(i)
    \/ StaffUpsertCheck(i) \/ AdjustCheck(i) \/ CutCheck(i)
    \/ ReviewBegin(i) \/ ExportFingerprint(i)
    \/ SentBackBegin(i) \/ UnexportBegin(i)
    \/ SettlementCheck(i) \/ PeriodDeleteCheck(i)

(* A request in flight goes on. *)
Step(i) ==
    \/ ApproveSnapshot(i) \/ ApproveSerialize(i)
    \/ ApproveManySerialize(i) \/ ApproveManySnapshot(i) \/ RejectSnapshot(i)
    \/ UpsertWrite(i) \/ GenerateWrite(i) \/ ClearDraftsWrite(i) \/ DeleteWrite(i)
    \/ SubmitWrite(i) \/ ApproveWrite(i) \/ RejectWrite(i)
    \/ StaffUpsertWrite(i) \/ AdjustWrite(i) \/ CutWrite(i) \/ Commit(i)
    \/ ReviewCount(i) \/ ReviewSign(i)
    \/ ExportGate(i) \/ ExportBuild(i) \/ ExportLockTable(i) \/ ExportMark(i)
    \/ ExportFlag(i) \/ ExportSend(i)
    \/ UnexportList(i) \/ ReopenCell(i) \/ ReopenWrite(i) \/ ReopenCommit(i)
    \/ SettlementApply(i) \/ PeriodDelete(i)

(* What moves without a request of its own: single guarded statements. *)
Office ==
    \/ \E c \in Cells : MarkFinanceSent(c) \/ RevertFinanceSent(c)
    \/ \E p \in Periods : PeriodClose(p) \/ PeriodExtend(p) \/ PeriodCreate(p)

Next ==
    \/ \E i \in Reqs : Arrive(i) \/ Step(i) \/ Abort(i) \/ DeadlockAbort(i)
    \/ Office

Spec == Init /\ [][Next]_vars

(* A request whose locks come free is served in turn (PostgreSQL queues the *)
(* waiters of a lock) and a deadlock is detected.  Nobody need ever start,  *)
(* fail or cancel a request.                                                *)
Fairness == \A i \in Reqs : SF_vars(Step(i)) /\ WF_vars(DeadlockAbort(i))

FairSpec == Spec /\ Fairness

-----------------------------------------------------------------------------
(* Properties.                                                              *)

(* The tables and the requests keep their types, and a transaction's locks  *)
(* are locks.                                                               *)
TypeOK ==
    /\ work \in [Rows -> RowRec]
    /\ status \in [Cells -> CellStates]
    /\ period \in [Periods -> PeriodStates]
    /\ mode \in Modes
    /\ ledger \in [Cells -> [rows : SUBSET Versions, mode : Modes]]
    /\ flagged \in BOOLEAN
    /\ req \in [Reqs -> Request]
    /\ held \in [Reqs -> SUBSET Locks]
    /\ buf \in [Reqs -> [Rows -> RowRec]]

(* MarkStaffReviewed and MarkCourseExportedWithFigures: a month that is      *)
(* signed off, exported or at finance holds approved work and nothing still  *)
(* waiting for the lecturer, whatever was being written while it was signed. *)
SignedMonthsComplete ==
    \A c \in Cells : status[c] # "pending" =>
        Approved(c) # {} /\ RowsIn(c, {"submitted"}) = {}

(* reopenCellForCorrection: the step that takes an exported month back to    *)
(* pending leaves every row of it the TA's to edit - none approved, none     *)
(* with the lecturer - whichever approvals and submissions raced it.         *)
SentBackIsEditable ==
    [][\A c \in Cells : status[c] = "exported" /\ status'[c] = "pending" =>
          \A r \in Rows : work'[r].cell = c => work'[r].st \notin {"approved", "submitted"}]_vars

(* StaffUpsert's $11 guard: once a lecturer has approved a row, what it says *)
(* changes only through a StaffUpsert that read it as approved (and asked    *)
(* for the password and the reason), and it loses the approval only to a     *)
(* send-back; no request that read it earlier gets through.                  *)
ApprovedRowsStand ==
    [][\A r \in Rows : work[r].st = "approved" /\ work'[r] # work[r] =>
          \E i \in Reqs :
              \/ req[i].op = "staff_upsert" /\ req[i].sure /\ work'[r].st = "approved"
              \/ req[i].op \in Reopens /\ work'[r] = [work[r] EXCEPT !.st = "rejected"]]_vars

(* Approve and ApproveMany: what is approved is exactly what was submitted;  *)
(* a correction, a cut or a re-dating that races the approval is either in   *)
(* the row the lecturer approved or refused.                                 *)
ApprovalIsOfSubmittedWork ==
    [][\A r \in Rows : work[r].st # "approved" /\ work'[r].st = "approved" =>
          work[r] = [work'[r] EXCEPT !.st = "submitted"]]_vars

(* Two transactions never hold locks that exclude each other, and rows       *)
(* written but not committed are the writer's alone.                         *)
LockExclusion ==
    /\ \A i, j \in Reqs : i # j => \A k \in held[i], l \in held[j] : ~Conflict(k, l)
    /\ \A i \in Reqs : \A r \in Written(buf[i]) : RowLock(r) \in held[i]

(* The abstract workflow: a claim, once signed, stands as signed until the   *)
(* month is taken back to pending.                                           *)
SignedClaim == [c \in Cells |-> IF status[c] = "pending" THEN {} ELSE Claim(c)]
Months      == INSTANCE MonthLifecycle WITH Papers <- Versions, state <- status,
                                            claim <- SignedClaim

(* lockPeriodCell, the table lock and the triggers 0124 and 0141 together:   *)
(* the approved rows of a signed month never change under the signature, the *)
(* months move only along the workflow, and finance_sent is left only by     *)
(* RevertFinanceSent - the requests implement MonthLifecycle.                *)
ImplementsMonthLifecycle == Months!Spec

(* Every request that was let in ends: it commits, is refused, or is the     *)
(* victim of a deadlock; no set of them waits on each other for ever.        *)
RequestsEnd == \A i \in Reqs : req[i] # Idle ~> req[i] = Idle

-----------------------------------------------------------------------------
(* What comments in the code promise and the code does not keep.            *)

(* CourseZip: "if the lock fails and we still shipped the file, finance      *)
(* would hold a payout document whose underlying worklogs stayed editable":   *)
(* every month the file pays is locked by the time the file may leave.        *)
ShippedMonthsLocked ==
    \A i \in Reqs : At(i, Exports, "locked") =>
        \A v \in req[i].pack.rows : v[2].cell \in req[i].cells

(* SetSettlementMode: "a mode that changed while the documents built on the  *)
(* old one stayed valid is the one state this must never be left in".         *)
DocumentsMatchMode == \A c \in Cells : Locked(c) => ledger[c].mode = mode

(* worklogSetSnapshot: "the list cannot include a row someone else settled   *)
(* in the meantime": the rows an approval's audit entry lists are the rows it *)
(* moves.                                                                     *)
AuditListsMovedRows ==
    \A i \in Reqs : At(i, {"approve", "approve_many", "reject"}, "written") =>
        req[i].rows = Written(buf[i])

(* SubmissionPeriodService.Delete: a period with a signed-off month is never  *)
(* deleted, "deleting it would cascade away those rows".                      *)
SignedPeriodsStay ==
    [][\A c \in Cells : status[c] # "pending" => period'[PeriodOf[c]] # "none"]_vars

(* MarkCourseExportedAsBuilt "proves the course's work_logs are still what   *)
(* the file was built from": a month being locked is recorded as it stands.   *)
LockedAsBuilt ==
    [][\A c \in Cells : ledger'[c] # ledger[c] => ledger'[c].rows = Claim(c)]_vars

(* Migration 0124: no row is changed in a month the export has locked, "it   *)
(* holds whatever the timing".                                                *)
LockedRowsStand ==
    [][\A c \in Cells : Locked(c) /\ status'[c] = status[c] => Claim(c)' = Claim(c)]_vars

=============================================================================
