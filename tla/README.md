# Verification of the TA payout system

This directory models the payout back end in TLA+: what it keeps, what its
requests do to it while others run, and what must hold whatever the order.
`*.tla` are the modules, `*.cfg` the TLC instances, `PROJECT.json` the index:
which definition translates which lines, which run checks which property, which
mutant of the code each property catches, which hazards are covered.

To check: `tlc -config <X>.cfg <MC module>.tla` (the pairs are in section 3), and
`tlapm` on `Sums`, `PayoutMonthsProofs`, `TARequestsProofs`, `TAAppointmentsProofs`,
`DocumentsProofs`, `PayoutLedgerProofs`, `TimesheetsProofs` and `CoursesProofs`.

## 1. The system

Teaching assistants (TAs) of a university faculty log the hours they work for a
course (`work_logs`); lecturers approve them; staff sign each TA's month off,
export a ZIP of payout documents per course, and send it to finance. The program
is a Go HTTP service over PostgreSQL (pgx, READ COMMITTED), with a scheduler
goroutine. Several server processes may run; nothing is kept in memory that the
rules depend on, so every race is between database transactions.

### Components

| component | state | operations that change it |
|---|---|---|
| Work logs (`service/worklog*.go`) | `work_logs`: draft, submitted, approved, rejected, deleted; date, clock, hours, activity | Upsert, Generate, Delete, Submit (TA); Approve, ApproveMany, Reject, LecturerAdjust, LecturerCut (lecturer); StaffUpsert, StaffDelete (staff, lecturer) |
| Submission periods (`submission_period*.go`, `submission_review*.go`, `period_lock.go`) | `submission_periods` (open, closed, due date); `submission_period_status`, one *cell* per (period, TA, course) | Upsert, BulkCreateForTerm, Delete, AutoCloseExpired; MarkStaffReviewed, MarkFinanceSent, RevertFinanceSent, MarkSentBack |
| Work-log triggers (migrations 0124, 0141) | none of their own | refuse a row of an exported month; reset a signed month |
| Course export (`handler/handlers.go` CourseZip, `export*.go`) | `export_month_ledger`, `teaching_courses.exported_at`, batches and archived files | fingerprint, gate, build, lock and record, flag, send |
| Settlement (`budget_settlement.go`) | `teaching_courses.settlement_mode` | SetSettlementMode; sharing a short pool among TAs |
| Teaching (`teaching*.go`, `course_window.go`) | courses, sections, makeups, waivers | Unexport, makeups that clear drafts, merges, counts |
| Holidays, TDBM sync | holidays, automatic makeups | clear the drafts of a closed day |
| TA requests (`ta_request*.go`) | requests, their assignments, decisions | create, submit, split, decide, withdraw |
| Workload (`workload.go`) | TA timetables, weekly hours | save, check for clashes |
| Appointments (`appointment_*.go`) | appointment orders and rounds | issue, cancel; a gate on the export |
| TA documents (`docs*.go`, `payee.go`) | the current document of each kind, its review | upload, approve, reject, replace |
| Data deletion | requests for erasure | ask, approve, erase |
| Sign-in (`handler/auth.go`, `mfa*.go`, `totp.go`, `session.go`) | sessions, attempt counters, one-use codes | sign in, lock out, refresh, revoke |
| Notifications and mail | notices, mail settings | fold, send, remind |
| Scheduler | last run of each job | reminders, AutoCloseExpired, clean-ups |
| Demo mode, migrations, key rotation | slots; schema version; key version of each secret | claim, expire; migrate; re-encrypt |
| Dashboards, audit views, document layout, storage, REG import, reference data | read models or I/O | not of interest here |

`PROJECT.json` lists them with their files and what is modelled of each.

### How they interact

Through the database only. The pair of tables in the middle is `work_logs` and
`submission_period_status`: a month may be signed only while its rows are
settled, rows may change only while the month is not exported, and changing a
row of a signed month unsigns it. Four things keep the two in step, and none of
them is enough on its own:

- advisory locks: one per cell (`lockPeriodCell`, taken by the sign-off, the
  send-back, finance and by trigger 0141) and one per course (approvals and
  reopenings);
- the row locks PostgreSQL takes, and the re-evaluation of a statement's
  conditions on the row it finally got (READ COMMITTED);
- `LOCK TABLE work_logs IN SHARE MODE`, by which the export waits for every
  writer and holds off new ones;
- trigger 0124, `BEFORE INSERT OR UPDATE`, which refuses rows of exported months,
  and trigger 0141, `AFTER` any change, which takes the cell's lock and resets a
  signed month to pending.

Nearly every handler checks on the connection pool first, and begins its
transaction after; what it checked may have changed by then.

### What is hard here

Checks that are stale when the transaction starts; a count and the update that
relies on it; the order in which a send-back and an approval get a row; a file
built from rows read before the lock; statements that passed a trigger before the
lock and commit after it; lock orders that differ between requests (course, then
cells, then rows; rows, then cells; table first), hence deadlocks; side effects
after the transaction that may fail. `PROJECT.json` lists each with its line.

### What makes each part correct

- Work logs: an approval covers exactly what was submitted; an approved row is
  changed only by someone who was asked for the password and the reason.
- Months: a signed month is complete; its claim stands until it is openly taken
  back; the workflow pending, staff_reviewed, exported, finance_sent is never
  jumped; a month taken back is the TA's to edit.
- Export: what is locked is what the file says; what the file pays is locked.
- Settlement: no exported document was split by another mode than the course's;
  shares add up to no more than the pool.
- Payout figures: the figure of a locked month is the one the locking file paid,
  whatever is priced, exported or recorded later; a pack served again is current.
- TA requests and workload: no TA is appointed to two places at once, beyond the
  cap of courses, or twice on a course; a verdict that is final stays; what a
  clash took can be given back; every request is answered and told once.
- Timesheets: no minute is paid in two courses; a week keeps to the declared hours and
  a day to its ceiling (each but for requests that overtake each other between a look
  and its write, which section 3 shows); what Generate proposes can be approved.
- Documents: one current document of each kind, a completed set approves the
  profile, the last verdict is told, the files stay until they are due.
- Courses: head counts and budget columns agree; an exported course keeps its
  sections; hours and requests are never parted from their section.
- Sign-in: a code is used once; lockout cannot be raced.

## 2. The modules

| module | what it is |
|---|---|
| `PayoutMonths` | the requests on one course's months, at the grain of their locks |
| `MonthLifecycle` | the abstract month: what the workflow promises, with no requests or locks |
| `TARequests` | requests for TAs, their verdicts, timetables and notices |
| `Documents` | a TA's documents, their review, their files, retention and erasure |
| `Settlement` | the sharing of a pool and of a lump, as functions of whole satang |
| `PayoutLedger` | what a claim pack pays and what is recorded of it; extends `Settlement` |
| `Timesheets` | the lines of a TA's timesheets and the calendar under them |
| `Courses` | the sections, codes and counts of a term's courses, and what stands on them |
| `MCPayoutMonths`, `MCTARequests`, `MCDocuments`, `MCPayoutLedger`, `MCTimesheets`, `MCCourses` | the instances TLC runs |
| `PayoutMonthsProofs` | types, locks and rows; a signed month is complete; the requests implement `MonthLifecycle` |
| `TARequestsProofs`, `DocumentsProofs`, `PayoutLedgerProofs`, `TimesheetsProofs`, `CoursesProofs` | the theorems about each |
| `TAAppointmentsProofs` | what verdicts promise of a term's appointments; extends `TARequestsProofs` |
| `Sums` | lemmas about sums over finite sets, used for head counts and money |

The split follows the locks. `work_logs` appears in two modules because two
different questions meet there: `PayoutMonths` has two opaque rows and every lock,
`Timesheets` has dates, clocks, caps and prices. There a request is a look on the pool and
a write, because the limits are checked on the pool and nothing locks the TA; of the
locks it keeps the one an approval takes on its course, and the rows that a statement
past trigger 0131 holds until it commits. What a month is worth (`PayoutLedger`) and whether it may be locked
(`PayoutMonths`) are apart in the same way; the four steps of an export have the
same order in both. A course's sections (`Courses`) keep of a month only what their
guards read: whether it is exported, or at finance.

### PayoutMonths and the code

State. `work[r]` is a row of `work_logs`: its status, the cell it is dated in and
`val`, which stands for date within the month, clock, hours and activity (the
properties need to tell two claims apart and no more). `status[c]` is the
`submission_period_status` of a cell, where no row and `pending` are the same
thing, as they are in the code. `period[p]` is absent, open, or closed to
submissions (past due or closed by hand). `mode`, `ledger`, `flagged` are the
settlement mode, the last `export_month_ledger` entry of each cell, and
`exported_at`. `req[i]` is a request in flight: its operation, its stage, what it
has read and not yet used. `held[i]` are the locks of its transaction and
`buf[i]` the rows it wrote and has not committed, which nobody else sees.

Requests. An operation is a chain of actions: a *check* on the pool (one action,
`...Check`/`...Begin`, which starts the request), reads and locks inside the
transaction (`...Snapshot`, `...Serialize`, `ReviewCount`, ...), the statement that
writes (`...Write`, all by `Statement`), and `Commit`. Between any two of them
every other request may move. `Need(i)` is the set of locks the next action of i
waits for, `Granted` says they are free, and `Acquire` takes them. A statement
chooses its rows when it has its locks, which is what READ COMMITTED's
re-evaluation amounts to. `Refused` is trigger 0124 at the statement; the locks
and the effect of trigger 0141 are in `Commit`, which waits for the cell locks of
every month the rows touch, before and after, and unsigns those that were signed.

The export is a chain of eight: `ExportFingerprint` (the digest of the rows that
are not drafts; none digest to `''`, which becomes the operation `export_empty`
because the code then neither takes the table lock nor compares), `ExportGate`
(CourseExportBlockers), `ExportBuild`, `ExportLockTable`, `ExportMark` (compare,
lock what is ready, write the ledger, commit), `ExportFlag` (MarkExported, whose
failure is ignored), `ExportSend`.

A send-back (`sent_back`) reopens one cell, Unexport every exported one: per cell
`ReopenCell` (the three locks, the conditions on status and period), `ReopenWrite`
(reject every row the lecturer has or had), and one `ReopenCommit` at the end.

`Office` holds what needs one statement and no request of its own: finance and
its undo, and the period's due date.

Failures. `Abort` ends any request at any point: it stands for a refusal, an error
(for example of the audit entry, which is written in the same transaction), a
cancelled request, a lost connection or a crash of the server; PostgreSQL rolls
back. `DeadlockAbort` ends one member of a circle of waiters.

What the model abstracts, and in which direction:

- Refusals on data (hour caps, overlaps, appointment and document readiness,
  roles, allowed dates, closed courses) are not modelled one by one; a refused
  request is an `Abort`, or never begins. The model allows more than the code.
- A statement on several rows takes its snapshot and all its row locks in one
  step, and `Commit` takes all the cell locks of its rows at once. In the code
  they come one by one, so the deadlocks among row locks of two statements are not
  seen; each ends in the abort of one of them, as here.
- `ApproveMany`'s loop over assignments is one snapshot and one statement: the
  course's lock is held throughout.
- `submission_period_status` rows are locked by the export, the settlement, the
  reopening and the period's deletion, and by the sign-off's upsert.
- The reads of a document build are one step.
- A new row has an id nobody else holds, and ids are not used again.
- The ledger keeps the newest entry of a cell only.

### MonthLifecycle

Per cell a status and the claim staff signed. `Sign` takes some non-empty claim;
`Export`, `Reissue`, `SendToFinance` and `Revert` move signed months and touch no
claim; `TakeBack` voids the signature, never from `finance_sent`. `PayoutMonths`
implements it (`ImplementsMonthLifecycle`) under the mapping `state <- status`,
`claim <- ` the approved rows of each signed month. The content of the statement
is in the claim: no step changes the approved rows of a month (which, or what
they say) and leaves it signed.

### TARequests

State. `req` is the table of requests with their assignments (one status for each
TA and section: active, trimmed, dropped), the pre-clash snapshot, the reason of a
rejection and the submission it was filed in; `cap` is the term's
`max_courses_per_student`; `table` is each TA's timetable, `logged` the assignments
with hours, `issued` the appointment orders and exports that freeze a
timetable, `overdue` the submissions past their digest delay, `heard` how many
times a lecturer was told of a request, `proc` the calls in flight with what they
hold: rows, advisory locks per TA, and their uncommitted images.

Actions, and where they are in the code:

- `CreateCheck`, `FileOne`, `CreateCommit`: Create. One transaction, one request per
  TA; each is decided (autoDecide) under the TA's advisory lock or rests in
  `submitted` without a timetable.
- `ListedFinalize`/`SweepFinalize`, `FinalizeJudge`, `Commit`: the finalization of a
  waiting request, by its TA's timetable or by the hourly sweep.
- `SaveTimetable`, `ListSubmitted`, `ListDecided`, `RecheckNext`, `Commit`: a saved
  timetable, which is committed before anything is judged again; then request by
  request, each in a transaction of its own, trimming, dropping, restoring,
  rejecting or reinstating.
- `CancelJudge`, `AddSections`, `SplitLegacy`, `SetDuties`: withdrawal, sections added
  to an approved request, the split of the old requests that named several TAs,
  the workload form.
- `Hush`, `FlushRead`, `FlushMark`, `SweepDigest`, `Day`: the digest. Whoever decides
  the last request of a submission reads it, then marks it and tells.
- `LogWork`, `Issue`: hours and papers that freeze what a clash may take.
- `Crash`: a call dies; what it had not committed is gone, what it had committed
  (a saved timetable, a verdict not yet told) stays.

Abstractions. A timetable is what it does to each section: no clash, some of its
slots, all. The workload rules (hours, levels, form) are two facts of a request's
form, sound and off-slot; the arithmetic behind them is not modelled. Notices other
than the digest to the lecturer are left out.

### Documents

State. `docs` are the rows of `ta_documents` of one TA (kind, status, current, file,
retention clock, purged; the clock starts again when an approved document is approved
again), `files` the object store, `profile` the status of
`ta_profiles`, `told` whether the last notice listed the verdicts there are, `taken` the
downloads taken, `request` and `erased` the deletion request, `call` the calls in flight.

Actions: `SubmitRead`/`Write` (the profile), `UploadCheck`/`Save`/`Commit` (the file is
stored first, the row follows, the loser's file is cleaned up), `ReviewCheck`/`Doc`/
`Decide`/`Commit` (one document: the row, then the profile's row, then the count that
approves the profile), `ApproveAll...`, `RejectBatch...`, `ReviewProfile...`,
`DownloadBuild`/`Count`/`Take` (the quota under the advisory lock), `Expire`,
`SweepList`, `PurgeFile`, `PurgeMark`, `PurgeFails` (retention), `Regenerate...` (the creditor
form the system draws), `RequestDeletion`, `DeletionRefuse`/`Approve`, `ScrubList`,
`ScrubResume` (erasure), `Crash`. `PurgeFails` and `Crash` are the faults; `MaxFaults`
bounds them.

Abstractions. Consent is given, payloads are valid, the antivirus is part of the
upload. The submission's history rows, reasons and rounds are left out.

### Settlement and PayoutLedger

`Settlement` translates the arithmetic: `Settle` (settleTrack), `SpreadOver` and
`FillInOrder` (the two modes), `SettleFrozen` (months already paid come first),
`PlaceLump` and `SplitLump` (a graduate's lump over the months). Amounts are naturals
in satang; `Baht` is a constant, so an instance with 2 satang to a baht has the same
roundings. A month has one slot.

`PayoutLedger`: `hours` approved, `rate`, `weight`, `lump` in force; `cell` the status and
`exported_at` of a TA's month, `ledger` (`export_month_ledger`), `frozen`
(`grad_lump_ledger`), `batches` (`export_batches`), `sent` what left the server, `time` the
database's clock. A download is `Start` (unless the archived pack is served again, which
changes nothing), `Build`
(prices and shares), `Lock` (lock what is reviewed, write the figures; the
conditions of `PayoutMonths` about who else holds what are not repeated), `Freeze`
(the lump: insert, read what is there, and fail when it is not what was
printed), `Send` (version, record best effort, send). Others: `SetHours`, `SignOff`,
`SendBack`, `Reprice` (rate, lump, weights). `InForce` is the choice of the ledger row a
locked month is paid from; it is an operator, not a variable, as in the code.

### Timesheets

State. `rows` (id, assignment, day, clock, activity, status, generated or typed),
`makeups` (moved and waived classes), `holidays`, `closed` months, `req` the request each
call has in flight, with what it looked up and is to write, `overtaken` the calls that
looked at rows in review or makeups which have changed since, `work` the operations,
assignments, lines and first rows of this behaviour.

Actions. A request *looks* at the tables on the pool, then *writes* one statement whose WHERE
is all that is asked again; anything may commit in between. Nothing in the code locks the TA
over the two.

| look | write |
|---|---|
| `GenerateRead` (calendar, timetable, other rows) | `Generate` (wipes its drafts, writes new ones) |
| `UpsertNew` (TA or staff), `UpsertEdit`: dates, class windows, caps, overlaps, day's pay | `Insert`; `Edit` while the row is a draft or rejected |
| `DeleteLook` (TA, or staff who do not look at the status) | `Delete` while the row is a draft or rejected |
| `StaffUpsert` (`validateOnBehalfWrite`) | `StaffEdit` while the row is not approved; `StaffCorrect` of an approved row that was approved at the look |
| `LecturerAdjust`, `LecturerCut` | `Adjust`, `Cut` while every copy is submitted |
| `Submit` (`findSetOverlap`) | `Send`: what is a draft or rejected by then |
| `Approve`: takes the lock of the course, then rechecks overlaps, day's hours and pay, week, classes | `ApproveRows`: what is submitted by then |
| `AddMakeup`, `WaiveMakeup`, `DeleteMakeup` | `File` (unless the period has one), `Waive`, `Unfile`, each with the drafts it takes |
| `HolidayCreate` | `Declare` |

`StaffCorrect` and `ApproveRows` leave rows approved: they pass trigger 0131 (`Unbilled`: no
committed approved row of another course shares a minute), hold their rows (`Held`), and
commit in a step of their own (`Commit`), because what matters is whose commit the other's
trigger sees. Every other write commits at once. `Reject`, `HolidayDelete` and `CloseMonth`
are one statement without a look. `Drop` ends a request anywhere. The rechecks one request
makes one after another are read at one instant. A new row's id names its place and a
number no row there has (`NewId`), which is a uuid's freshness.

In Generate, `Lessons` and `Gradings` are the classes and duties that take place, day by day in
the order the code meets them, outside closed months; `Fit` shortens one to the day's pay,
`Admit` drops it at an overlap or a cap, and `Made` folds `Admit` over both lists, as the two
loops do.

`Gates` are the requests that make hours payable or change the week they count in: an approval,
a correction by staff, a removed or waived makeup. The limits of a week and of a day hold as far
as no gate was overtaken; that is how `WeekQuotaKept` and `DayPayKept` are stated, and
`WeekOverrun.cfg` and `DayOverrun.cfg` show what an overtaken one does.

The rules are translated one by one: the clash of two rows but for the copies of a
co-taught sitting (`Clash`, `Copy`), the pay of a day with copies paid once (`Baht`),
the week's hours of an activity or of a shared pool with landed makeups exempt
(`WeekHours`), the windows of classes and duties, the date rules. Times are half hours.

### Courses

State. `courses` (code, alternate codes, the two count columns, hours, `exported_at`,
sections with number, code, track, count and who wrote the timetable), `wanted` (the
sections requests name), `hours` (what is logged on each section's sittings),
`approved` and `due` (has an approved request; an export has still to set the
flag), `month` (exported, at finance), `cap` (the term's ceiling), `call`.

A call checks on the pool (`asked`), decides under the course row's lock with what
it will write as its image (`held`), and commits; `GiveUp` ends it anywhere. `NumbersRead`/`Write`
(SetNumStudents; `Spread` is the largest-remainder split over the sections),
`SectionAdd`, `SectionUpdate`, `SectionDelete`, `TimetableSave` (staff, or a lecturer once),
`CodeMerge` (with `Promoted`: the newest code prints first), `InfoRead`/`Write`, `CreateCheck`/
`Insert`, `DeleteCheck`/`Write`, `SectionFold` (with the hours moved as migration 0145 does;
its `ALTER TABLE` keeps the hours' table to itself, `Folding`), `Commit`. What stands on
a course comes in one statement each: `RequestFiled`, `RequestApproved`, `LogHours`,
`ExportMonth`, `MarkExported` and `MarkExportedFails`, `SendToFinance`, `Unexport`,
`SetTermBudgetCap`.

Abstractions. One TA and one month per course; a merge brings one section; counts
spread in whole students. The explicit total, names, curricula, exams, lecturers
and the import's parsing are left out.

## 3. What the runs check

| run | module, cfg | instance | shows |
|---|---|---|---|
| `signoff` | `MCPayoutMonths`, `Signoff` | 1 TA, 1 month, 2 rows, 2 values; all twelve writers, sign-off, send-back, the period | `SignedMonthsComplete`, `ApprovedRowsStand`, `ApprovalIsOfSubmittedWork` |
| `export` | `MCPayoutMonths`, `Export` | 1 TA, 1 month, 2 rows, 2 modes; submit, approve, staff corrections, sign-off, export, finance, send-back, unlock, settlement | `SentBackIsEditable`, `ImplementsMonthLifecycle` |
| `requests` | `MCPayoutMonths`, `Requests` | 1 row, fairness; periods deleted and created, exports of an empty slice | `TypeOK`, `RequestsEnd` |
| `ta_verdicts` | `MCTARequests`, `TAVerdicts` | 1 TA, 2 courses whose labs meet, 2 requests, caps 1 and 2, 2 calls and the sweep | `TypeOK`, `CapHolds`, `OneApprovedPerCourse`, `NoDoubleBooking`, `VerdictsStand` |
| `ta_submissions` | `MCTARequests`, `TASubmissions` | 2 TAs, a course, an old request naming both, fairness | `ToldOnce`, `RequestsAnswered` |
| `ta_rechecks` | `MCTARequests`, `TARechecks` | 1 TA, a course with 2 sections, timetables that come and go, crashes | `CutsRemembered` |
| `documents` | `MCDocuments`, `Documents` | 2 calls, 2 kinds, 3 rows or files, quota 2, 2 faults, fairness | `DocsTypeOK`, `VerdictsTold`, `QuotaHeld`, `FilesKept`, `OneCurrent`, `CompletedSetApproved`, `ErasureFinishes` |
| `payout_ledger` | `MCPayoutLedger`, `PayoutLedger` | 2 TAs, 2 months, hours 0 to 2, 2 rates, 2 lumps, a pool shorter than the work | `LedgerTypeOK`, `PacksPrintFrozenLump`, `ReissueIsCurrent`, `PoolHeld`, `SharesAreFair`, `LockedFigureStands` |
| `timesheets` | `MCTimesheets`, `Timesheets` | a lab taught at once to two sections and another course; 3 days of 2 weeks and 2 months, typing up to 3 rows; one request at a time, and two at once: corrections of approved rows, approvals, makeups, typing, generation, sending back | `TimesheetsTypeOK`, `WeekQuotaKept`, `DayPayKept`, `HoursPaidOnce`, `GeneratedPasses`, `RegenerationStable` |
| `courses` | `MCCourses`, `Courses` | 2 calls, 2 courses, 3 sections, 2 numbers, 2 codes, counts 0 and 3 of at most 4, ceilings 2 and 9 | `CoursesTypeOK`, `HeadcountsAdd`, `LecturerFillsBlank`, `WantedKept`, `RosterFrozen`, `SittingsKept` |
| `shipped` | `MCPayoutMonths`, `Shipped` | 1 TA, 1 month, 2 rows | violates `ShippedMonthsLocked` |
| `cancelled_not_paid` | `MCTimesheets`, `CancelledPaid` | as `timesheets` | violates `CancelledNotPaid` |

### The bounds and why they are enough

Calls. Two in flight, any number one after another (`ta_verdicts` has the sweep as a
third). The races listed are each between one that holds a stale read and one
that makes it stale. In the runs with `SYMMETRY`, no action tells one call (or, in
the one-assignment instances of `PayoutMonths`, one row) from another; runs with a
fairness condition have none.

A workload of `Timesheets` says how many requests may be in flight at once (`atOnce`): one where the
question is what the sequence of requests leads to, two where it is what overtakes what. What
Generate promises is about a run whose reads are still true (`Undisturbed`). The rows some
behaviours start from (`Correcting`, `Signing`) are ones that typing, sending and approving one at a
time lead to.

Operations. `Ops` and `Workloads` bound which operations meet. `Workloads` is a set of
sets, one of which a behaviour keeps to from its initial state, so that one run asks
several questions without paying for their product: in `Documents` the ways to
review against the upload, and the ways a file is lost; in `PayoutLedger` downloads one
at a time with each kind of correction, then two at once; in `Timesheets` what meets
what: typing against approving, makeups against generation, and in the races two corrections,
an approval against a correction, a makeup against what it moves; in `Courses` what changes counts, and
what changes sections under hours and exports. Properties that mention `"two" \notin ops`
are about downloads one at a time, and say so: with two at once they are false (below).

Data. Two rows tell a month with some rows settled from one with all; two values, one
claim from another; two months and two TAs, a share from the whole; three sections, a
folded pair with a bystander; Baht 2 makes a rounding that is not exact; `MaxTime` 4
orders two exports, a send-back and a re-export. Three document ids are two current
ones and the replacement; two requests are the fewest that can exceed a cap or clash.

Deadlock is checked in every run of `PayoutMonths` and `TARequests`: somebody can always
act. Elsewhere the instance itself ends (ids, codes, downloads or the clock are used
up; a timesheet may have nothing left to type) and the check is off.

`export_empty` and `period_delete` are in `requests` only: with either, the months
are *not* complete or stable (see the configurations below). `ta_verdicts` leaves out the
timetable that clashes with whole sections for the same reason: see `TAReinstated` and
`TARestored`.

### Fairness

- `PayoutMonths`, `FairSpec`. `SF` on each request's steps: PostgreSQL serves the waiters
  of a lock in their order, so a request whose locks come free again and again gets
  them; between locks a goroutine that can run is run. `WF` on `DeadlockAbort`: the
  detector runs after `deadlock_timeout`.
- `TARequests`, `FairSpec`. `SF` on a call under way, as above; `WF` on the two halves of the
  hourly sweep, which the scheduler runs for ever, and on the passing of a day.
- `Documents`, `DocsFairSpec`. `WF` on a call under way; `SF` on the scheduled sweeps: the
  scheduler comes round again whatever the calls do in between. Faults are bounded:
  `ErasureFinishes` is about a store that fails for a while, not for ever.

Nothing obliges a request to arrive, to fail or to be cancelled, nor anyone to
review or decide.

### Where the code and its promises part

The two violation runs are findings.

| run | promise | what happens |
|---|---|---|
| `shipped` | CourseZip must not ship a file whose months it failed to lock | a draft saved after the gate unsigns the month; drafts are not in the fingerprint; the lock skips the month, the count is not read, the file is sent |
| `cancelled_not_paid` | "a makeup REPLACES the original sitting" | the hours of a class are sent, sent back, the class is moved or waived (only submitted and approved hours refuse that), the rejected hours are sent and approved: both days are paid |

Other promises the code does not keep have a configuration that shows it
(`tlc -config <cfg>`, those of the first table on `MCPayoutMonths`, `MCTARequests`, `MCDocuments` or `MCTimesheets`), or a
definition at the end of its module. They are not runs of the project; they mark where
its passing properties stop.

| cfg | definition | what happens |
|---|---|---|
| `SettlementRace` | `DocumentsMatchMode` | the mode changes between the export's build and its lock; nothing is exported yet, so nothing is re-issued |
| `AuditList` | `AuditListsMovedRows` | Approve lists, then waits for the course lock, then updates what is submitted by then |
| `PeriodCascade` | `SignedPeriodsStay` | the count of signed cells and the period's DELETE share no lock with the sign-off |
| `AsBuilt` | `LockedAsBuilt` | the rows are corrected before the build and corrected back before the lock: same digest, other file |
| `EmptyFingerprint` | `LockedRowsStand` | an export that began on an empty slice takes no table lock and locks the month under a statement that has passed the trigger |
| `TAReinstated` | `OneApprovedPerCourse` | a timetable drops a TA's request, the TA is approved again on the course, the next timetable gives the first one back: the duplicate rule is not asked when a request is reinstated |
| `TARestored` | `CapHolds` (and `NoDoubleBooking`) | a recheck that gives a dropped section back counts the TA's courses without the per-TA lock of a verdict ("only comes back while the TA is still under the per-term course cap"), and does not ask about other courses' sessions |
| `Reapproved` | `NoneApprovedPurged` | "only if a doc had been re-approved after a purge - that path never happens in the current flow" (`docs_review.go:140`): one document is approved on its own, its week passes and its file goes; when the other comes, `ApproveAll` approves both, and the deleted one gets another week |
| `WeekOverrun` | `WeekQuotaHeld` | "rejects a worklog upsert that would push the TA's weekly total for the same activity past what the lecturer declared" (`worklog.go:2662`): staff correct two approved rows of one week at once; each is checked on the pool against the other's old hours, its UPDATE asks for the status only, and both stay approved |
| `DayOverrun` | `DayPayHeld` | "the TA's total hourly-billed earnings on work_date do NOT exceed pay_rates.daily_pay_cap_baht" (`worklog.go:2489`): the same with two rows of one day, in two courses |
| `DoublePay` | `NoCrossCoursePay` | "an approved row may not overlap another approved row of the same TA in a DIFFERENT course" (`0131_worklog_no_cross_course_double_pay.up.sql:11`): the trigger sees what is committed, so two transactions open at once in two courses pass each other |
| `GraduatePair` | `GeneratedPasses` | "so generation can never mint a row the approval-time recheck would then reject for a reason the TA had no way to see coming" (`worklog.go:1251`, of the week; the day's pay is read for the same reason, `:915`): a graduate is paid nothing by the hour in a special section; the regular copy of its sitting is generated at no cost, because "the copy generated here adds nothing to the day" (`:925`), and approval prices it at the regular rate |

| module | definition | what happens |
|---|---|---|
| `Documents` | `ApprovedIsBacked` | a verdict on the profile, read before another officer rejected a document, lands after; so does an upload that looked before the approval |
| `Documents` | `ErasedIsGone` | an upload that stored its file before the erasure was approved lands after the scrub listed the files |
| `PayoutLedger` | `LumpHeld` | two packs of different months, built at once while the lump or its weights change, freeze shares of different wholes |
| `PayoutLedger` | `PacksPrintLedger` | two downloads of a month, built at different rates: one locks it, both send what they built |
| `PayoutLedger` | `CorrectionsSupersede` | the same two packs carry one version |
| `Courses` | `UnsentTrackKept` | the count of the track that was not sent is read before the lock, and an update of its section in between is overwritten |
| `Courses` | `IssuedBudgetStands` | adding or deleting a section and merging a code do not ask whether a month was exported, or ask only for the flag, which an unlock clears |
| `Courses` | `SentRowsStand` | a fold looks at the flag; after an unlock a month is still at finance, and its hours move |
| `Courses` | `CodesOpenOnce` | a course is created under a code that a merge is about to take: the look is before the transaction |
| `Courses` | `FoldKeepsApproved` | of two copies of a sitting the partner's is kept, approved or not |

Two approvals in two courses do not exceed the day by themselves: each prices what is submitted
or approved in all courses, so it counts the other's rows. It takes something that changes rows in
review between an approval's recheck and its commit.

`TwoMonths` and `TwoTAs` are larger instances of `MCPayoutMonths` that pass
(`ImplementsMonthLifecycle` across a re-dating, and for exports that span TAs).

## 4. What is proved

Each for every value of its module's constants that satisfies the module's
assumption, and for any number of calls in flight.

### PayoutMonths

From `ConstantsAssumption` (a row belongs to an assignment, an assignment may log
some cells, a cell is in a period, there are values and modes):

- `TypeCorrect`: `Spec => []TypeOK`. `TypeOK` is inductive by itself; there is a
  lemma per kind of step: what a statement may write (`ImageTypes`), what ends a
  transaction (`FinishType`), what a request takes (`AcquireType`, `NeedType`),
  what it may be when it arrives (`ArriveBegins`).
- `LocksExclude`: transactions never hold locks that exclude each other.
- `ApprovedStand`, `ApprovalsAreOfSubmitted`: the two action properties of rows.
- `MonthsComplete`: `Spec => []SignedMonthsComplete`, and
  `RequestsImplementWorkflow`: `PayoutMonths` implements `MonthLifecycle`; both
  under `Guarded`.
- `SentBackMonthsAreEditable`: `Spec => SentBackIsEditable`, under `Guarded`. A send-back
  opens its months one by one and rejects their rows one statement at a time, and all of it
  commits later. The invariant (`Covers`) says that what it has written covers everything
  settled in the months it has opened: a writer's commit waits for the lock of each month it
  touches (`Spares`), so nothing is approved or submitted there in between.

The argument about rows. `ApprovedRowsStand` is about a step, but the step that
changes a row is a `Commit`, and what it writes was decided earlier. The
invariant `RowsInv` carries it over: every image a request has written and not
committed (`Owned`) is of a row whose lock it holds, and is a lawful next version
(`Lawful`) of the row *as it is now*. It stays lawful while others step because
their commits are of rows they have locked, and locks exclude each other
(`Exclusive`). `Shape` classifies what a step of a request can be: it ends the
transaction, it takes locks, it writes images under their locks, it moves on; it
is proved once per action, and everything else is proved about the shapes.

The argument about months. `SignedMonthsComplete` is not inductive: `ReviewSign`
relies on a count made a step before. `MonthsInv` adds what each stage has the
right to remember: a sign-off that has counted holds the cell's lock, and
the count is still right (`ReviewHolds`); what a writer has changed is in no
exported month, before or after (`WriteHolds`, which is what trigger 0124 and the
table lock achieve together: the trigger looked before the statement, and no
month can be locked while a writer holds `ROW EXCLUSIVE` on the table); what a
send-back has opened is not at finance (`ReopenHolds`); an export holds the table
between its lock and its mark (`StageHolds`). A commit keeps a count right because
it waits for the cell locks of its rows. The refinement is then a case per step:
a commit takes back the months it unsigns and leaves the claim of the others
alone (`Stays`, `TakesBack`); a sign-off is `Sign`, the mark is `Export`, and so on.

`Guarded` says that no period is deleted and no export began on an empty slice.
It is a real restriction: with either the properties are false, as `PeriodCascade`
and `EmptyFingerprint` show. It is the only hypothesis beyond the assumptions.

### TARequests

`RequestsTyped`, `CutsAreRemembered`, `VerdictsToldOnce`, `FinalVerdictsStand`, from the
invariant `ReqInv`. A verdict is written by `Commit` from an image decided steps
before, so none of them is inductive. `ReqInv` adds that two calls never hold the
same row (`Separate`), that every image a call carries is a lawful successor of the
row as it is now (`Calls`), and that a request the lecturer heard of was heard of once
and is marked told (`ToldOnes`). The image stays lawful because nobody else may commit
the row. `CutsRemembered` is itself a conjunct: every operator that trims, drops
or restores keeps `Remembered` of one row.

`CapIsHeld`, `NobodyTwiceOnACourse` and `NobodyInTwoPlaces` (in `TAAppointmentsProofs`), from
`AptInv`. A verdict compares a request with the others as its transaction sees them and
commits later. The invariant says that two calls never hold one TA's lock (`LocksApart`);
that the approved requests fit each other: distant in courses and sessions, every TA
within the cap (`Booked`); and that an approval a call carries either is of an
appointment that stands already, or fits among the others as the call sees them and is
of TAs the call has locked (`Apt`, `Claims`), so that what others commit meanwhile is
about other TAs. They hold under `Steady`: no timetable takes a whole section away, no
sections are added to an approved request, the rows from before the first request are
undecided or rejected for the rules, and overlapping is symmetric. The first two are what
the code does not protect: giving a section back, and adding one, take no TA's
lock; `TAReinstated` and `TARestored` show the properties false without them.

### Documents

`DocumentsTyped`, `QuotaIsHeld`, `OneCurrentDocument`, `VerdictsAreTold`,
`CompletedSetsApproved`, from `DocsInv`: what a call remembers at each stage
(`CallsGood`), no two calls hold the profile's row, the quota's lock or a stored file
(`Apart`), and `LastToldAll`: when all current documents are judged, the last notice
listed them; the call that completes the judgement holds the profile's row when it
looks, so it sees the other's. The quota is held because the count and the insert are under one advisory lock; one current
document because the unique index refuses the second.

`RowsKeepTheirFiles` (`FilesKept`) from `FileInv`: no two rows share a file (`OwnFiles`); a file
just stored is on no list and no other call's (`FilesApart`); what a sweep lists is past its
time or of a closed account and stays so, and what a regeneration drops is of no row
(`Holds`); an erasure is approved with the account closed (`ClosedFirst`).

### PayoutLedger

`LockedFiguresStand`: the figure in force of a locked month moves only with a
send-back, because every later row is for cells newly locked, at a later time.
`PacksPrintTheFrozenLump` from `LumpInv`: the ledger has one row a month, and a
download that got past `Freeze` agrees with it (`Agrees`), which no insert disturbs.

`LedgerTypes` and `SharesFair` from `Typed`: figures are amounts (`LedgerTypeOK`), and none a
download holds is more than its hours cost, which only the invariant says. `SharesFair` says what
a short pool pays each TA, exactly: its proportion of the pool, rounded down to a whole baht, and
the same in either mode. Both rest on lemmas about the operators of `Settlement`, one each: what filling in
order, spreading, sharing, settling around locked cells and placing a lump return, add
up to and are bounded by. With them the fairness of a short pool is arithmetic.
`LockInv`: a locked month has one row with its lock's time and none later, so its figure is
that row's.

`ReissuesAreCurrent` and `PoolIsHeld` are about downloads one at a time (`OneByOne`, part of
both properties) and come from `TurnInv`: a pack past `Lock` prints the figures of the months
it holds (`CallsHold`), so does an archived one while its months stay locked by it
(`BatchesHold`), and what is held, with what a pack about to lock adds, is within the pool
(`PoolCovers`). `PoolIsHeld`'s hypothesis `WholeMoney` says that a baht is not one satang and nobody
earns one satang an hour. It is needed: a pool that is used up is told from one that was
never configured by leaving 0.01 baht in it (`export_month_ledger.go:164`,
`budget_settlement.go:661`), and at such a rate TLC finds the pool overspent by that satang.

### Timesheets

`TimesheetsTypes`, from `Shapes`: the table is finite, its rows are proper lines with ids of their own,
and so are the rows a request is to commit; what a request aims at stays of its assignment. A
generation writes the result of a fold over the timetable; the fold stays among the finite sets
of drafts of its assignment because each turn does (`FilledStays`, `AdmitStays`).

`HoursArePaidOnce` is about the rows approved and those written and not yet committed (`Billed`).
A write that adds to them was compared, when it passed the trigger, with everything committed; what
is written and not committed belongs to another open transaction, and two of those are the
exception (`Crossing`). So no look, however stale, matters. Commits move rows from one part of
`Billed` to the other (`CommitsBegins`), and every other step leaves both alone or takes from them.

`WeekQuotaIsKept` and `DayPayIsKept`, from `GatesFine`: a gate not overtaken still has what its look
found, namely that the rows in review, with its own as they are to be, keep every week and day
(`WeeksFit`, `DaysFit`). Whatever changes the rows in review, or a makeup, overtakes the gates
left, so the rest of the steps are about what does not. When a gate commits, what is
approved is part of what was in review, and a part of a week or day that fits, fits. `DayPayHeld` is
about the regular rows of a day: a regular row is never priced by another copy, so its price does not
change with what becomes of other rows; a special row's does.

`RegeneratingIsStable` (`RegenerationStable`). What a generation wrote is what the next one wipes
(`MadeOpen`: its rows lie in months it may write), so the next one reads the same other rows
(`AgainSame`), meets the same classes (`LessonsSame`) and admits the same of them (`MadeSame`).

`GeneratedRowsPass` (`GeneratedPasses`) under `PaidByTheHour`: every hour of the TA is paid, and a regular
section's hour is not dearer than that of the special section taught with it. `Fitting` is what
the rows made so far keep: within the day's hours and pay, within each week with what
stays of it, and apart from everything that stands. `Admit` keeps it (`AdmitFits`), so the fold
does (`MadeFits`). Approving prices otherwise than generating: a copy of a sitting that a special
sibling bills was let in at no cost, and sets the sitting's price once both are sent; `SentPay`
maps each row priced then to one priced or counted before, no cheaper. The hypothesis
is needed: `GraduatePair` shows a generation whose rows approval refuses.

### Courses

`RequestsKeepTheirSections` (`WantedKept`), `LecturersFillBlanks`, `ExportedRosterStands`,
`SittingsStand`, from `CoursesInv`: `Shapes` (types of tables and images), `Alone` (two calls
never hold one course), `Grounded` (an export, a flag or a month needs a TA on a
section), `WantedKept`, and `StillRight`: what a call decided under the lock is still right
when it commits, for each operation: a section to be dropped is still unwanted, one to be
filled is still blank, a course to be re-sectioned is still not exported. `Grounded` is
what makes the exporter's lack of a lock harmless: a course without a request has nothing
to export, and a course with one refuses most changes.

`CoursesTypes` and `HeadcountsAddUp` (`HeadcountsAdd`) from `CountInv`: the sections are finitely
many, every head count is a natural number, and a course's column is the sum of its
sections' for each track it teaches; of the courses stored, and of the image a call holds
and will store. Each operation is a lemma about a sum: a section added, dropped,
re-tracked, resized or folded, a column spread over its sections.

### Sums

The models add with the folds of the community modules, recursive functions over the parts
of a set that draw the elements with a `CHOOSE`. `Sums` proves that such a function exists (`AddsExist`), that it is one (`AddsOnce`), and from these
that elements can be taken in any order (`SumTake`) and sums split, compared, scaled, grouped
and mapped. For folds that are not sums, it proves that a function computing the fold exists
(`FoldExists`) and that the fold stays in a set each turn stays in (`FoldStays`). The prover has no induction over sets; the lemmas use a least
counterexample instead (`SetInduction`, from the library's `NatLessThanWellFounded`), with the
induction's hypothesis given as a set.

### Only model-checked

Liveness (`RequestsEnd`, `RequestsAnswered`, `ErasureFinishes`: fairness is out of the
prover's reach). That the two exceptions of `Timesheets` are real is TLC's to show (`WeekOverrun`,
`DayOverrun`, `DoublePay`). Every other property of a passing run is a theorem.

## 5. Plan

1. Proofs: the ledger's figures as a refinement of `MonthLifecycle`.
2. `Appointments`: rounds, cancellation, and the gate that keeps an unappointed TA out
   of an export; composed with `TARequests`, where an order freezes a request.
3. `SignIn`: attempt counters, lockout windows, one-use codes and refresh rotation.
4. Notification folding, the scheduler's catch-up, demo slots, the migration lock, the
   resumable key rotation.
5. The arithmetic of workload rules and budgets against reference definitions.

## 6. Not modelled

Document layout, mail, storage, encryption, imports and parsing, dashboards,
reference data: I/O or single guarded updates without a protocol. Each component
and the reason is in `PROJECT.json`. In the modelled parts: a period's change of
month (`year_month`), TA review schedules as an operation (they are an input of
Generate), reminders, the notices that follow a commit, section locks, the
matching of automatic makeups, the columns an erasure blanks in other tables, the
splitting of a month over its payment slots.
