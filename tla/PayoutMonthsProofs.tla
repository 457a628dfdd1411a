-------------------------- MODULE PayoutMonthsProofs --------------------------
(***************************************************************************)
(* That every table and request of PayoutMonths keeps its type, that its    *)
(* transactions are behind their locks, and what that makes of the rows of  *)
(* work_logs: whatever the rows, months, TAs, requests and operations.      *)
(*                                                                         *)
(* The types come first, a lemma per kind of step.  Then RowsInv: locks     *)
(* that exclude each other are never held by two requests, and whatever a   *)
(* request has written and not committed is of rows it has locked and is a  *)
(* lawful next version of what is committed.  Last, the workflow of a       *)
(* month: what a signature rests on, that the requests implement            *)
(* MonthLifecycle, and what a send-back leaves.                             *)
(***************************************************************************)
EXTENDS PayoutMonths, TLAPS

LEMMA NoRowType == NoRow \in RowRec /\ NoPack \in [rows : SUBSET Versions, mode : Modes]
  BY ConstantsAssumption DEF NoRow, NoPack, RowRec, RowStates, Versions

LEMMA NewType ==
  /\ Idle \in Request
  /\ \A op \in OpNames, at \in Stages : New(op, at) \in Request
  BY NoRowType DEF Idle, New, Request, Stages

LEMMA FieldTypes ==
  ASSUME NEW q \in Request
  PROVE  /\ \A x \in Stages : [q EXCEPT !.at = x] \in Request
         /\ \A x \in SUBSET Asgs : [q EXCEPT !.asgs = x] \in Request
         /\ \A x \in SUBSET Cells : [q EXCEPT !.cells = x] \in Request
         /\ \A x \in SUBSET Rows : [q EXCEPT !.rows = x] \in Request
         /\ \A x \in RowRec : [q EXCEPT !.to = x] \in Request
         /\ \A x \in SUBSET Versions : [q EXCEPT !.seen = x] \in Request
         /\ \A x \in BOOLEAN : [q EXCEPT !.sure = x] \in Request
         /\ \A x \in SUBSET Versions, m \in Modes :
               [q EXCEPT !.pack = [rows |-> x, mode |-> m]] \in Request
  BY DEF Request

LEMMA LockTypes ==
  /\ TableShare \in Locks /\ TableRowEx \in Locks /\ CourseLock \in Locks /\ CourseRow \in Locks
  /\ \A c \in Cells : CellLock(c) \in Locks /\ StatusRow(c) \in Locks
  /\ \A r \in Rows : RowLock(r) \in Locks
  BY DEF Locks

LEMMA NeedType ==
  ASSUME TypeOK, NEW i \in Reqs
  PROVE  Need(i) \subseteq Locks
<1> USE LockTypes DEF When, StatementLocks, Written
<1>1. \A W : StatementLocks(W) \subseteq Locks
  OBVIOUS
<1>2. req[i].cells \subseteq Cells
  BY DEF TypeOK, Request
<1>3. Exportable(i) \subseteq Cells
  BY <1>2 DEF Exportable
<1>4. NextCells(i) \subseteq Cells
  BY <1>2 DEF NextCells, NextCell, Unopened
<1>5. Touched(buf[i]) \subseteq Cells
  BY DEF Touched, TypeOK, RowRec
<1> QED
  BY <1>1, <1>2, <1>3, <1>4, <1>5 DEF Need

LEMMA ImageTypes ==
  ASSUME TypeOK, NEW i \in Reqs
  PROVE  /\ UpsertRows(i) \in [Rows -> RowRec]
         /\ GenerateRows(i) \in [Rows -> RowRec]
         /\ ClearRows(i) \in [Rows -> RowRec]
         /\ DeleteRows(i) \in [Rows -> RowRec]
         /\ SubmitRows(i) \in [Rows -> RowRec]
         /\ ApproveRows(i) \in [Rows -> RowRec]
         /\ RejectRows(i) \in [Rows -> RowRec]
         /\ StaffUpsertRows(i) \in [Rows -> RowRec]
         /\ AdjustRows(i) \in [Rows -> RowRec]
         /\ CutRows(i) \in [Rows -> RowRec]
         /\ ReopenRows(i) \in [Rows -> RowRec]
<1>1. /\ req[i].to \in RowRec
      /\ work \in [Rows -> RowRec]
      /\ NoRow \in RowRec
  BY NoRowType DEF TypeOK, Request
<1>2. \A rec \in RowRec, st \in RowStates : [rec EXCEPT !.st = st] \in RowRec
  BY DEF RowRec
<1>3. \A S, st : st \in RowStates => Rewrite(S, st) \in [Rows -> RowRec]
  BY <1>1, <1>2 DEF Rewrite
<1>4. \A S, rec : rec \in RowRec => Entry(S, rec) \in [Rows -> RowRec]
  BY <1>1 DEF Entry
<1>5. UpsertRows(i) \in [Rows -> RowRec]
  BY <1>1, <1>2, <1>4 DEF UpsertRows, RowStates
<1>6. GenerateRows(i) \in [Rows -> RowRec]
  BY <1>1, <1>2, <1>3 DEF GenerateRows, RowStates
<1>7. StaffUpsertRows(i) \in [Rows -> RowRec]
  BY <1>1, <1>2 DEF StaffUpsertRows, RowStates, RowRec
<1>8. AdjustRows(i) \in [Rows -> RowRec]
  BY <1>1 DEF AdjustRows, RowRec
<1> QED
  BY <1>3, <1>5, <1>6, <1>7, <1>8
     DEF ClearRows, DeleteRows, SubmitRows, ApproveRows, RejectRows, CutRows, ReopenRows, RowStates

LEMMA FinishType ==
  ASSUME TypeOK, NEW i \in Reqs, Finish(i)
  PROVE  /\ req' \in [Reqs -> Request]
         /\ held' \in [Reqs -> SUBSET Locks]
         /\ buf' \in [Reqs -> [Rows -> RowRec]]
  BY NewType, NoRowType DEF TypeOK, Finish, NoWrite

LEMMA BeginType ==
  ASSUME TypeOK, NEW i \in Reqs, NEW r \in Request, Begin(i, r)
  PROVE  TypeOK'
  BY DEF TypeOK, Begin, dbVars

LEMMA GotoType ==
  ASSUME TypeOK, NEW i \in Reqs, NEW s \in Stages, Goto(i, s)
  PROVE  req' \in [Reqs -> Request]
<1>1. req[i] \in Request
  BY DEF TypeOK
<1>2. [req[i] EXCEPT !.at = s] \in Request
  BY <1>1, FieldTypes
<1> QED
  BY <1>2 DEF TypeOK, Goto

LEMMA AcquireType ==
  ASSUME TypeOK, NEW i \in Reqs, Acquire(i)
  PROVE  held' \in [Reqs -> SUBSET Locks]
  BY NeedType DEF TypeOK, Acquire

LEMMA StatementType ==
  ASSUME TypeOK, NEW i \in Reqs, NEW W \in [Rows -> RowRec], Statement(i, W)
  PROVE  TypeOK'
<1>1. CASE Finish(i)
  BY <1>1, FinishType DEF Statement, TypeOK, dbVars
<1>2. CASE Acquire(i) /\ Goto(i, "written") /\ buf' = [buf EXCEPT ![i] = W]
  <2>1. "written" \in Stages
    BY DEF Stages
  <2> QED
    BY <1>2, <2>1, AcquireType, GotoType DEF Statement, TypeOK, dbVars
<1> QED
  BY <1>1, <1>2 DEF Statement

(* What a request that has just been let in looks like: well typed, at a      *)
(* stage before its first lock, and a sign-off names one month.               *)
FirstStages == {"ready", "checked", "fingerprinted", "listed"}

Arrival(q) == /\ q \in Request
              /\ q.at \in FirstStages
              /\ q.op = "review" => \E c \in Cells : q.cells = {c}

LEMMA ArriveBegins ==
  ASSUME TypeOK, NEW i \in Reqs, Arrive(i)
  PROVE  \E q : Arrival(q) /\ Begin(i, q)
<1>1. \A op \in OpNames, at \in FirstStages : New(op, at) \in Request
  BY NewType DEF FirstStages, Stages
<1>2. \A c \in Cells, v \in Vals : [st |-> "draft", cell |-> c, val |-> v] \in RowRec
  BY DEF RowRec, RowStates
<1>3. \A S \in MonthSets : S \subseteq Cells
  BY DEF MonthSets
<1>4. ASSUME UpsertCheck(i) PROVE \E q : Arrival(q) /\ Begin(i, q)
  <2> DEFINE q(r, c, v) == [New("upsert", "ready") EXCEPT !.rows = {r}, !.to = [st |-> "draft", cell |-> c, val |-> v]]
  <2>1. PICK r \in Rows, c \in Cells, v \in Vals : Begin(i, q(r, c, v))
    BY <1>4, Zenon DEF UpsertCheck
  <2>2. q(r, c, v) \in Request
    BY <1>1, <1>2, FieldTypes DEF OpNames, FirstStages
  <2>3. q(r, c, v).at = "ready" /\ q(r, c, v).op = "upsert"
    BY DEF New, Idle
  <2> QED
    BY <2>1, <2>2, <2>3 DEF Arrival, FirstStages
<1>5. ASSUME GenerateCheck(i) PROVE \E q : Arrival(q) /\ Begin(i, q)
  <2> DEFINE q(a, C, N, c, v) == [New("generate", "ready") EXCEPT
                !.asgs = {a}, !.cells = C, !.rows = N, !.to = [st |-> "draft", cell |-> c, val |-> v]]
  <2> DEFINE clear(a) == {c \in MonthsOf[a] : ~InReview(a, c) /\ ~Closed(c) /\ ~Locked(c)}
             spare(a) == {r \in Rows : AsgOf[r] = a /\ Fresh(r)}
  <2>1. PICK a \in Asgs, v \in Vals :
           \E c \in clear(a), N \in SUBSET spare(a) : Begin(i, q(a, clear(a), N, c, v))
    BY <1>5, Zenon DEF GenerateCheck
  <2>2. PICK c \in clear(a), N \in SUBSET spare(a) : Begin(i, q(a, clear(a), N, c, v))
    BY <2>1, Zenon
  <2>3. clear(a) \subseteq Cells /\ c \in Cells /\ N \subseteq Rows
    BY ConstantsAssumption
  <2> HIDE DEF clear, spare
  <2>4. [New("generate", "ready") EXCEPT !.asgs = {a}, !.cells = clear(a)] \in Request
    BY <1>1, <2>3, FieldTypes DEF OpNames, FirstStages
  <2>5. q(a, clear(a), N, c, v) \in Request
    BY <1>2, <2>3, <2>4, FieldTypes
  <2>6. q(a, clear(a), N, c, v).at = "ready" /\ q(a, clear(a), N, c, v).op = "generate"
    BY DEF New, Idle
  <2> QED
    BY <2>2, <2>5, <2>6 DEF Arrival, FirstStages
<1>6. ASSUME ClearDraftsCheck(i) PROVE \E q : Arrival(q) /\ Begin(i, q)
  <2> DEFINE q(A, c, v) == [New("clear_drafts", "ready") EXCEPT !.asgs = A, !.cells = {c}, !.to = [st |-> "draft", cell |-> c, val |-> v]]
  <2>1. PICK A \in (SUBSET Asgs) \ {{}}, c \in Cells, v \in Vals : Begin(i, q(A, c, v))
    BY <1>6, Zenon DEF ClearDraftsCheck
  <2>2. q(A, c, v) \in Request
    BY <1>1, <1>2, FieldTypes DEF OpNames, FirstStages
  <2>3. q(A, c, v).at = "ready" /\ q(A, c, v).op = "clear_drafts"
    BY DEF New, Idle
  <2> QED
    BY <2>1, <2>2, <2>3 DEF Arrival, FirstStages
<1>7. ASSUME DeleteCheck(i) PROVE \E q : Arrival(q) /\ Begin(i, q)
  <2> DEFINE q(r) == [New("delete", "ready") EXCEPT !.rows = {r}]
  <2>1. PICK r \in Rows : Begin(i, q(r))
    BY <1>7, Zenon DEF DeleteCheck
  <2>2. q(r) \in Request
    BY <1>1, FieldTypes DEF OpNames, FirstStages
  <2>3. q(r).at = "ready" /\ q(r).op = "delete"
    BY DEF New, Idle
  <2> QED
    BY <2>1, <2>2, <2>3 DEF Arrival, FirstStages
<1>8. ASSUME StaffDeleteCheck(i) PROVE \E q : Arrival(q) /\ Begin(i, q)
  <2> DEFINE q(r) == [New("staff_delete", "ready") EXCEPT !.rows = {r}]
  <2>1. PICK r \in Rows : Begin(i, q(r))
    BY <1>8, Zenon DEF StaffDeleteCheck
  <2>2. q(r) \in Request
    BY <1>1, FieldTypes DEF OpNames, FirstStages
  <2>3. q(r).at = "ready" /\ q(r).op = "staff_delete"
    BY DEF New, Idle
  <2> QED
    BY <2>1, <2>2, <2>3 DEF Arrival, FirstStages
<1>9. ASSUME SubmitCheck(i) PROVE \E q : Arrival(q) /\ Begin(i, q)
  <2> DEFINE q(a, S) == [New("submit", "ready") EXCEPT !.asgs = {a}, !.cells = S]
  <2>1. PICK a \in Asgs, S \in MonthSets : Begin(i, q(a, S))
    BY <1>9, Zenon DEF SubmitCheck
  <2>2. q(a, S) \in Request
    BY <1>1, <1>3, FieldTypes DEF OpNames, FirstStages
  <2>3. q(a, S).at = "ready" /\ q(a, S).op = "submit"
    BY DEF New, Idle
  <2> QED
    BY <2>1, <2>2, <2>3 DEF Arrival, FirstStages
<1>10. ASSUME ApproveCheck(i) PROVE \E q : Arrival(q) /\ Begin(i, q)
  <2> DEFINE q(a, S) == [New("approve", "checked") EXCEPT !.asgs = {a}, !.cells = S]
  <2>1. PICK a \in Asgs, S \in MonthSets : Begin(i, q(a, S))
    BY <1>10, Zenon DEF ApproveCheck, ReviewBatch
  <2>2. q(a, S) \in Request
    BY <1>1, <1>3, FieldTypes DEF OpNames, FirstStages
  <2>3. q(a, S).at = "checked" /\ q(a, S).op = "approve"
    BY DEF New, Idle
  <2> QED
    BY <2>1, <2>2, <2>3 DEF Arrival, FirstStages
<1>11. ASSUME ApproveManyCheck(i) PROVE \E q : Arrival(q) /\ Begin(i, q)
  <2> DEFINE q(A, S) == [New("approve_many", "checked") EXCEPT !.asgs = A, !.cells = S]
  <2>1. PICK A \in (SUBSET Asgs) \ {{}}, S \in MonthSets : Begin(i, q(A, S))
    BY <1>11, Zenon DEF ApproveManyCheck, ReviewBatch
  <2>2. q(A, S) \in Request
    BY <1>1, <1>3, FieldTypes DEF OpNames, FirstStages
  <2>3. q(A, S).at = "checked" /\ q(A, S).op = "approve_many"
    BY DEF New, Idle
  <2> QED
    BY <2>1, <2>2, <2>3 DEF Arrival, FirstStages
<1>12. ASSUME RejectCheck(i) PROVE \E q : Arrival(q) /\ Begin(i, q)
  <2> DEFINE q(a, S) == [New("reject", "checked") EXCEPT !.asgs = {a}, !.cells = S]
  <2>1. PICK a \in Asgs, S \in MonthSets : Begin(i, q(a, S))
    BY <1>12, Zenon DEF RejectCheck, ReviewBatch
  <2>2. q(a, S) \in Request
    BY <1>1, <1>3, FieldTypes DEF OpNames, FirstStages
  <2>3. q(a, S).at = "checked" /\ q(a, S).op = "reject"
    BY DEF New, Idle
  <2> QED
    BY <2>1, <2>2, <2>3 DEF Arrival, FirstStages
<1>13. ASSUME StaffUpsertCheck(i) PROVE \E q : Arrival(q) /\ Begin(i, q)
  <2> DEFINE q(r, c, v) == [New("staff_upsert", "ready") EXCEPT !.rows = {r}, !.to = [st |-> "draft", cell |-> c, val |-> v],
                         !.sure = (work[r].st = "approved")]
  <2>1. PICK r \in Rows, c \in Cells, v \in Vals : Begin(i, q(r, c, v))
    BY <1>13, Zenon DEF StaffUpsertCheck
  <2>2. [New("staff_upsert", "ready") EXCEPT !.rows = {r}, !.to = [st |-> "draft", cell |-> c, val |-> v]] \in Request
    BY <1>1, <1>2, FieldTypes DEF OpNames, FirstStages
  <2>3. q(r, c, v) \in Request
    BY <1>2, FieldTypes, <2>2 DEF OpNames, FirstStages
  <2>4. q(r, c, v).at = "ready" /\ q(r, c, v).op = "staff_upsert"
    BY DEF New, Idle
  <2> QED
    BY <2>1, <2>3, <2>4 DEF Arrival, FirstStages
<1>14. ASSUME AdjustCheck(i) PROVE \E q : Arrival(q) /\ Begin(i, q)
  <2> DEFINE q(r, v) == [New("adjust", "ready") EXCEPT !.rows = {r}, !.to = [work[r] EXCEPT !.val = v]]
  <2>1. PICK r \in Rows, v \in Vals : Begin(i, q(r, v))
    BY <1>14, Zenon DEF AdjustCheck
  <2>2. work[r] \in RowRec
    BY DEF TypeOK
  <2>3. [work[r] EXCEPT !.val = v] \in RowRec
    BY <2>2 DEF RowRec
  <2>4. q(r, v) \in Request
    BY <1>1, FieldTypes, <2>2, <2>3 DEF OpNames, FirstStages
  <2>5. q(r, v).at = "ready" /\ q(r, v).op = "adjust"
    BY DEF New, Idle
  <2> QED
    BY <2>1, <2>4, <2>5 DEF Arrival, FirstStages
<1>15. ASSUME CutCheck(i) PROVE \E q : Arrival(q) /\ Begin(i, q)
  <2> DEFINE q(r) == [New("cut", "ready") EXCEPT !.rows = {r}]
  <2>1. PICK r \in Rows : Begin(i, q(r))
    BY <1>15, Zenon DEF CutCheck
  <2>2. q(r) \in Request
    BY <1>1, FieldTypes DEF OpNames, FirstStages
  <2>3. q(r).at = "ready" /\ q(r).op = "cut"
    BY DEF New, Idle
  <2> QED
    BY <2>1, <2>2, <2>3 DEF Arrival, FirstStages
<1>16. ASSUME ReviewBegin(i) PROVE \E q : Arrival(q) /\ Begin(i, q)
  <2> DEFINE q(c) == [New("review", "checked") EXCEPT !.cells = {c}]
  <2>1. PICK c \in Cells : Begin(i, q(c))
    BY <1>16, Zenon DEF ReviewBegin
  <2>2. q(c) \in Request
    BY <1>1, FieldTypes DEF OpNames, FirstStages
  <2>3. q(c).at = "checked" /\ q(c).op = "review" /\ q(c).cells = {c}
    BY DEF New, Idle
  <2> QED
    BY <2>1, <2>2, <2>3 DEF Arrival, FirstStages
<1>17. ASSUME SentBackBegin(i) PROVE \E q : Arrival(q) /\ Begin(i, q)
  <2> DEFINE q(c) == [New("sent_back", "listed") EXCEPT !.cells = {c}]
  <2>1. PICK c \in Cells : Begin(i, q(c))
    BY <1>17, Zenon DEF SentBackBegin
  <2>2. q(c) \in Request
    BY <1>1, FieldTypes DEF OpNames, FirstStages
  <2>3. q(c).at = "listed" /\ q(c).op = "sent_back"
    BY DEF New, Idle
  <2> QED
    BY <2>1, <2>2, <2>3 DEF Arrival, FirstStages
<1>18. ASSUME UnexportBegin(i) PROVE \E q : Arrival(q) /\ Begin(i, q)
  <2> DEFINE q == New("unexport", "checked")
  <2>1. Begin(i, q)
    BY <1>18, Zenon DEF UnexportBegin
  <2>2. q \in Request
    BY <1>1, FieldTypes DEF OpNames, FirstStages
  <2>3. q.at = "checked" /\ q.op = "unexport"
    BY DEF New, Idle
  <2> QED
    BY <2>1, <2>2, <2>3 DEF Arrival, FirstStages
<1>19. ASSUME SettlementCheck(i) PROVE \E q : Arrival(q) /\ Begin(i, q)
  <2> DEFINE q(m) == [New("settlement", "checked") EXCEPT !.pack = [rows |-> {}, mode |-> m]]
  <2>1. PICK m \in Modes : Begin(i, q(m))
    BY <1>19, Zenon DEF SettlementCheck
  <2>2. q(m) \in Request
    BY <1>1, FieldTypes DEF OpNames, FirstStages
  <2>3. q(m).at = "checked" /\ q(m).op = "settlement"
    BY DEF New, Idle
  <2> QED
    BY <2>1, <2>2, <2>3 DEF Arrival, FirstStages
<1>20. ASSUME PeriodDeleteCheck(i) PROVE \E q : Arrival(q) /\ Begin(i, q)
  <2> DEFINE q(p) == [New("period_delete", "checked") EXCEPT !.cells = {c \in Cells : PeriodOf[c] = p}]
  <2>1. PICK p \in Periods : Begin(i, q(p))
    BY <1>20, Zenon DEF PeriodDeleteCheck
  <2>2. q(p) \in Request
    BY <1>1, FieldTypes DEF OpNames, FirstStages
  <2>3. q(p).at = "checked" /\ q(p).op = "period_delete"
    BY DEF New, Idle
  <2> QED
    BY <2>1, <2>2, <2>3 DEF Arrival, FirstStages
<1>21. ASSUME ExportFingerprint(i) PROVE \E q : Arrival(q) /\ Begin(i, q)
  <2> DEFINE q(op, S) == [New(op, "fingerprinted") EXCEPT !.cells = S, !.seen = Fingerprint(S)]
  <2>1. PICK S \in MonthSets : \/ Begin(i, q("export", S))
                               \/ Begin(i, q("export_empty", S))
    BY <1>21, Zenon DEF ExportFingerprint
  <2>2. Fingerprint(S) \subseteq Versions
    BY DEF Fingerprint, Versions, TypeOK
  <2>3. q("export", S) \in Request /\ q("export_empty", S) \in Request
    BY <1>1, <1>3, <2>2, FieldTypes DEF OpNames, FirstStages
  <2>4. \A op : q(op, S).at = "fingerprinted" /\ q(op, S).op = op
    BY DEF New, Idle
  <2> QED
    BY <2>1, <2>3, <2>4 DEF Arrival, FirstStages
<1> QED
  BY <1>4, <1>5, <1>6, <1>7, <1>8, <1>9, <1>10, <1>11, <1>12, <1>13, <1>14, <1>15, <1>16,
     <1>17, <1>18, <1>19, <1>20, <1>21 DEF Arrive

LEMMA StepType ==
  ASSUME TypeOK, NEW i \in Reqs, Step(i)
  PROVE  TypeOK'
<1>1. req[i] \in Request
  BY DEF TypeOK
<1>2. \A A, S, st : Batch(A, S, st) \subseteq Rows
  BY DEF Batch
<1>3. "snapped" \in Stages /\ "ready" \in Stages /\ "serial" \in Stages /\ "counted" \in Stages
      /\ "gated" \in Stages /\ "built" \in Stages /\ "share" \in Stages /\ "locked" \in Stages
      /\ "flagged" \in Stages /\ "listed" \in Stages /\ "reopened" \in Stages
  BY DEF Stages
<1>4. ASSUME NEW s \in Stages, Snapshot(i, s) PROVE TypeOK'
  <2> DEFINE R == Batch(req[i].asgs, req[i].cells, {"submitted"})
  <2>1. R \in SUBSET Rows
    BY <1>2
  <2> HIDE DEF R
  <2>2. [req[i] EXCEPT !.at = s, !.rows = R] \in Request
    BY <1>1, <2>1, FieldTypes
  <2> USE DEF R
  <2> QED
    BY <1>4, <2>2 DEF Snapshot, TypeOK, dbVars
<1>5. ASSUME NEW s \in Stages, TakeCourseLock(i, s) PROVE TypeOK'
  BY <1>5, AcquireType, GotoType DEF TakeCourseLock, TypeOK, dbVars
<1>6. CASE ApproveSnapshot(i) \/ ApproveManySnapshot(i) \/ RejectSnapshot(i)
  BY <1>3, <1>4, <1>6 DEF ApproveSnapshot, ApproveManySnapshot, RejectSnapshot
<1>7. CASE ApproveSerialize(i) \/ ApproveManySerialize(i)
  BY <1>3, <1>5, <1>7 DEF ApproveSerialize, ApproveManySerialize
<1>8. CASE \/ UpsertWrite(i) \/ GenerateWrite(i) \/ ClearDraftsWrite(i) \/ DeleteWrite(i)
            \/ SubmitWrite(i) \/ ApproveWrite(i) \/ RejectWrite(i)
            \/ StaffUpsertWrite(i) \/ AdjustWrite(i) \/ CutWrite(i)
  BY <1>8, ImageTypes, StatementType
     DEF UpsertWrite, GenerateWrite, ClearDraftsWrite, DeleteWrite, SubmitWrite, ApproveWrite,
         RejectWrite, StaffUpsertWrite, AdjustWrite, CutWrite
<1>9. Overlay(buf[i]) \in [Rows -> RowRec]
  BY DEF Overlay, TypeOK
<1>10. CASE Commit(i)
  <2>1. ReviewReset(buf[i]) \in [Cells -> CellStates]
    BY DEF ReviewReset, TypeOK, CellStates
  <2> QED
    BY <1>9, <1>10, <2>1, FinishType DEF Commit, TypeOK
<1>11. CASE ReviewCount(i)
  BY <1>3, <1>11, FinishType, AcquireType, GotoType DEF ReviewCount, TypeOK, dbVars
<1>12. CASE ReviewSign(i)
  <2>1. status' \in [Cells -> CellStates]
    BY <1>12 DEF ReviewSign, TypeOK, CellStates
  <2> QED
    BY <1>12, <2>1, FinishType DEF ReviewSign, TypeOK
<1>13. CASE ExportGate(i)
  BY <1>3, <1>13, FinishType, GotoType DEF ExportGate, TypeOK, dbVars
<1>14. CASE ExportBuild(i)
  <2> DEFINE paid == UNION {Claim(c) : c \in req[i].cells}
  <2>1. paid \subseteq Versions
    BY DEF Claim, Approved, RowsIn, Versions, TypeOK
  <2> HIDE DEF paid
  <2>2. mode \in Modes
    BY DEF TypeOK
  <2>3. [req[i] EXCEPT !.at = "built", !.pack = [rows |-> paid, mode |-> mode]] \in Request
    BY <1>1, <1>3, <2>1, <2>2, FieldTypes
  <2> QED
    BY <1>14, <2>3 DEF ExportBuild, TypeOK, dbVars, paid
<1>15. CASE ExportLockTable(i)
  BY <1>3, <1>15, AcquireType, GotoType DEF ExportLockTable, TypeOK, dbVars
<1>16. CASE ExportMark(i)
  <2>1. \A c : PackOf(i, c) \in [rows : SUBSET Versions, mode : Modes]
    BY <1>1 DEF PackOf, Request
  <2>2. ledger' \in [Cells -> [rows : SUBSET Versions, mode : Modes]]
    BY <1>16, <2>1 DEF ExportMark, TypeOK
  <2>3. status' \in [Cells -> CellStates]
    BY <1>16 DEF ExportMark, TypeOK, CellStates
  <2>4. /\ req' \in [Reqs -> Request]
        /\ held' \in [Reqs -> SUBSET Locks]
        /\ buf' \in [Reqs -> [Rows -> RowRec]]
    <3>1. CASE Finish(i)
      BY <3>1, FinishType
    <3>2. CASE /\ held' = [held EXCEPT ![i] = {}]
               /\ req' = [req EXCEPT ![i].at = "locked",
                            ![i].cells = {c \in @ : Locked(c) \/ c \in Exportable(i)}]
               /\ UNCHANGED buf
      <4> DEFINE C == {c \in req[i].cells : Locked(c) \/ c \in Exportable(i)}
      <4>1. C \in SUBSET Cells
        BY <1>1 DEF Request
      <4> HIDE DEF C
      <4>2. [req[i] EXCEPT !.at = "locked", !.cells = C] \in Request
        BY <1>1, <1>3, <4>1, FieldTypes
      <4>3. req' = [req EXCEPT ![i] = [req[i] EXCEPT !.at = "locked", !.cells = C]]
        BY <3>2 DEF TypeOK, C
      <4> QED
        BY <3>2, <4>2, <4>3 DEF TypeOK
    <3> QED
      BY <1>16, <3>1, <3>2, Zenon DEF ExportMark
  <2> QED
    BY <1>16, <2>2, <2>3, <2>4 DEF ExportMark, TypeOK
<1>17. CASE ExportFlag(i)
  BY <1>3, <1>17, GotoType DEF ExportFlag, TypeOK
<1>18. CASE ExportSend(i)
  BY <1>18, FinishType DEF ExportSend, TypeOK, dbVars
<1>19. CASE UnexportList(i)
  <2> DEFINE exported == {c \in Cells : status[c] = "exported"}
  <2>1. CASE Finish(i)
    BY <1>19, <2>1, FinishType DEF UnexportList, TypeOK, dbVars
  <2>2. CASE /\ Acquire(i)
             /\ req' = [req EXCEPT ![i].at = "listed", ![i].cells = exported]
             /\ UNCHANGED buf
    <3> exported \in SUBSET Cells
      OBVIOUS
    <3> HIDE DEF exported
    <3>1. [req[i] EXCEPT !.at = "listed", !.cells = exported] \in Request
      BY <1>1, <1>3, FieldTypes
    <3> USE DEF exported
    <3> QED
      BY <1>19, <2>2, <3>1, AcquireType DEF UnexportList, TypeOK, dbVars
  <2> QED
    BY <1>19, <2>1, <2>2, Zenon DEF UnexportList
<1>20. CASE ReopenCell(i)
  BY <1>3, <1>20, FinishType, AcquireType, GotoType DEF ReopenCell, TypeOK, dbVars
<1>21. CASE ReopenWrite(i)
  BY <1>3, <1>21, ImageTypes, AcquireType, GotoType DEF ReopenWrite, TypeOK, dbVars
<1>22. CASE ReopenCommit(i)
  <2>1. /\ work' \in [Rows -> RowRec]
        /\ status' \in [Cells -> CellStates]
        /\ flagged' \in BOOLEAN
    BY <1>9, <1>22 DEF ReopenCommit, TypeOK, CellStates
  <2> QED
    BY <1>22, <2>1, FinishType DEF ReopenCommit, TypeOK
<1>23. CASE SettlementApply(i)
  <2>1. /\ mode' \in Modes
        /\ status' \in [Cells -> CellStates]
        /\ flagged' \in BOOLEAN
    BY <1>1, <1>23 DEF SettlementApply, TypeOK, CellStates, Request
  <2> QED
    BY <1>23, <2>1, FinishType DEF SettlementApply, TypeOK
<1>24. CASE PeriodDelete(i)
  <2>1. /\ period' \in [Periods -> PeriodStates]
        /\ status' \in [Cells -> CellStates]
    BY <1>24 DEF PeriodDelete, TypeOK, CellStates, PeriodStates
  <2> QED
    BY <1>24, <2>1, FinishType DEF PeriodDelete, TypeOK
<1> QED
  BY <1>6, <1>7, <1>8, <1>10, <1>11, <1>12, <1>13, <1>14, <1>15, <1>16, <1>17, <1>18, <1>19,
     <1>20, <1>21, <1>22, <1>23, <1>24 DEF Step

LEMMA NextType == TypeOK /\ [Next]_vars => TypeOK'
<1> SUFFICES ASSUME TypeOK, [Next]_vars PROVE TypeOK'
  OBVIOUS
<1>1. ASSUME NEW i \in Reqs, Arrive(i) PROVE TypeOK'
  BY <1>1, ArriveBegins, BeginType DEF Arrival
<1>2. ASSUME NEW i \in Reqs, Step(i) PROVE TypeOK'
  BY <1>2, StepType
<1>3. ASSUME NEW i \in Reqs, Abort(i) \/ DeadlockAbort(i) PROVE TypeOK'
  BY <1>3, FinishType DEF Abort, DeadlockAbort, TypeOK, dbVars
<1>4. ASSUME Office PROVE TypeOK'
  BY <1>4 DEF Office, MarkFinanceSent, RevertFinanceSent, PeriodClose, PeriodExtend, PeriodCreate,
              TypeOK, CellStates, PeriodStates
<1>5. ASSUME UNCHANGED vars PROVE TypeOK'
  BY <1>5 DEF vars, TypeOK
<1> QED
  BY <1>1, <1>2, <1>3, <1>4, <1>5 DEF Next

LEMMA InitType == Init => TypeOK
<1> SUFFICES ASSUME Init PROVE TypeOK
  OBVIOUS
<1>1. NoWrite \in [Rows -> RowRec]
  BY NoRowType DEF NoWrite
<1> QED
  BY <1>1, NewType, NoRowType DEF Init, TypeOK, CellStates, PeriodStates

(* Whatever the requests do, the tables, the requests and their locks keep   *)
(* their types: no statement writes a status the CHECK constraints refuse.   *)
THEOREM TypeCorrect == Spec => []TypeOK
  BY InitType, NextType, PTL DEF Spec

-----------------------------------------------------------------------------
(* What a step of a request does to its locks and to the rows it has written *)
(* and not committed.  A request that goes on keeps its operation, and what  *)
(* it read of the row's approval.                                            *)
GoesOn(i) == /\ req'[i].op = req[i].op
             /\ req'[i].sure = req[i].sure
             /\ \A j \in Reqs \ {i} : req'[j] = req[j]

(* A row image that a request may write: an approved row is changed by a     *)
(* StaffUpsert that read it as approved, and stays approved; what becomes    *)
(* approved was submitted; a send-back rejects rows of the months it opened. *)
Lawful(i, r, rec) ==
    /\ req[i].op \in Writes =>
          /\ work[r].st = "approved" /\ rec # work[r] =>
                req[i].op = "staff_upsert" /\ req[i].sure /\ rec.st = "approved"
          /\ rec.st = "approved" /\ work[r].st # "approved" =>
                work[r] = [rec EXCEPT !.st = "submitted"]
    /\ req[i].op \in Reopens =>
          work[r].cell \in Opened(i) /\ rec = [work[r] EXCEPT !.st = "rejected"]

WritesRows(i, W) == /\ Granted(i) /\ Acquire(i)
                    /\ buf' = [buf EXCEPT ![i] = W]
                    /\ UNCHANGED dbVars
                    /\ StatementLocks(W) \subseteq Need(i)
                    /\ req[i].op \in Writes \cup Reopens
                    /\ req[i].op \in Writes => ~Refused(W)
                    /\ \A r \in Written(W) : Lawful(i, r, W[r])

Shape(i) == \/ Finish(i)
            \/ /\ GoesOn(i)
               /\ \/ UNCHANGED <<held, buf>>
                  \/ Granted(i) /\ Acquire(i) /\ UNCHANGED <<dbVars, buf>>
                  \/ \E W \in [Rows -> RowRec] : WritesRows(i, W)
                  \/ /\ req[i].op \in Exports
                     /\ held' = [held EXCEPT ![i] = {}]
                     /\ UNCHANGED buf

LEMMA GotoGoesOn ==
  ASSUME TypeOK, NEW i \in Reqs, NEW s, Goto(i, s)
  PROVE  GoesOn(i)
  BY DEF TypeOK, Goto, GoesOn, Request

LEMMA WriteLawful ==
  ASSUME TypeOK, NEW i \in Reqs, req[i].op \in Writes, NEW W, NEW r \in Written(W),
         \/ W[r] = work[r]
         \/ work[r].st # "approved" /\ W[r].st # "approved"
         \/ work[r].st = "submitted" /\ W[r] = [work[r] EXCEPT !.st = "approved"]
         \/ work[r].st = "approved" /\ W[r].st = "approved" /\ req[i].op = "staff_upsert" /\ req[i].sure
  PROVE  Lawful(i, r, W[r])
<1>1. r \in Rows /\ work[r] \in RowRec
  BY DEF Written, TypeOK
<1>2. req[i].op \notin Reopens
  BY DEF Writes, Reopens
<1>3. work[r].st = "submitted" /\ W[r] = [work[r] EXCEPT !.st = "approved"] =>
        W[r].st = "approved" /\ work[r] = [W[r] EXCEPT !.st = "submitted"]
  BY <1>1 DEF RowRec
<1> QED
  BY <1>2, <1>3 DEF Lawful

(* Every statement waits for the locks of the rows it writes, and its images *)
(* are lawful.                                                               *)
LEMMA StatementShape ==
  ASSUME TypeOK, NEW i \in Reqs, NEW W \in [Rows -> RowRec], Statement(i, W),
         req[i].op \in Writes, StatementLocks(W) \subseteq Need(i),
         \A r \in Written(W) : Lawful(i, r, W[r])
  PROVE  Shape(i)
<1>1. CASE Finish(i)
  BY <1>1 DEF Shape
<1>2. CASE Acquire(i) /\ Goto(i, "written") /\ buf' = [buf EXCEPT ![i] = W]
  <2>1. Finish(i) \/ WritesRows(i, W)
    BY <1>2 DEF Statement, WritesRows
  <2> QED
    BY <1>2, <2>1, GotoGoesOn DEF Shape
<1> QED
  BY <1>1, <1>2 DEF Statement

LEMMA WriteShape ==
  ASSUME TypeOK, NEW i \in Reqs,
         \/ UpsertWrite(i) \/ GenerateWrite(i) \/ ClearDraftsWrite(i) \/ DeleteWrite(i)
         \/ SubmitWrite(i) \/ ApproveWrite(i) \/ RejectWrite(i)
         \/ StaffUpsertWrite(i) \/ AdjustWrite(i) \/ CutWrite(i)
  PROVE  Shape(i)
<1>1. work \in [Rows -> RowRec] /\ req[i] \in Request
  BY DEF TypeOK
<1>2. ASSUME NEW S, NEW st \in {"deleted", "submitted", "rejected"},
             \A r \in S : work[r].st \in {"draft", "rejected", "submitted"},
             req[i].op \in Writes
      PROVE  \A r \in Written(Rewrite(S, st)) : Lawful(i, r, Rewrite(S, st)[r])
  <2> TAKE r \in Written(Rewrite(S, st))
  <2>1. r \in Rows
    BY DEF Written
  <2>2. r \in S /\ Rewrite(S, st)[r].st = st
    BY <1>1, <2>1 DEF Written, Rewrite, NoRow, RowRec
  <2> QED
    BY <1>2, <2>2, WriteLawful
<1>3. \A A, C, St : \A r \in Batch(A, C, St) : work[r].st \in St
  BY DEF Batch
<1>4. CASE UpsertWrite(i)
  <2>1. req[i].op \in Writes /\ Statement(i, UpsertRows(i))
    BY <1>4 DEF UpsertWrite, At, Writes
  <2>2. StatementLocks(UpsertRows(i)) \subseteq Need(i)
    BY <1>4 DEF UpsertWrite, Need, When
  <2>3. \A r \in Written(UpsertRows(i)) : Lawful(i, r, UpsertRows(i)[r])
    <3> TAKE r \in Written(UpsertRows(i))
    <3>1. work[r].st # "approved" /\ UpsertRows(i)[r].st # "approved"
      BY <1>1 DEF Written, UpsertRows, Entry, NoRow, Request, RowRec
    <3> QED
      BY <2>1, <3>1, WriteLawful
  <2> QED
    BY <2>1, <2>2, <2>3, ImageTypes, StatementShape
<1>5. CASE GenerateWrite(i)
  <2>1. req[i].op \in Writes /\ Statement(i, GenerateRows(i))
    BY <1>5 DEF GenerateWrite, At, Writes
  <2>2. StatementLocks(GenerateRows(i)) \subseteq Need(i)
    BY <1>5 DEF GenerateWrite, Need, When
  <2>3. \A r \in Written(GenerateRows(i)) : Lawful(i, r, GenerateRows(i)[r])
    <3> TAKE r \in Written(GenerateRows(i))
    <3>1. work[r].st # "approved" /\ GenerateRows(i)[r].st # "approved"
      BY <1>1, <1>3 DEF Written, GenerateRows, Rewrite, NoRow, Request, RowRec
    <3> QED
      BY <2>1, <3>1, WriteLawful
  <2> QED
    BY <2>1, <2>2, <2>3, ImageTypes, StatementShape
<1>6. CASE ClearDraftsWrite(i)
  <2>1. req[i].op \in Writes /\ Statement(i, ClearRows(i))
    BY <1>6 DEF ClearDraftsWrite, At, Writes
  <2>2. StatementLocks(ClearRows(i)) \subseteq Need(i)
    BY <1>6 DEF ClearDraftsWrite, Need, When
  <2>3. \A r \in Written(ClearRows(i)) : Lawful(i, r, ClearRows(i)[r])
    BY <1>2, <1>3, <2>1 DEF ClearRows
  <2> QED
    BY <2>1, <2>2, <2>3, ImageTypes, StatementShape
<1>7. CASE DeleteWrite(i)
  <2>1. req[i].op \in Writes /\ Statement(i, DeleteRows(i))
    BY <1>7 DEF DeleteWrite, At, Writes
  <2>2. StatementLocks(DeleteRows(i)) \subseteq Need(i)
    BY <1>7 DEF DeleteWrite, Need, When
  <2>3. \A r \in Written(DeleteRows(i)) : Lawful(i, r, DeleteRows(i)[r])
    BY <1>2, <2>1 DEF DeleteRows
  <2> QED
    BY <2>1, <2>2, <2>3, ImageTypes, StatementShape
<1>8. CASE SubmitWrite(i)
  <2>1. req[i].op \in Writes /\ Statement(i, SubmitRows(i))
    BY <1>8 DEF SubmitWrite, At, Writes
  <2>2. StatementLocks(SubmitRows(i)) \subseteq Need(i)
    BY <1>8 DEF SubmitWrite, Need, When
  <2>3. \A r \in Written(SubmitRows(i)) : Lawful(i, r, SubmitRows(i)[r])
    BY <1>2, <1>3, <2>1 DEF SubmitRows
  <2> QED
    BY <2>1, <2>2, <2>3, ImageTypes, StatementShape
<1>9. CASE ApproveWrite(i)
  <2>1. req[i].op \in Writes /\ Statement(i, ApproveRows(i))
    BY <1>9 DEF ApproveWrite, At, Writes
  <2>2. StatementLocks(ApproveRows(i)) \subseteq Need(i)
    BY <1>9 DEF ApproveWrite, Need, When
  <2>3. \A r \in Written(ApproveRows(i)) : Lawful(i, r, ApproveRows(i)[r])
    <3> TAKE r \in Written(ApproveRows(i))
    <3>1. work[r].st = "submitted" /\ ApproveRows(i)[r] = [work[r] EXCEPT !.st = "approved"]
      BY <1>1, <1>3 DEF Written, Rewrite, NoRow, ApproveRows
    <3> QED
      BY <2>1, <3>1, WriteLawful
  <2> QED
    BY <2>1, <2>2, <2>3, ImageTypes, StatementShape
<1>10. CASE RejectWrite(i)
  <2>1. req[i].op \in Writes /\ Statement(i, RejectRows(i))
    BY <1>10 DEF RejectWrite, At, Writes
  <2>2. StatementLocks(RejectRows(i)) \subseteq Need(i)
    BY <1>10 DEF RejectWrite, Need, When
  <2>3. \A r \in Written(RejectRows(i)) : Lawful(i, r, RejectRows(i)[r])
    BY <1>2, <1>3, <2>1 DEF RejectRows
  <2> QED
    BY <2>1, <2>2, <2>3, ImageTypes, StatementShape
<1>11. CASE StaffUpsertWrite(i)
  <2>1. req[i].op \in Writes /\ req[i].op = "staff_upsert" /\ Statement(i, StaffUpsertRows(i))
    BY <1>11 DEF StaffUpsertWrite, At, Writes
  <2>2. StatementLocks(StaffUpsertRows(i)) \subseteq Need(i)
    BY <1>11 DEF StaffUpsertWrite, Need, When
  <2>3. \A r \in Written(StaffUpsertRows(i)) : Lawful(i, r, StaffUpsertRows(i)[r])
    <3> TAKE r \in Written(StaffUpsertRows(i))
    <3>1. \/ work[r].st # "approved" /\ StaffUpsertRows(i)[r].st # "approved"
          \/ work[r].st = "approved" /\ StaffUpsertRows(i)[r].st = "approved" /\ req[i].sure
      BY <1>1 DEF Written, StaffUpsertRows, NoRow, Request, RowRec
    <3> QED
      BY <2>1, <3>1, WriteLawful
  <2> QED
    BY <2>1, <2>2, <2>3, ImageTypes, StatementShape
<1>12. CASE AdjustWrite(i)
  <2>1. req[i].op \in Writes /\ Statement(i, AdjustRows(i))
    BY <1>12 DEF AdjustWrite, At, Writes
  <2>2. StatementLocks(AdjustRows(i)) \subseteq Need(i)
    BY <1>12 DEF AdjustWrite, Need, When
  <2>3. \A r \in Written(AdjustRows(i)) : Lawful(i, r, AdjustRows(i)[r])
    <3> TAKE r \in Written(AdjustRows(i))
    <3>1. work[r].st # "approved" /\ AdjustRows(i)[r].st # "approved"
      BY <1>1 DEF Written, AdjustRows, NoRow, Request, RowRec
    <3> QED
      BY <2>1, <3>1, WriteLawful
  <2> QED
    BY <2>1, <2>2, <2>3, ImageTypes, StatementShape
<1>13. CASE CutWrite(i)
  <2>1. req[i].op \in Writes /\ Statement(i, CutRows(i))
    BY <1>13 DEF CutWrite, At, Writes
  <2>2. StatementLocks(CutRows(i)) \subseteq Need(i)
    BY <1>13 DEF CutWrite, Need, When
  <2>3. \A r \in Written(CutRows(i)) : Lawful(i, r, CutRows(i)[r])
    BY <1>2, <2>1 DEF CutRows
  <2> QED
    BY <2>1, <2>2, <2>3, ImageTypes, StatementShape
<1> QED
  BY <1>4, <1>5, <1>6, <1>7, <1>8, <1>9, <1>10, <1>11, <1>12, <1>13

LEMMA StepShape ==
  ASSUME TypeOK, NEW i \in Reqs, Step(i)
  PROVE  Shape(i)
<1>1. req \in [Reqs -> Request] /\ req[i] \in Request
  BY DEF TypeOK
<1>2. CASE \/ UpsertWrite(i) \/ GenerateWrite(i) \/ ClearDraftsWrite(i) \/ DeleteWrite(i)
           \/ SubmitWrite(i) \/ ApproveWrite(i) \/ RejectWrite(i)
           \/ StaffUpsertWrite(i) \/ AdjustWrite(i) \/ CutWrite(i)
  BY <1>2, WriteShape
<1>3. CASE ApproveSnapshot(i) \/ ApproveManySnapshot(i) \/ RejectSnapshot(i)
  BY <1>1, <1>3 DEF ApproveSnapshot, ApproveManySnapshot, RejectSnapshot, Snapshot, Shape, GoesOn, Request
<1>4. CASE ApproveSerialize(i) \/ ApproveManySerialize(i)
  BY <1>4, GotoGoesOn DEF ApproveSerialize, ApproveManySerialize, TakeCourseLock, Shape
<1>5. CASE \/ Commit(i) \/ ReviewSign(i) \/ ExportSend(i) \/ ReopenCommit(i)
           \/ SettlementApply(i) \/ PeriodDelete(i)
  BY <1>5 DEF Commit, ReviewSign, ExportSend, ReopenCommit, SettlementApply, PeriodDelete, Shape
<1>6. CASE ReviewCount(i) \/ ExportGate(i) \/ ExportLockTable(i) \/ ExportFlag(i) \/ ReopenCell(i)
  BY <1>6, GotoGoesOn DEF ReviewCount, ExportGate, ExportLockTable, ExportFlag, ReopenCell, Shape
<1>7. CASE ExportBuild(i)
  BY <1>1, <1>7 DEF ExportBuild, Shape, GoesOn, Request
<1>8. CASE ExportMark(i)
  <2>1. req[i].op \in Exports
    BY <1>8 DEF ExportMark, At
  <2> QED
    BY <1>1, <1>8, <2>1 DEF ExportMark, Shape, GoesOn, Request
<1>9. CASE UnexportList(i)
  BY <1>1, <1>9 DEF UnexportList, Shape, GoesOn, Request
<1>10. CASE ReopenWrite(i)
  <2>1. req[i].op \in Reopens
    BY <1>10 DEF ReopenWrite, At
  <2>2. StatementLocks(ReopenRows(i)) \subseteq Need(i)
    BY <1>10 DEF ReopenWrite, Need, When
  <2>3. \A r \in Written(ReopenRows(i)) : Lawful(i, r, ReopenRows(i)[r])
    <3> TAKE r \in Written(ReopenRows(i))
    <3>1. work[r].cell \in Opened(i) /\ ReopenRows(i)[r] = [work[r] EXCEPT !.st = "rejected"]
      BY <1>1 DEF Written, Rewrite, NoRow, ReopenRows
    <3> QED
      BY <2>1, <3>1 DEF Lawful, Writes, Reopens
  <2>4. WritesRows(i, ReopenRows(i))
    BY <1>10, <2>1, <2>2, <2>3 DEF ReopenWrite, WritesRows, Writes, Reopens
  <2> QED
    BY <1>10, <2>4, GotoGoesOn, ImageTypes DEF ReopenWrite, Shape
<1> QED
  BY <1>2, <1>3, <1>4, <1>5, <1>6, <1>7, <1>8, <1>9, <1>10 DEF Step

-----------------------------------------------------------------------------
(* The inductive invariant of the rows: transactions exclude each other, and *)
(* every uncommitted row image is behind its row's lock and lawful.          *)
Exclusive == \A i, j \in Reqs : i # j => \A k \in held[i], l \in held[j] : ~Conflict(k, l)

Owned == \A i \in Reqs : \A r \in Written(buf[i]) :
            /\ RowLock(r) \in held[i]
            /\ req[i].op \in Writes \cup Reopens
            /\ Lawful(i, r, buf[i][r])

RowsInv == TypeOK /\ Exclusive /\ Owned

(* Rows change only when a transaction that wrote them commits and ends. *)
MovesRows(i) == \/ work' = work
                \/ Finish(i) /\ work' = Overlay(buf[i])

LEMMA StepMovesRows ==
  ASSUME NEW i \in Reqs, Step(i)
  PROVE  MovesRows(i)
<1>1. CASE \/ UpsertWrite(i) \/ GenerateWrite(i) \/ ClearDraftsWrite(i) \/ DeleteWrite(i)
           \/ SubmitWrite(i) \/ ApproveWrite(i) \/ RejectWrite(i)
           \/ StaffUpsertWrite(i) \/ AdjustWrite(i) \/ CutWrite(i)
  BY <1>1 DEF UpsertWrite, GenerateWrite, ClearDraftsWrite, DeleteWrite, SubmitWrite, ApproveWrite,
              RejectWrite, StaffUpsertWrite, AdjustWrite, CutWrite, Statement, dbVars, MovesRows
<1>2. CASE \/ ApproveSnapshot(i) \/ ApproveManySnapshot(i) \/ RejectSnapshot(i)
           \/ ApproveSerialize(i) \/ ApproveManySerialize(i) \/ ReviewCount(i)
           \/ ExportGate(i) \/ ExportBuild(i) \/ ExportLockTable(i) \/ ExportSend(i)
           \/ UnexportList(i) \/ ReopenCell(i) \/ ReopenWrite(i)
  BY <1>2 DEF ApproveSnapshot, ApproveManySnapshot, RejectSnapshot, Snapshot, ApproveSerialize,
              ApproveManySerialize, TakeCourseLock, ReviewCount, ExportGate, ExportBuild,
              ExportLockTable, ExportSend, UnexportList, ReopenCell, ReopenWrite, dbVars, MovesRows
<1>3. CASE ReviewSign(i) \/ ExportMark(i) \/ ExportFlag(i) \/ SettlementApply(i) \/ PeriodDelete(i)
  BY <1>3 DEF ReviewSign, ExportMark, ExportFlag, SettlementApply, PeriodDelete, MovesRows
<1>4. CASE Commit(i) \/ ReopenCommit(i)
  BY <1>4 DEF Commit, ReopenCommit, MovesRows
<1> QED
  BY <1>1, <1>2, <1>3, <1>4 DEF Step

LEMMA NothingWritten == Written(NoWrite) = {}
  BY DEF Written, NoWrite, NoRow

LEMMA NoRowLockTwice ==
  ASSUME RowsInv, NEW i \in Reqs, NEW j \in Reqs \ {i}, NEW r \in Written(buf[j])
  PROVE  r \notin Written(buf[i])
  BY DEF RowsInv, Exclusive, Owned, Conflict, RowLock

LEMMA AcquireExcludes ==
  ASSUME TypeOK, Exclusive, NEW i \in Reqs, Granted(i), Acquire(i)
  PROVE  Exclusive'
<1>1. \A k, l : Conflict(k, l) => Conflict(l, k)
  BY DEF Conflict
<1>2. \A j \in Reqs : held'[j] = IF j = i THEN held[i] \cup Need(i) ELSE held[j]
  BY DEF Acquire, TypeOK
<1>3. \A j \in Reqs \ {i} : \A k \in held[j], l \in Need(i) : ~Conflict(k, l)
  BY DEF Granted, Free
<1> QED
  BY <1>1, <1>2, <1>3 DEF Exclusive, Conflict

LEMMA ReleaseExcludes ==
  ASSUME TypeOK, Exclusive, NEW i \in Reqs, held' = [held EXCEPT ![i] = {}]
  PROVE  Exclusive'
  BY DEF TypeOK, Exclusive, Conflict

LEMMA RowsStep ==
  ASSUME RowsInv, NEW i \in Reqs, Shape(i), MovesRows(i)
  PROVE  Exclusive' /\ Owned'
<1>1. TypeOK /\ Exclusive /\ Owned
  BY DEF RowsInv
<1>2. CASE Finish(i)
  <2>1. Exclusive'
    BY <1>1, <1>2, ReleaseExcludes DEF Finish
  <2>2. Written(buf'[i]) = {}
    BY <1>1, <1>2, NothingWritten DEF Finish, TypeOK
  <2>3. ASSUME NEW j \in Reqs \ {i}, NEW r \in Written(buf'[j])
        PROVE  /\ RowLock(r) \in held'[j]
               /\ req'[j].op \in Writes \cup Reopens
               /\ Lawful(j, r, buf[j][r])'
    <3>1. buf'[j] = buf[j] /\ held'[j] = held[j] /\ req'[j] = req[j]
      BY <1>1, <1>2 DEF Finish, TypeOK
    <3>2. r \in Rows /\ r \in Written(buf[j])
      BY <3>1 DEF Written
    <3>3. work'[r] = work[r]
      BY <3>2, NoRowLockTwice DEF MovesRows, Overlay, Written
    <3>4. Opened(j)' = Opened(j)
      BY <3>1 DEF Opened
    <3>5. Lawful(j, r, buf[j][r])
      BY <1>1, <3>2 DEF Owned
    <3> QED
      BY <1>1, <3>1, <3>2, <3>3, <3>4, <3>5 DEF Owned, Lawful
  <2> QED
    BY <2>1, <2>2, <2>3 DEF Owned
<1>3. CASE GoesOn(i) /\ work' = work
  <2>1. \A j \in Reqs : req'[j].op = req[j].op /\ req'[j].sure = req[j].sure
    BY <1>3 DEF GoesOn
  <2>2. ASSUME NEW j \in Reqs, NEW r \in Written(buf[j]), held[j] \subseteq held'[j],
               buf'[j] = buf[j]
        PROVE  /\ RowLock(r) \in held'[j]
               /\ req'[j].op \in Writes \cup Reopens
               /\ Lawful(j, r, buf[j][r])'
    <3>1. Opened(j) \subseteq Opened(j)'
      BY <2>2 DEF Opened
    <3> QED
      BY <1>1, <1>3, <2>1, <2>2, <3>1 DEF Owned, Lawful
  <2>3. CASE UNCHANGED <<held, buf>>
    BY <1>1, <2>2, <2>3 DEF Exclusive, Owned
  <2>4. CASE Granted(i) /\ Acquire(i) /\ UNCHANGED buf
    <3>1. \A j \in Reqs : held[j] \subseteq held'[j]
      BY <1>1, <2>4 DEF Acquire, TypeOK
    <3>2. Exclusive'
      BY <1>1, <2>4, AcquireExcludes
    <3> QED
      BY <2>2, <2>4, <3>1, <3>2 DEF Owned
  <2>5. CASE \E W \in [Rows -> RowRec] : WritesRows(i, W)
    <3>1. PICK W \in [Rows -> RowRec] : WritesRows(i, W)
      BY <2>5
    <3>2. Exclusive'
      BY <1>1, <3>1, AcquireExcludes DEF WritesRows
    <3>3. \A j \in Reqs \ {i} : held'[j] = held[j] /\ buf'[j] = buf[j]
      BY <1>1, <3>1 DEF WritesRows, Acquire, TypeOK
    <3>4. buf'[i] = W /\ held'[i] = held[i] \cup Need(i)
      BY <1>1, <3>1 DEF WritesRows, Acquire, TypeOK
    <3>5. ASSUME NEW r \in Written(W)
          PROVE  /\ RowLock(r) \in held'[i]
                 /\ req'[i].op \in Writes \cup Reopens
                 /\ Lawful(i, r, W[r])'
      <4>1. RowLock(r) \in held'[i]
        BY <3>1, <3>4 DEF WritesRows, StatementLocks
      <4>2. Opened(i) \subseteq Opened(i)'
        BY <3>4 DEF Opened
      <4> QED
        BY <1>3, <2>1, <3>1, <4>1, <4>2 DEF WritesRows, Lawful
    <3> QED
      BY <2>2, <3>2, <3>3, <3>4, <3>5 DEF Owned
  <2>6. CASE req[i].op \in Exports /\ held' = [held EXCEPT ![i] = {}] /\ UNCHANGED buf
    <3>1. Exclusive'
      BY <1>1, <2>6, ReleaseExcludes
    <3>2. Written(buf[i]) = {}
      BY <1>1, <2>6 DEF Owned, Writes, Reopens, Exports
    <3>3. \A j \in Reqs \ {i} : held'[j] = held[j]
      BY <1>1, <2>6 DEF TypeOK
    <3> QED
      BY <2>2, <2>6, <3>1, <3>2, <3>3 DEF Owned
  <2> QED
    BY <1>2, <1>3, <2>3, <2>4, <2>5, <2>6 DEF Shape
<1> QED
  BY <1>2, <1>3 DEF Shape, MovesRows

LEMMA RowsBegin ==
  ASSUME RowsInv, NEW i \in Reqs, NEW q \in Request, Begin(i, q)
  PROVE  Exclusive' /\ Owned'
<1>1. Written(buf[i]) = {}
  BY DEF RowsInv, Owned, Begin, Idle, Writes, Reopens
<1>2. /\ UNCHANGED <<work, held, buf>>
      /\ \A j \in Reqs \ {i} : req'[j] = req[j]
  BY DEF RowsInv, TypeOK, Begin, dbVars
<1>3. ASSUME NEW j \in Reqs \ {i}, NEW r \in Written(buf[j])
      PROVE  Lawful(j, r, buf[j][r])'
  BY <1>2, <1>3 DEF RowsInv, Owned, Lawful, Opened
<1> QED
  BY <1>1, <1>2, <1>3 DEF RowsInv, Exclusive, Owned

LEMMA RowsNext == RowsInv /\ [Next]_vars => RowsInv'
<1> SUFFICES ASSUME RowsInv, [Next]_vars PROVE RowsInv'
  OBVIOUS
<1>1. TypeOK' /\ TypeOK
  BY NextType DEF RowsInv
<1>2. ASSUME NEW i \in Reqs, Arrive(i) PROVE RowsInv'
  BY <1>1, <1>2, ArriveBegins, RowsBegin DEF Arrival, RowsInv
<1>3. ASSUME NEW i \in Reqs, Step(i) PROVE RowsInv'
  BY <1>1, <1>3, StepShape, StepMovesRows, RowsStep DEF RowsInv
<1>4. ASSUME NEW i \in Reqs, Abort(i) \/ DeadlockAbort(i) PROVE RowsInv'
  <2>1. Shape(i) /\ MovesRows(i)
    BY <1>4 DEF Abort, DeadlockAbort, Shape, MovesRows, dbVars
  <2> QED
    BY <1>1, <2>1, RowsStep DEF RowsInv
<1>5. ASSUME UNCHANGED <<work, req, held, buf>> PROVE RowsInv'
  BY <1>1, <1>5 DEF RowsInv, Exclusive, Owned, Lawful, Opened
<1>6. Office \/ UNCHANGED vars => UNCHANGED <<work, req, held, buf>>
  BY DEF Office, MarkFinanceSent, RevertFinanceSent, PeriodClose, PeriodExtend, PeriodCreate, vars
<1> QED
  BY <1>2, <1>3, <1>4, <1>5, <1>6 DEF Next

LEMMA RowsInvariant == Spec => []RowsInv
<1>1. Init => RowsInv
  <2> SUFFICES ASSUME Init PROVE RowsInv
    OBVIOUS
  <2>1. TypeOK
    BY InitType
  <2>2. \A i \in Reqs : held[i] = {} /\ Written(buf[i]) = {}
    BY NothingWritten DEF Init
  <2> QED
    BY <2>1, <2>2 DEF RowsInv, Exclusive, Owned
<1> QED
  BY <1>1, RowsNext, PTL DEF Spec

(* Two transactions never hold locks that exclude each other, and what one   *)
(* has written and not committed is behind its locks: a step only takes what *)
(* is free, and every statement takes the locks of the rows it writes.       *)
THEOREM LocksExclude == Spec => []LockExclusion
<1>1. RowsInv => LockExclusion
  BY DEF RowsInv, Exclusive, Owned, LockExclusion
<1> QED
  BY <1>1, RowsInvariant, PTL

(* A step that changes a row is the commit of a lawful image of it. *)
LEMMA RowChange ==
  ASSUME RowsInv, [Next]_vars, NEW r \in Rows, work'[r] # work[r]
  PROVE  \E i \in Reqs : /\ r \in Written(buf[i])
                         /\ work'[r] = buf[i][r]
                         /\ req[i].op \in Writes \cup Reopens
                         /\ Lawful(i, r, work'[r])
<1>1. ASSUME NEW i \in Reqs, MovesRows(i)
      PROVE  /\ r \in Written(buf[i])
             /\ work'[r] = buf[i][r]
             /\ req[i].op \in Writes \cup Reopens
             /\ Lawful(i, r, work'[r])
  BY <1>1 DEF MovesRows, Overlay, Written, RowsInv, Owned
<1>2. \A i \in Reqs : Arrive(i) => UNCHANGED work
  BY ArriveBegins DEF RowsInv, Begin, dbVars
<1>3. \A i \in Reqs : Abort(i) \/ DeadlockAbort(i) => UNCHANGED work
  BY DEF Abort, DeadlockAbort, dbVars
<1>4. Office \/ UNCHANGED vars => UNCHANGED work
  BY DEF Office, MarkFinanceSent, RevertFinanceSent, PeriodClose, PeriodExtend, PeriodCreate, vars
<1> QED
  BY <1>1, <1>2, <1>3, <1>4, StepMovesRows DEF Next

(* What an approved row says changes only through a StaffUpsert that read it *)
(* as approved, and it loses the approval only to a send-back, whatever ran   *)
(* between the reads and the writes of the requests on it.                    *)
THEOREM ApprovedStand == Spec => ApprovedRowsStand
<1>1. RowsInv /\ [Next]_vars =>
        [\A r \in Rows : work[r].st = "approved" /\ work'[r] # work[r] =>
           \E i \in Reqs :
              \/ req[i].op = "staff_upsert" /\ req[i].sure /\ work'[r].st = "approved"
              \/ req[i].op \in Reopens /\ work'[r] = [work[r] EXCEPT !.st = "rejected"]]_vars
  BY RowChange DEF Lawful
<1> QED
  BY <1>1, RowsInvariant, PTL DEF Spec, ApprovedRowsStand

(* What becomes approved is exactly what had been submitted: no correction,  *)
(* cut or re-dating slips in between the lecturer's list and the UPDATE.      *)
THEOREM ApprovalsAreOfSubmitted == Spec => ApprovalIsOfSubmittedWork
<1>1. RowsInv /\ [Next]_vars =>
        [\A r \in Rows : work[r].st # "approved" /\ work'[r].st = "approved" =>
           work[r] = [work'[r] EXCEPT !.st = "submitted"]]_vars
  <2> SUFFICES ASSUME RowsInv, [Next]_vars, NEW r \in Rows,
                      work[r].st # "approved", work'[r].st = "approved"
               PROVE  work[r] = [work'[r] EXCEPT !.st = "submitted"]
    OBVIOUS
  <2>1. work[r] \in RowRec
    BY DEF RowsInv, TypeOK
  <2>2. PICK i \in Reqs : Lawful(i, r, work'[r]) /\ req[i].op \in Writes \cup Reopens
    BY RowChange
  <2>3. work'[r] # [work[r] EXCEPT !.st = "rejected"]
    BY <2>1 DEF RowRec
  <2> QED
    BY <2>2, <2>3 DEF Lawful
<1> QED
  BY <1>1, RowsInvariant, PTL DEF Spec, ApprovalIsOfSubmittedWork

-----------------------------------------------------------------------------
(* The workflow: a signed month is complete, and the requests implement     *)
(* MonthLifecycle, whatever the rows, months, TAs and requests.             *)

(* Both theorems leave out the two operations that are known to go round the *)
(* locks: an export that began on an empty slice takes no table lock, and    *)
(* the deletion of a period takes none that a sign-off takes.                *)
Guarded == {"export_empty", "period_delete"} \cap Ops = {}

(* What a request relies on at each stage, besides the rows it has written.  *)
StageHolds(i) ==
    /\ req[i] = Idle => held[i] = {}
    /\ Written(buf[i]) # {} => TableRowEx \in held[i]
    /\ At(i, {"export"}, "share") => TableShare \in held[i]

ReviewHolds(i) ==
    /\ req[i].op = "review" => \E c \in Cells : req[i].cells = {c}
    /\ At(i, {"review"}, "counted") =>
          \A c \in req[i].cells : /\ CellLock(c) \in held[i]
                                  /\ Approved(c) # {}
                                  /\ RowsIn(c, {"submitted"}) = {}

(* Nothing a send-back has opened is at finance. *)
ReopenHolds(i) == req[i].op \in Reopens => \A c \in Opened(i) : status[c] # "finance_sent"

(* What a writer has changed, and not committed, is in no locked month. *)
WriteHolds(i) ==
    req[i].op \in Writes => \A r \in Changed(buf[i]) :
        buf[i][r].st # "deleted" =>
            /\ ~Locked(buf[i][r].cell)
            /\ work[r].st \in Live => ~Locked(work[r].cell)

Holds(i) == StageHolds(i) /\ ReviewHolds(i) /\ ReopenHolds(i) /\ WriteHolds(i)

(* The inductive invariant of the months. *)
MonthsInv ==
    /\ RowsInv
    /\ \A p \in Periods : period[p] # "none"
    /\ \A i \in Reqs : req[i].op \in Ops \cup {"idle"} /\ Holds(i)
    /\ SignedMonthsComplete

LEMMA AlwaysDefined ==
  ASSUME MonthsInv, NEW c \in Cells
  PROVE  Defined(c)
  BY ConstantsAssumption DEF MonthsInv, Defined

-----------------------------------------------------------------------------
(* A month whose settled rows a step leaves alone: nothing approved changes, *)
(* and nothing becomes approved or submitted in it.                          *)
Kept(c) ==
    \A r \in Rows :
        \/ work'[r] = work[r]
        \/ /\ ~(work[r].cell = c /\ work[r].st = "approved")
           /\ ~(work'[r].cell = c /\ work'[r].st \in {"approved", "submitted"})

LEMMA KeptMonth ==
  ASSUME NEW c \in Cells, Kept(c)
  PROVE  /\ Claim(c)' = Claim(c)
         /\ Approved(c)' = Approved(c)
         /\ RowsIn(c, {"submitted"})' \subseteq RowsIn(c, {"submitted"})
<1>1. Approved(c)' = Approved(c)
  BY DEF Kept, Approved, RowsIn
<1>2. \A r \in Approved(c) : work'[r] = work[r]
  BY DEF Kept, Approved, RowsIn
<1>3. RowsIn(c, {"submitted"})' \subseteq RowsIn(c, {"submitted"})
  BY DEF Kept, RowsIn
<1>4. Claim(c)' = Claim(c)
  BY <1>1, <1>2 DEF Claim
<1> QED
  BY <1>1, <1>3, <1>4

(* A writer's commit leaves alone the months it does not touch, and those    *)
(* the export has locked.                                                    *)
LEMMA CommitKeeps ==
  ASSUME MonthsInv, NEW i \in Reqs, Commit(i), NEW c \in Cells,
         c \notin Touched(buf[i]) \/ Locked(c)
  PROVE  Kept(c)
<1> DEFINE W == buf[i]
<1>1. /\ work' = Overlay(W)
      /\ req[i].op \in Writes
      /\ work \in [Rows -> RowRec] /\ W \in [Rows -> RowRec]
  BY DEF Commit, MonthsInv, RowsInv, TypeOK
<1> SUFFICES ASSUME NEW r \in Rows, work'[r] # work[r]
             PROVE  /\ ~(work[r].cell = c /\ work[r].st = "approved")
                    /\ ~(work'[r].cell = c /\ work'[r].st \in {"approved", "submitted"})
  BY DEF Kept
<1>2. r \in Changed(W) /\ work'[r] = W[r]
  BY <1>1 DEF Overlay, Changed, Written
<1>3. CASE c \notin Touched(W)
  BY <1>2, <1>3 DEF Touched, Changed, Live
<1>4. CASE Locked(c)
  <2>1. Lawful(i, r, W[r])
    BY <1>2 DEF MonthsInv, RowsInv, Owned, Changed
  <2>2. CASE W[r].st = "deleted"
    BY <1>1, <1>2, <2>1, <2>2 DEF Lawful, Changed
  <2>3. CASE W[r].st # "deleted"
    <3>1. ~Locked(W[r].cell) /\ (work[r].st \in Live => ~Locked(work[r].cell))
      BY <1>1, <1>2, <2>3 DEF MonthsInv, Holds, WriteHolds
    <3> QED
      BY <1>2, <1>4, <3>1 DEF Live
  <2> QED
    BY <2>2, <2>3
<1> QED
  BY <1>3, <1>4

(* A send-back's commit leaves alone the months it has not opened. *)
LEMMA ReopenKeeps ==
  ASSUME MonthsInv, NEW i \in Reqs, ReopenCommit(i), NEW c \in Cells, c \notin Opened(i)
  PROVE  Kept(c)
<1>1. /\ work' = work \/ work' = Overlay(buf[i])
      /\ req[i].op \in Reopens
      /\ work \in [Rows -> RowRec] /\ buf[i] \in [Rows -> RowRec]
  BY DEF ReopenCommit, At, MonthsInv, RowsInv, TypeOK
<1> SUFFICES ASSUME NEW r \in Rows, work'[r] # work[r]
             PROVE  /\ ~(work[r].cell = c /\ work[r].st = "approved")
                    /\ ~(work'[r].cell = c /\ work'[r].st \in {"approved", "submitted"})
  BY DEF Kept
<1>2. r \in Written(buf[i]) /\ work'[r] = buf[i][r]
  BY <1>1 DEF Overlay, Written
<1>3. work[r].cell \in Opened(i) /\ buf[i][r] = [work[r] EXCEPT !.st = "rejected"]
  BY <1>1, <1>2 DEF MonthsInv, RowsInv, Owned, Lawful
<1> QED
  BY <1>1, <1>2, <1>3 DEF RowRec

-----------------------------------------------------------------------------
(* The steps that change the months or their rows; all others leave them.    *)
DBStep(i) == \/ Commit(i) \/ ReviewSign(i) \/ ExportMark(i) \/ ReopenCommit(i)
             \/ SettlementApply(i) \/ PeriodDelete(i)

Still == UNCHANGED <<work, status, period>>

LEMMA StepKind ==
  ASSUME NEW i \in Reqs, Step(i)
  PROVE  DBStep(i) \/ Still
<1>1. CASE \/ UpsertWrite(i) \/ GenerateWrite(i) \/ ClearDraftsWrite(i) \/ DeleteWrite(i)
           \/ SubmitWrite(i) \/ ApproveWrite(i) \/ RejectWrite(i)
           \/ StaffUpsertWrite(i) \/ AdjustWrite(i) \/ CutWrite(i)
  BY <1>1 DEF UpsertWrite, GenerateWrite, ClearDraftsWrite, DeleteWrite, SubmitWrite, ApproveWrite,
              RejectWrite, StaffUpsertWrite, AdjustWrite, CutWrite, Statement, dbVars, Still
<1>2. CASE \/ ApproveSnapshot(i) \/ ApproveManySnapshot(i) \/ RejectSnapshot(i)
           \/ ApproveSerialize(i) \/ ApproveManySerialize(i) \/ ReviewCount(i)
           \/ ExportGate(i) \/ ExportBuild(i) \/ ExportLockTable(i) \/ ExportFlag(i)
           \/ ExportSend(i) \/ UnexportList(i) \/ ReopenCell(i) \/ ReopenWrite(i)
  BY <1>2 DEF ApproveSnapshot, ApproveManySnapshot, RejectSnapshot, Snapshot, ApproveSerialize,
              ApproveManySerialize, TakeCourseLock, ReviewCount, ExportGate, ExportBuild,
              ExportLockTable, ExportFlag, ExportSend, UnexportList, ReopenCell, ReopenWrite,
              dbVars, Still
<1> QED
  BY <1>1, <1>2 DEF Step, DBStep

(* A period is deleted by no guarded run, and no export marks unlocked. *)
LEMMA GuardedStep ==
  ASSUME Guarded, MonthsInv, NEW i \in Reqs
  PROVE  /\ ~PeriodDelete(i)
         /\ ExportMark(i) => TableShare \in held[i]
<1>1. req[i].op \in Ops \cup {"idle"}
  BY DEF MonthsInv
<1>2. req[i].op # "period_delete" /\ req[i].op # "export_empty"
  BY <1>1 DEF Guarded
<1>3. At(i, Exports, "share") => At(i, {"export"}, "share")
  BY <1>2 DEF At, Exports
<1> QED
  BY <1>2, <1>3 DEF PeriodDelete, ExportMark, At, MonthsInv, Holds, StageHolds

(* What the step of one request leaves of another's. *)
Others(i) == \A j \in Reqs \ {i} : req'[j] = req[j] /\ held'[j] = held[j] /\ buf'[j] = buf[j]

LEMMA ShapeOthers ==
  ASSUME TypeOK, NEW i \in Reqs, Shape(i)
  PROVE  Others(i)
<1>1. CASE Finish(i)
  BY <1>1 DEF Finish, Others, TypeOK
<1>2. CASE GoesOn(i)
  <2>1. \A j \in Reqs \ {i} : req'[j] = req[j]
    BY <1>2 DEF GoesOn
  <2>2. CASE UNCHANGED <<held, buf>>
    BY <2>1, <2>2 DEF Others
  <2>3. CASE Granted(i) /\ Acquire(i) /\ UNCHANGED buf
    BY <2>1, <2>3 DEF Others, Acquire, TypeOK
  <2>4. CASE \E W \in [Rows -> RowRec] : WritesRows(i, W)
    BY <2>1, <2>4 DEF Others, WritesRows, Acquire, TypeOK
  <2>5. CASE held' = [held EXCEPT ![i] = {}] /\ UNCHANGED buf
    BY <2>1, <2>5 DEF Others, TypeOK
  <2> QED
    BY <1>1, <1>2, <2>2, <2>3, <2>4, <2>5 DEF Shape
<1> QED
  BY <1>1, <1>2 DEF Shape

(* What a step of one request may do to the months another relies on. *)
Spares(j) ==
    /\ \A r \in Written(buf[j]) : work'[r] = work[r]
    /\ Written(buf[j]) # {} => \A c \in Cells : Locked(c)' => Locked(c)
    /\ \A c \in Cells : CellLock(c) \in held[j] => Kept(c)
    /\ \A c \in Opened(j) : status'[c] = "finance_sent" => status[c] = "finance_sent"

LEMMA SparedHolds ==
  ASSUME MonthsInv, TypeOK', NEW j \in Reqs, Spares(j), req'[j] = req[j], held'[j] = held[j], buf'[j] = buf[j]
  PROVE  Holds(j)'
<1>1. Holds(j) /\ TypeOK
  BY DEF MonthsInv, RowsInv
<1>2. StageHolds(j)'
  BY <1>1 DEF Holds, StageHolds, At, Written
<1>3. ReviewHolds(j)'
  <2>1. req[j].cells \subseteq Cells
    BY <1>1 DEF TypeOK, Request
  <2>2. ASSUME At(j, {"review"}, "counted"), NEW c \in req[j].cells
        PROVE  /\ CellLock(c) \in held[j]
               /\ Approved(c)' # {}
               /\ RowsIn(c, {"submitted"})' = {}
    <3>1. /\ CellLock(c) \in held[j]
          /\ Approved(c) # {}
          /\ RowsIn(c, {"submitted"}) = {}
      BY <1>1, <2>2 DEF Holds, ReviewHolds
    <3>2. Kept(c) /\ c \in Cells
      BY <2>1, <3>1 DEF Spares
    <3> QED
      BY <3>1, <3>2, KeptMonth
  <2> QED
    BY <1>1, <2>2 DEF Holds, ReviewHolds, At
<1>4. ReopenHolds(j)'
  BY <1>1 DEF Holds, ReopenHolds, Spares, Opened
<1>5. WriteHolds(j)'
  <2> SUFFICES ASSUME req[j].op \in Writes, NEW r \in Rows, r \in Changed(buf[j])',
                      buf[j][r].st # "deleted"
               PROVE  (/\ ~Locked(buf[j][r].cell)
                       /\ work[r].st \in Live => ~Locked(work[r].cell))'
    BY DEF WriteHolds, Changed, Written
  <2>1. r \in Written(buf[j]) /\ work'[r] = work[r]
    BY DEF Changed, Written, Spares
  <2>2. r \in Changed(buf[j])
    BY <2>1 DEF Changed
  <2>3. buf[j][r].cell \in Cells /\ work[r].cell \in Cells
    BY <1>1, <2>1 DEF TypeOK, RowRec
  <2> QED
    BY <1>1, <2>1, <2>2, <2>3 DEF Holds, WriteHolds, Spares
<1> QED
  BY <1>2, <1>3, <1>4, <1>5 DEF Holds

LEMMA ConflictOfLocks ==
  /\ Conflict(TableShare, TableRowEx)
  /\ \A c \in Cells : Conflict(CellLock(c), CellLock(c))
  BY DEF Conflict, TableShare, TableRowEx, CellLock

LEMMA StepSpares ==
  ASSUME Guarded, MonthsInv, NEW i \in Reqs, Step(i), NEW j \in Reqs \ {i}
  PROVE  Spares(j)
<1>1. RowsInv /\ TypeOK /\ Exclusive
  BY DEF MonthsInv, RowsInv
<1>2. \A r \in Written(buf[j]) : work'[r] = work[r]
  <2> TAKE r \in Written(buf[j])
  <2>1. r \notin Written(buf[i]) /\ r \in Rows
    BY <1>1, NoRowLockTwice DEF Written
  <2> QED
    BY <2>1, StepMovesRows DEF MovesRows, Overlay, Written
<1>3. \A c \in Cells : CellLock(c) \in held[j] => c \notin Opened(i)
  BY <1>1, ConflictOfLocks DEF Exclusive, Opened
<1>4. work' = work => \A c \in Cells : Kept(c)
  BY DEF Kept
<1>5. CASE Still
  BY <1>2, <1>4, <1>5 DEF Spares, Still, Locked
<1>6. CASE Commit(i)
  <2>1. \A c \in Cells : status'[c] \in {status[c], "pending"}
    BY <1>6 DEF Commit, ReviewReset
  <2>2. ASSUME NEW c \in Cells, CellLock(c) \in held[j] PROVE c \notin Touched(buf[i])
    <3>1. SUFFICES ASSUME c \in Touched(buf[i]) PROVE FALSE
      OBVIOUS
    <3>2. CellLock(c) \in Need(i)
      BY <1>6, <3>1, AlwaysDefined DEF Commit, Need, When, At
    <3> QED
      BY <1>6, <2>2, <3>2, ConflictOfLocks DEF Commit, Granted, Free
  <2>3. \A c \in Cells : CellLock(c) \in held[j] => Kept(c)
    BY <1>6, <2>2, CommitKeeps
  <2>4. Opened(j) \subseteq Cells
    BY DEF Opened
  <2> QED
    BY <1>2, <2>1, <2>3, <2>4 DEF Spares, Locked
<1>7. CASE ReviewSign(i)
  <2>1. work' = work /\ \A c \in Cells : status'[c] \in {status[c], "staff_reviewed"}
    BY <1>7 DEF ReviewSign
  <2>2. Opened(j) \subseteq Cells
    BY DEF Opened
  <2> QED
    BY <1>2, <1>4, <2>1, <2>2 DEF Spares, Locked
<1>8. CASE ExportMark(i)
  <2>1. work' = work /\ \A c \in Cells : status'[c] \in {status[c], "exported"}
    BY <1>8 DEF ExportMark
  <2>2. Written(buf[j]) = {}
    BY <1>1, <1>8, GuardedStep, ConflictOfLocks DEF Exclusive, MonthsInv, Holds, StageHolds
  <2>3. Opened(j) \subseteq Cells
    BY DEF Opened
  <2> QED
    BY <1>2, <1>4, <2>1, <2>2, <2>3 DEF Spares
<1>9. CASE ReopenCommit(i)
  <2>1. \A c \in Cells : status'[c] \in {status[c], "pending"}
    BY <1>9 DEF ReopenCommit
  <2>2. \A c \in Cells : CellLock(c) \in held[j] => Kept(c)
    BY <1>3, <1>9, ReopenKeeps
  <2>3. Opened(j) \subseteq Cells
    BY DEF Opened
  <2> QED
    BY <1>2, <2>1, <2>2, <2>3 DEF Spares, Locked
<1>10. CASE SettlementApply(i)
  <2>1. work' = work /\ \A c \in Cells : status'[c] \in {status[c], "staff_reviewed"}
    BY <1>10 DEF SettlementApply
  <2>2. Opened(j) \subseteq Cells
    BY DEF Opened
  <2> QED
    BY <1>2, <1>4, <2>1, <2>2 DEF Spares, Locked
<1> QED
  BY <1>5, <1>6, <1>7, <1>8, <1>9, <1>10, StepKind, GuardedStep DEF DBStep

-----------------------------------------------------------------------------
(* What a request relies on, it has made sure of itself.                     *)
LEMMA FinishHolds ==
  ASSUME TypeOK, NEW i \in Reqs, Finish(i)
  PROVE  Holds(i)'
<1>1. req'[i] = Idle /\ held'[i] = {} /\ buf'[i] = NoWrite
  BY DEF Finish, TypeOK
<1>2. Idle.op = "idle"
  BY DEF Idle
<1>3. StageHolds(i)'
  BY <1>1, <1>2, NothingWritten DEF StageHolds, At
<1> QED
  BY <1>1, <1>2, <1>3 DEF Holds, ReviewHolds, ReopenHolds, WriteHolds, At, Writes, Reopens

LEMMA BeginHolds ==
  ASSUME MonthsInv, NEW i \in Reqs, NEW q, Arrival(q), Begin(i, q)
  PROVE  Holds(i)'
<1>1. /\ req'[i] = q /\ held'[i] = held[i] /\ buf'[i] = buf[i]
      /\ req[i] = Idle
  BY DEF Begin, MonthsInv, RowsInv, TypeOK
<1>2. held[i] = {}
  BY <1>1 DEF MonthsInv, Holds, StageHolds
<1>3. Written(buf[i]) = {}
  BY <1>1 DEF MonthsInv, RowsInv, Owned, Idle, Writes, Reopens
<1>4. q.at \in FirstStages
  BY DEF Arrival
<1>5. StageHolds(i)'
  BY <1>1, <1>2, <1>3, <1>4 DEF StageHolds, At, Written, FirstStages
<1>6. ReviewHolds(i)'
  BY <1>1, <1>4 DEF ReviewHolds, Arrival, At, FirstStages
<1>7. ReopenHolds(i)'
  BY <1>1, <1>2 DEF ReopenHolds, Opened
<1>8. WriteHolds(i)'
  BY <1>1, <1>3 DEF WriteHolds, Changed, Written
<1> QED
  BY <1>5, <1>6, <1>7, <1>8 DEF Holds

LEMMA WriterHolds ==
  ASSUME MonthsInv, NEW i \in Reqs, Step(i), ~Finish(i), req[i].op \in Writes
  PROVE  Holds(i)'
<1>1. TypeOK /\ Holds(i)
  BY DEF MonthsInv, RowsInv
<1>2. Still
  BY StepKind DEF DBStep, Commit, ReviewSign, ExportMark, ReopenCommit, SettlementApply, PeriodDelete,
                  At, Writes, Exports
<1>3. Shape(i) /\ GoesOn(i)
  BY <1>1, StepShape DEF Shape
<1>4. req'[i].op = req[i].op
  BY <1>3 DEF GoesOn
<1>5. ReviewHolds(i)' /\ ReopenHolds(i)'
  BY <1>4 DEF ReviewHolds, ReopenHolds, At, Writes, Reopens
<1>6. req'[i] # Idle /\ ~At(i, {"export"}, "share")'
  BY <1>4 DEF Idle, At, Writes
<1>7. CASE held[i] \subseteq held'[i] /\ buf'[i] = buf[i]
  <2>1. StageHolds(i)'
    BY <1>1, <1>6, <1>7 DEF Holds, StageHolds, Written
  <2>2. WriteHolds(i)'
    BY <1>1, <1>2, <1>4, <1>7 DEF Holds, WriteHolds, Changed, Written, Locked, Still
  <2> QED
    BY <1>5, <2>1, <2>2 DEF Holds
<1>8. CASE \E W \in [Rows -> RowRec] : WritesRows(i, W)
  <2>1. PICK W \in [Rows -> RowRec] : WritesRows(i, W)
    BY <1>8
  <2>2. buf'[i] = W /\ held'[i] = held[i] \cup Need(i)
    BY <1>1, <2>1 DEF WritesRows, Acquire, TypeOK
  <2>3. StageHolds(i)'
    BY <1>6, <2>1, <2>2 DEF StageHolds, WritesRows, StatementLocks
  <2>4. ~Refused(W)
    BY <2>1 DEF WritesRows
  <2>5. WriteHolds(i)'
    BY <1>2, <2>2, <2>4 DEF WriteHolds, Refused, Changed, Written, Locked, Still
  <2> QED
    BY <1>5, <2>3, <2>5 DEF Holds
<1>9. req[i].op \notin Exports
  BY DEF Writes, Exports
<1> QED
  BY <1>1, <1>3, <1>7, <1>8, <1>9 DEF Shape, Acquire, TypeOK

LEMMA ExporterHolds ==
  ASSUME MonthsInv, NEW i \in Reqs, Step(i), ~Finish(i), req[i].op \in Exports
  PROVE  Holds(i)'
<1>1. TypeOK /\ Holds(i)
  BY DEF MonthsInv, RowsInv
<1>2. Shape(i) /\ GoesOn(i)
  BY <1>1, StepShape DEF Shape
<1>3. req'[i].op = req[i].op
  BY <1>2 DEF GoesOn
<1>4. req[i].op \notin Writes /\ req[i].op \notin Reopens
  BY DEF Exports, Writes, Reopens
<1>5. Written(buf[i]) = {} /\ buf' = buf
  BY <1>2, <1>4 DEF MonthsInv, RowsInv, Owned, Shape, WritesRows
<1>6. \/ ExportGate(i) \/ ExportBuild(i) \/ ExportLockTable(i) \/ ExportMark(i)
      \/ ExportFlag(i) \/ ExportSend(i)
  <2>1. ~(\/ UpsertWrite(i) \/ GenerateWrite(i) \/ ClearDraftsWrite(i) \/ DeleteWrite(i)
          \/ SubmitWrite(i) \/ ApproveWrite(i) \/ RejectWrite(i)
          \/ StaffUpsertWrite(i) \/ AdjustWrite(i) \/ CutWrite(i) \/ Commit(i))
    BY DEF UpsertWrite, GenerateWrite, ClearDraftsWrite, DeleteWrite, SubmitWrite, ApproveWrite,
           RejectWrite, StaffUpsertWrite, AdjustWrite, CutWrite, Commit, At, Exports, Writes
  <2>2. ~(\/ ApproveSnapshot(i) \/ ApproveSerialize(i) \/ ApproveManySerialize(i)
          \/ ApproveManySnapshot(i) \/ RejectSnapshot(i) \/ ReviewCount(i) \/ ReviewSign(i)
          \/ UnexportList(i) \/ ReopenCell(i) \/ ReopenWrite(i) \/ ReopenCommit(i)
          \/ SettlementApply(i) \/ PeriodDelete(i))
    BY DEF ApproveSnapshot, ApproveSerialize, ApproveManySerialize, ApproveManySnapshot,
           RejectSnapshot, ReviewCount, ReviewSign, UnexportList, ReopenCell, ReopenWrite,
           ReopenCommit, SettlementApply, PeriodDelete, At, Exports, Reopens
  <2> QED
    BY <2>1, <2>2 DEF Step
<1>7. At(i, {"export"}, "share")' => TableShare \in held'[i]
  <2>1. CASE ExportLockTable(i)
    <3>1. held'[i] = held[i] \cup Need(i)
      BY <1>1, <2>1 DEF ExportLockTable, Acquire, TypeOK
    <3>2. req[i].op = "export" => TableShare \in Need(i)
      BY <2>1 DEF ExportLockTable, Need, When, At
    <3> QED
      BY <1>3, <3>1, <3>2 DEF At
  <2>2. CASE ~ExportLockTable(i)
    <3> DEFINE later == req'[i].at \in {"gated", "built", "locked", "flagged"}
    <3>1. req \in [Reqs -> Request] /\ req[i] \in Request
      BY <1>1 DEF TypeOK
    <3>2. ExportGate(i) => later
      BY <3>1 DEF ExportGate, Goto, Request
    <3>3. ExportBuild(i) => later
      BY <3>1 DEF ExportBuild, Request
    <3>4. ExportMark(i) => later
      BY <3>1 DEF ExportMark, Request
    <3>5. ExportFlag(i) => later
      BY <3>1 DEF ExportFlag, Goto, Request
    <3>6. ~ExportSend(i)
      BY DEF ExportSend
    <3> QED
      BY <1>6, <2>2, <3>2, <3>3, <3>4, <3>5, <3>6 DEF At
  <2> QED
    BY <2>1, <2>2
<1> QED
  BY <1>3, <1>4, <1>5, <1>7 DEF Holds, StageHolds, ReviewHolds, ReopenHolds, WriteHolds, At, Written, Idle, Exports

LEMMA ReviewerHolds ==
  ASSUME MonthsInv, NEW i \in Reqs, ReviewCount(i), ~Finish(i)
  PROVE  Holds(i)'
<1>1. TypeOK /\ Holds(i) /\ req[i].op = "review"
  BY DEF MonthsInv, RowsInv, ReviewCount, At
<1>2. /\ req'[i].op = "review" /\ req'[i].cells = req[i].cells
      /\ buf' = buf /\ held'[i] = held[i] \cup Need(i)
      /\ UNCHANGED <<work, status>>
  BY <1>1 DEF ReviewCount, Goto, Acquire, TypeOK, Request, dbVars
<1>3. \A c \in req[i].cells : CellLock(c) \in Need(i)
  BY DEF ReviewCount, Need, When
<1>4. \A c \in req[i].cells : Approved(c) # {} /\ RowsIn(c, {"submitted"}) = {}
  BY DEF ReviewCount, Outstanding
<1>5. Written(buf[i]) = {}
  BY <1>1 DEF MonthsInv, RowsInv, Owned, Writes, Reopens
<1>6. ReviewHolds(i)'
  BY <1>1, <1>2, <1>3, <1>4 DEF Holds, ReviewHolds, Approved, RowsIn
<1> QED
  BY <1>2, <1>5, <1>6 DEF Holds, StageHolds, ReopenHolds, WriteHolds, At, Written, Idle, Reopens, Writes

LEMMA ReopenerHolds ==
  ASSUME MonthsInv, NEW i \in Reqs, UnexportList(i) \/ ReopenCell(i) \/ ReopenWrite(i), ~Finish(i)
  PROVE  Holds(i)'
<1>1. TypeOK /\ Holds(i) /\ req[i].op \in Reopens
  BY DEF MonthsInv, RowsInv, UnexportList, ReopenCell, ReopenWrite, At, Reopens
<1>2. /\ req'[i].op = req[i].op
      /\ held'[i] = held[i] \cup Need(i)
      /\ UNCHANGED <<work, status>>
  BY <1>1 DEF UnexportList, ReopenCell, ReopenWrite, Goto, Acquire, TypeOK, Request, dbVars
<1>3. Written(buf'[i]) # {} => TableRowEx \in held'[i]
  <2>1. CASE ReopenWrite(i)
    BY <1>2, <2>1 DEF ReopenWrite, Need, When, StatementLocks
  <2>2. CASE buf' = buf
    BY <1>1, <1>2, <2>2 DEF Holds, StageHolds
  <2> QED
    BY <2>1, <2>2 DEF UnexportList, ReopenCell
<1>4. \A c \in Cells : CellLock(c) \in Need(i) => status[c] # "finance_sent"
  <2> SUFFICES ASSUME NEW c \in Cells, CellLock(c) \in Need(i) PROVE status[c] # "finance_sent"
    OBVIOUS
  <2>1. CASE ReopenCell(i)
    <3>1. At(i, Reopens, "listed") /\ NextCells(i) = {NextCell(i)}
      BY <2>1 DEF ReopenCell, NextCells
    <3>2. CellLock(c) \in UNION {{CourseLock, CellLock(d), StatusRow(d)} : d \in NextCells(i)}
      BY <3>1 DEF Need, When, At, Reopens, Writes, Exports
    <3>3. c = NextCell(i)
      BY <3>1, <3>2 DEF CourseLock, CellLock, StatusRow
    <3> QED
      BY <2>1, <3>3 DEF ReopenCell
  <2>2. CASE UnexportList(i)
    <3>1. At(i, {"unexport"}, "checked")
      BY <2>2 DEF UnexportList
    <3>2. CellLock(c) \in {CourseRow}
      BY <3>1 DEF Need, When, At, Reopens, Writes, Exports
    <3> QED
      BY <3>2 DEF CellLock, CourseRow
  <2>3. CASE ReopenWrite(i)
    <3>1. At(i, Reopens, "reopened")
      BY <2>3 DEF ReopenWrite
    <3>2. CellLock(c) \in StatementLocks(ReopenRows(i))
      BY <3>1 DEF Need, When, At, Reopens, Writes, Exports
    <3> QED
      BY <3>2 DEF CellLock, StatementLocks, TableRowEx, RowLock
  <2> QED
    BY <2>1, <2>2, <2>3
<1>5. ReopenHolds(i)'
  BY <1>1, <1>2, <1>4 DEF Holds, ReopenHolds, Opened
<1> QED
  BY <1>1, <1>2, <1>3, <1>5 DEF Holds, StageHolds, ReviewHolds, WriteHolds, At, Idle, Reopens, Writes

LEMMA StepHolds ==
  ASSUME MonthsInv, NEW i \in Reqs, Step(i)
  PROVE  Holds(i)'
<1>1. TypeOK
  BY DEF MonthsInv, RowsInv
<1>2. CASE Finish(i)
  BY <1>1, <1>2, FinishHolds
<1>3. CASE ~Finish(i)
  <2>1. CASE req[i].op \in Writes \cup Exports
    BY <1>3, <2>1, WriterHolds, ExporterHolds
  <2>2. CASE ReviewCount(i) \/ UnexportList(i) \/ ReopenCell(i) \/ ReopenWrite(i)
    BY <1>3, <2>2, ReviewerHolds, ReopenerHolds
  <2>3. CASE \/ ReviewSign(i) \/ ReopenCommit(i) \/ SettlementApply(i) \/ PeriodDelete(i)
    BY <1>3, <2>3 DEF ReviewSign, ReopenCommit, SettlementApply, PeriodDelete
  <2>4. CASE \/ UpsertWrite(i) \/ GenerateWrite(i) \/ ClearDraftsWrite(i) \/ DeleteWrite(i)
             \/ SubmitWrite(i) \/ ApproveWrite(i) \/ RejectWrite(i)
             \/ StaffUpsertWrite(i) \/ AdjustWrite(i) \/ CutWrite(i) \/ Commit(i)
             \/ ApproveSnapshot(i) \/ ApproveSerialize(i) \/ ApproveManySerialize(i)
             \/ ApproveManySnapshot(i) \/ RejectSnapshot(i)
    <3>1. req[i].op \in Writes
      BY <2>4 DEF UpsertWrite, GenerateWrite, ClearDraftsWrite, DeleteWrite, SubmitWrite,
           ApproveWrite, RejectWrite, StaffUpsertWrite, AdjustWrite, CutWrite, Commit,
           ApproveSnapshot, ApproveSerialize, ApproveManySerialize, ApproveManySnapshot,
           RejectSnapshot, At, Writes
    <3> QED
      BY <2>1, <3>1
  <2>5. CASE \/ ExportGate(i) \/ ExportBuild(i) \/ ExportLockTable(i) \/ ExportMark(i)
             \/ ExportFlag(i) \/ ExportSend(i)
    <3>1. req[i].op \in Exports
      BY <2>5 DEF ExportGate, ExportBuild, ExportLockTable, ExportMark, ExportFlag, ExportSend, At
    <3> QED
      BY <2>1, <3>1
  <2> QED
    BY <2>2, <2>3, <2>4, <2>5 DEF Step
<1> QED
  BY <1>2, <1>3

-----------------------------------------------------------------------------
(* Every step of the requests is a step of MonthLifecycle, or leaves the     *)
(* months and what was signed of them as they are; and the months stay       *)
(* complete.                                                                 *)
CompleteMonth(c) == Approved(c) # {} /\ RowsIn(c, {"submitted"}) = {}

MonthStep == [Months!Next]_(Months!vars)

LEMMA SignedClaims ==
  ASSUME NEW c \in Cells
  PROVE  /\ status[c] = "pending" => SignedClaim[c] = {}
         /\ status[c] # "pending" => SignedClaim[c] = Claim(c)
  BY DEF SignedClaim

(* A commit, a send-back: the months D go back to pending, the other signed  *)
(* months keep their settled rows.                                           *)
LEMMA TakesBack ==
  ASSUME MonthsInv, NEW D \in SUBSET Cells,
         \A c \in D : status[c] \in {"staff_reviewed", "exported"},
         status' = [c \in Cells |-> IF c \in D THEN "pending" ELSE status[c]],
         \A c \in Cells \ D : status[c] # "pending" => Kept(c)
  PROVE  MonthStep /\ SignedMonthsComplete'
<1>1. ASSUME NEW c \in Cells
      PROVE  SignedClaim'[c] = IF c \in D THEN {} ELSE SignedClaim[c]
  <2>1. CASE c \in D \/ status[c] = "pending"
    BY <1>1, <2>1 DEF SignedClaim
  <2>2. CASE c \notin D /\ status[c] # "pending"
    <3>1. Claim(c)' = Claim(c) /\ status'[c] = status[c]
      BY <1>1, <2>2, KeptMonth
    <3> QED
      BY <1>1, <2>2, <3>1 DEF SignedClaim
  <2> QED
    BY <2>1, <2>2
<1>2. SignedClaim' = [c \in Cells |-> IF c \in D THEN {} ELSE SignedClaim[c]]
  BY <1>1 DEF SignedClaim
<1>3. Months!TakeBack(D)
  BY <1>2 DEF Months!TakeBack
<1>4. SignedMonthsComplete'
  <2> SUFFICES ASSUME NEW c \in Cells, status'[c] # "pending"
               PROVE  CompleteMonth(c)'
    BY DEF SignedMonthsComplete, CompleteMonth
  <2>1. c \notin D /\ status[c] # "pending"
    OBVIOUS
  <2>2. CompleteMonth(c)
    BY <2>1 DEF MonthsInv, SignedMonthsComplete, CompleteMonth
  <2> QED
    BY <2>1, <2>2, KeptMonth DEF CompleteMonth
<1> QED
  BY <1>3, <1>4 DEF MonthStep, Months!Next

(* An export, a re-issue, finance and its undo: signed months move, no row   *)
(* does.                                                                     *)
LEMMA Moves ==
  ASSUME MonthsInv, work' = work, NEW D \in SUBSET Cells,
         NEW from \in CellStates \ {"pending"}, NEW to \in CellStates \ {"pending"},
         \A c \in D : status[c] = from,
         status' = [c \in Cells |-> IF c \in D THEN to ELSE status[c]],
         Months!Move(D, from, to) => Months!Next
  PROVE  MonthStep /\ SignedMonthsComplete'
<1>1. \A c \in Cells : (status'[c] = "pending") = (status[c] = "pending")
  OBVIOUS
<1>2. SignedClaim' = SignedClaim
  BY <1>1 DEF SignedClaim, Claim, Approved, RowsIn
<1>3. CASE D = {}
  <2>1. status' = status
    BY <1>3 DEF MonthsInv, RowsInv, TypeOK
  <2> QED
    BY <1>1, <1>2, <2>1 DEF MonthStep, Months!vars, MonthsInv, SignedMonthsComplete, Approved, RowsIn
<1>4. CASE D # {}
  <2>1. Months!Move(D, from, to)
    BY <1>2, <1>4 DEF Months!Move
  <2> QED
    BY <1>1, <1>4, <2>1 DEF MonthStep, MonthsInv, SignedMonthsComplete, Approved, RowsIn
<1> QED
  BY <1>3, <1>4

LEMMA Stays ==
  ASSUME MonthsInv, work' = work, status' = status
  PROVE  MonthStep /\ SignedMonthsComplete'
  BY DEF MonthStep, Months!vars, SignedClaim, Claim, MonthsInv, SignedMonthsComplete, Approved, RowsIn

LEMMA CommitStep ==
  ASSUME MonthsInv, NEW i \in Reqs, Commit(i)
  PROVE  MonthStep /\ SignedMonthsComplete'
<1> DEFINE D == {c \in Cells : c \in Touched(buf[i]) /\ status[c] = "staff_reviewed"}
<1>1. status' = [c \in Cells |-> IF c \in D THEN "pending" ELSE status[c]]
  BY AlwaysDefined DEF Commit, ReviewReset
<1>2. ASSUME NEW c \in Cells \ D, status[c] # "pending" PROVE Kept(c)
  <2>1. c \notin Touched(buf[i]) \/ Locked(c)
    BY <1>2 DEF Locked, MonthsInv, RowsInv, TypeOK, CellStates
  <2> QED
    BY <2>1, CommitKeeps
<1> QED
  BY <1>1, <1>2, TakesBack

LEMMA ReopenStep ==
  ASSUME MonthsInv, NEW i \in Reqs, ReopenCommit(i)
  PROVE  MonthStep /\ SignedMonthsComplete'
<1>1. CASE UNCHANGED <<work, status>>
  BY <1>1, Stays
<1>2. CASE status' = [c \in Cells |-> IF c \in Opened(i) THEN "pending" ELSE status[c]]
  <2> DEFINE D == {c \in Opened(i) : status[c] # "pending"}
  <2>1. Opened(i) \subseteq Cells
    BY DEF Opened
  <2>2. \A c \in D : status[c] \in {"staff_reviewed", "exported"}
    <3>1. \A c \in Opened(i) : status[c] # "finance_sent"
      BY DEF MonthsInv, Holds, ReopenHolds, ReopenCommit, At
    <3> QED
      BY <2>1, <3>1 DEF MonthsInv, RowsInv, TypeOK, CellStates
  <2>3. status' = [c \in Cells |-> IF c \in D THEN "pending" ELSE status[c]]
    BY <1>2
  <2>4. \A c \in Cells \ D : status[c] # "pending" => Kept(c)
    BY ReopenKeeps
  <2> HIDE DEF D
  <2>5. D \in SUBSET Cells
    BY <2>1 DEF D
  <2> QED
    BY <2>2, <2>3, <2>4, <2>5, TakesBack
<1> QED
  BY <1>1, <1>2 DEF ReopenCommit

LEMMA SignStep ==
  ASSUME MonthsInv, NEW i \in Reqs, ReviewSign(i)
  PROVE  MonthStep /\ SignedMonthsComplete'
<1>1. PICK c \in Cells : req[i].cells = {c}
  BY DEF MonthsInv, Holds, ReviewHolds, ReviewSign, At
<1>2. CompleteMonth(c)
  BY <1>1 DEF MonthsInv, Holds, ReviewHolds, ReviewSign, CompleteMonth
<1>3. /\ work' = work
      /\ status' = [d \in Cells |-> IF d = c /\ status[d] = "pending" THEN "staff_reviewed" ELSE status[d]]
      /\ status \in [Cells -> CellStates] /\ work \in [Rows -> RowRec]
  BY <1>1, AlwaysDefined DEF ReviewSign, MonthsInv, RowsInv, TypeOK
<1>4. CASE status[c] # "pending"
  <2>1. status' = status
    BY <1>3, <1>4
  <2> QED
    BY <1>3, <2>1, Stays
<1>5. CASE status[c] = "pending"
  <2>1. status' = [status EXCEPT ![c] = "staff_reviewed"]
    BY <1>3, <1>5
  <2>2. \A d \in Cells : Claim(d)' = Claim(d)
    BY <1>3 DEF Claim, Approved, RowsIn
  <2>3. SignedClaim' = [SignedClaim EXCEPT ![c] = Claim(c)] /\ SignedClaim'[c] = Claim(c)
    <3>1. status'[c] = "staff_reviewed" /\ \A d \in Cells \ {c} : status'[d] = status[d]
      BY <1>3, <2>1
    <3>2. \A d \in Cells : SignedClaim'[d] = IF status'[d] = "pending" THEN {} ELSE Claim(d)'
      BY DEF SignedClaim
    <3>3. \A d \in Cells : SignedClaim[d] = IF status[d] = "pending" THEN {} ELSE Claim(d)
      BY DEF SignedClaim
    <3>4. \A d \in Cells : SignedClaim'[d] = IF d = c THEN Claim(c) ELSE SignedClaim[d]
      BY <2>2, <3>1, <3>2, <3>3
    <3>5. SignedClaim' = [d \in Cells |-> SignedClaim'[d]] /\ SignedClaim = [d \in Cells |-> SignedClaim[d]]
      BY DEF SignedClaim
    <3> HIDE DEF SignedClaim
    <3> QED
      BY <3>4, <3>5
  <2>5. Claim(c) \in (SUBSET Versions) \ {{}}
    <3>1. PICK r \in Rows : r \in Approved(c)
      BY <1>2 DEF CompleteMonth, Approved, RowsIn
    <3>2. <<r, work[r]>> \in Claim(c)
      BY <3>1 DEF Claim
    <3>3. \A s \in Rows : <<s, work[s]>> \in Versions
      BY <1>3 DEF Versions
    <3>4. Claim(c) \subseteq Versions
      BY <3>3 DEF Claim, Approved, RowsIn
    <3> QED
      BY <3>2, <3>4
  <2>6. Months!Sign(c)
    BY <1>5, <2>1, <2>3, <2>5 DEF Months!Sign
  <2>7. SignedMonthsComplete'
    BY <1>2, <1>3, <2>1 DEF MonthsInv, SignedMonthsComplete, CompleteMonth, Approved, RowsIn
  <2> QED
    BY <2>6, <2>7 DEF MonthStep, Months!Next
<1> QED
  BY <1>4, <1>5

LEMMA ExportStep ==
  ASSUME MonthsInv, NEW i \in Reqs, ExportMark(i)
  PROVE  MonthStep /\ SignedMonthsComplete'
<1>1. CASE status' = status
  BY <1>1, Stays DEF ExportMark
<1>2. CASE status' = [c \in Cells |-> IF c \in Exportable(i) THEN "exported" ELSE status[c]]
  <2>1. Exportable(i) \in SUBSET Cells /\ \A c \in Exportable(i) : status[c] = "staff_reviewed"
    BY DEF Exportable, MonthsInv, RowsInv, TypeOK, Request
  <2>2. Months!Move(Exportable(i), "staff_reviewed", "exported") => Months!Next
    BY <2>1 DEF Months!Next, Months!Export
  <2>3. work' = work
    BY DEF ExportMark
  <2> QED
    BY <1>2, <2>1, <2>2, <2>3, Moves DEF CellStates
<1> QED
  BY <1>1, <1>2 DEF ExportMark

LEMMA SettlementStep ==
  ASSUME MonthsInv, NEW i \in Reqs, SettlementApply(i)
  PROVE  MonthStep /\ SignedMonthsComplete'
<1> DEFINE D == {c \in Cells : status[c] = "exported"}
<1>1. status' = [c \in Cells |-> IF c \in D THEN "staff_reviewed" ELSE status[c]]
  BY DEF SettlementApply
<1>2. Months!Move(D, "exported", "staff_reviewed") => Months!Next
  BY DEF Months!Next, Months!Reissue
<1>3. work' = work
  BY DEF SettlementApply
<1> QED
  BY <1>1, <1>2, <1>3, Moves DEF CellStates

LEMMA OfficeStep ==
  ASSUME MonthsInv, Office
  PROVE  MonthStep /\ SignedMonthsComplete'
<1>1. ASSUME NEW c \in Cells, MarkFinanceSent(c) PROVE MonthStep /\ SignedMonthsComplete'
  <2>1. CASE status[c] = "exported"
    <3>1. status' = [d \in Cells |-> IF d \in {c} THEN "finance_sent" ELSE status[d]]
      BY <1>1 DEF MarkFinanceSent, MonthsInv, RowsInv, TypeOK
    <3>2. Months!Move({c}, "exported", "finance_sent") => Months!Next
      BY DEF Months!Next, Months!SendToFinance
    <3>3. work' = work
      BY <1>1 DEF MarkFinanceSent
    <3> QED
      BY <2>1, <3>1, <3>2, <3>3, Moves DEF CellStates
  <2>2. CASE status[c] = "finance_sent"
    <3>1. status' = status /\ work' = work
      BY <1>1, <2>2 DEF MarkFinanceSent, MonthsInv, RowsInv, TypeOK
    <3> QED
      BY <3>1, Stays
  <2> QED
    BY <1>1, <2>1, <2>2 DEF MarkFinanceSent
<1>2. ASSUME NEW c \in Cells, RevertFinanceSent(c) PROVE MonthStep /\ SignedMonthsComplete'
  <2>1. status' = [d \in Cells |-> IF d \in {c} THEN "exported" ELSE status[d]]
    BY <1>2 DEF RevertFinanceSent, MonthsInv, RowsInv, TypeOK
  <2>2. Months!Move({c}, "finance_sent", "exported") => Months!Next
    BY DEF Months!Next, Months!Revert
  <2>3. work' = work /\ status[c] = "finance_sent"
    BY <1>2 DEF RevertFinanceSent
  <2> QED
    BY <2>1, <2>2, <2>3, Moves DEF CellStates
<1>3. ASSUME NEW p \in Periods, PeriodClose(p) \/ PeriodExtend(p) \/ PeriodCreate(p)
      PROVE  MonthStep /\ SignedMonthsComplete'
  BY <1>3, Stays DEF PeriodClose, PeriodExtend, PeriodCreate
<1> QED
  BY <1>1, <1>2, <1>3 DEF Office

LEMMA PeriodsStay ==
  ASSUME Guarded, MonthsInv, [Next]_vars
  PROVE  \A p \in Periods : period'[p] # "none"
<1>1. \A p \in Periods : period[p] # "none"
  BY DEF MonthsInv
<1>2. ASSUME NEW i \in Reqs, Step(i) PROVE period' = period
  <2>1. DBStep(i) \/ Still
    BY <1>2, StepKind
  <2> QED
    BY <2>1, GuardedStep DEF DBStep, Still, Commit, ReviewSign, ExportMark, ReopenCommit, SettlementApply
<1>3. \A i \in Reqs : Arrive(i) => period' = period
  BY ArriveBegins DEF MonthsInv, RowsInv, Begin, dbVars
<1>4. \A i \in Reqs : Abort(i) \/ DeadlockAbort(i) => period' = period
  BY DEF Abort, DeadlockAbort, dbVars
<1>5. Office => \A p \in Periods : period'[p] # "none"
  BY <1>1 DEF Office, MarkFinanceSent, RevertFinanceSent, PeriodClose, PeriodExtend, PeriodCreate,
              MonthsInv, RowsInv, TypeOK
<1>6. UNCHANGED vars => period' = period
  BY DEF vars
<1> QED
  BY <1>1, <1>2, <1>3, <1>4, <1>5, <1>6 DEF Next

LEMMA StillSpares ==
  ASSUME NEW j \in Reqs, Still
  PROVE  Spares(j)
  BY DEF Spares, Still, Kept, Locked, Written

(* What the office does to the months spares every request: it waits for the *)
(* lock of the month it moves.                                               *)
LEMMA OfficeSpares ==
  ASSUME MonthsInv, Office, NEW j \in Reqs
  PROVE  Spares(j)
<1>1. work' = work
  BY DEF Office, MarkFinanceSent, RevertFinanceSent, PeriodClose, PeriodExtend, PeriodCreate
<1>2. /\ \A c \in Cells : Kept(c)
      /\ \A r \in Written(buf[j]) : work'[r] = work[r]
  BY <1>1 DEF Kept, Written
<1>3. status \in [Cells -> CellStates] /\ Opened(j) \subseteq Cells
  BY DEF MonthsInv, RowsInv, TypeOK, Opened
<1>4. ASSUME NEW c \in Cells, MarkFinanceSent(c) PROVE Spares(j)
  <2>1. c \notin Opened(j)
    BY <1>4, ConflictOfLocks DEF MarkFinanceSent, Unheld, Opened
  <2> QED
    BY <1>2, <1>3, <1>4, <2>1 DEF Spares, MarkFinanceSent, Locked
<1>5. ASSUME NEW c \in Cells, RevertFinanceSent(c) PROVE Spares(j)
  BY <1>2, <1>3, <1>5 DEF Spares, RevertFinanceSent, Locked
<1>6. ASSUME NEW p \in Periods, PeriodClose(p) \/ PeriodExtend(p) \/ PeriodCreate(p)
      PROVE  Spares(j)
  BY <1>2, <1>6 DEF Spares, PeriodClose, PeriodExtend, PeriodCreate, Locked
<1> QED
  BY <1>4, <1>5, <1>6 DEF Office

LEMMA HoldsNext ==
  ASSUME Guarded, MonthsInv, [Next]_vars, NEW j \in Reqs
  PROVE  Holds(j)'
<1>1. TypeOK /\ TypeOK'
  BY NextType DEF MonthsInv, RowsInv
<1>2. ASSUME NEW i \in Reqs, Step(i) PROVE Holds(j)'
  <2>1. CASE i = j
    BY <1>2, <2>1, StepHolds
  <2>2. CASE i # j
    BY <1>1, <1>2, <2>2, StepShape, ShapeOthers, StepSpares, SparedHolds DEF Others
  <2> QED
    BY <2>1, <2>2
<1>3. ASSUME NEW i \in Reqs, Abort(i) \/ DeadlockAbort(i) PROVE Holds(j)'
  <2>1. Finish(i) /\ Shape(i) /\ Still
    BY <1>3 DEF Abort, DeadlockAbort, Shape, Still, dbVars
  <2>2. CASE i = j
    BY <1>1, <2>1, <2>2, FinishHolds
  <2>3. CASE i # j
    BY <1>1, <2>1, <2>3, ShapeOthers, StillSpares, SparedHolds DEF Others
  <2> QED
    BY <2>2, <2>3
<1>4. ASSUME NEW i \in Reqs, Arrive(i) PROVE Holds(j)'
  <2>1. PICK q : Arrival(q) /\ Begin(i, q)
    BY <1>1, <1>4, ArriveBegins
  <2>2. CASE i = j
    BY <2>1, <2>2, BeginHolds
  <2>3. CASE i # j
    <3>1. Still /\ req'[j] = req[j] /\ held'[j] = held[j] /\ buf'[j] = buf[j]
      BY <1>1, <2>1, <2>3 DEF Begin, Still, dbVars, TypeOK
    <3> QED
      BY <1>1, <3>1, StillSpares, SparedHolds
  <2> QED
    BY <2>2, <2>3
<1>5. ASSUME Office PROVE Holds(j)'
  <2>1. UNCHANGED <<req, held, buf>>
    BY <1>5 DEF Office, MarkFinanceSent, RevertFinanceSent, PeriodClose, PeriodExtend, PeriodCreate
  <2> QED
    BY <1>1, <1>5, <2>1, OfficeSpares, SparedHolds
<1>6. ASSUME UNCHANGED vars PROVE Holds(j)'
  <2>1. Still /\ UNCHANGED <<req, held, buf>>
    BY <1>6 DEF vars, Still
  <2> QED
    BY <1>1, <2>1, StillSpares, SparedHolds
<1> QED
  BY <1>2, <1>3, <1>4, <1>5, <1>6 DEF Next

LEMMA OpsNext ==
  ASSUME MonthsInv, [Next]_vars, NEW j \in Reqs
  PROVE  req'[j].op \in Ops \cup {"idle"}
<1>1. TypeOK /\ req[j].op \in Ops \cup {"idle"}
  BY DEF MonthsInv, RowsInv
<1>2. Idle.op = "idle"
  BY DEF Idle
<1>3. ASSUME NEW i \in Reqs, Shape(i) PROVE req'[j].op \in Ops \cup {"idle"}
  BY <1>1, <1>2, <1>3 DEF Shape, Finish, GoesOn, TypeOK
<1>4. \A i \in Reqs : Step(i) => Shape(i)
  BY <1>1, StepShape
<1>5. \A i \in Reqs : Abort(i) \/ DeadlockAbort(i) => Shape(i)
  BY DEF Abort, DeadlockAbort, Shape
<1>6. ASSUME NEW i \in Reqs, Arrive(i) PROVE req'[j].op \in Ops \cup {"idle"}
  <2>1. PICK q : Begin(i, q)
    BY <1>1, <1>6, ArriveBegins
  <2> QED
    BY <1>1, <2>1 DEF Begin, TypeOK
<1>7. Office \/ UNCHANGED vars => req' = req
  BY DEF Office, MarkFinanceSent, RevertFinanceSent, PeriodClose, PeriodExtend, PeriodCreate, vars
<1> QED
  BY <1>1, <1>3, <1>4, <1>5, <1>6, <1>7 DEF Next

LEMMA MonthsStep ==
  ASSUME Guarded, MonthsInv, [Next]_vars
  PROVE  MonthStep /\ SignedMonthsComplete'
<1>1. ASSUME Still PROVE MonthStep /\ SignedMonthsComplete'
  BY <1>1, Stays DEF Still
<1>2. ASSUME NEW i \in Reqs, Step(i) PROVE MonthStep /\ SignedMonthsComplete'
  <2>1. DBStep(i) \/ Still
    BY <1>2, StepKind
  <2> QED
    BY <1>1, <2>1, GuardedStep, CommitStep, SignStep, ExportStep, ReopenStep, SettlementStep DEF DBStep
<1>3. \A i \in Reqs : Arrive(i) => Still
  BY ArriveBegins DEF MonthsInv, RowsInv, Begin, dbVars, Still
<1>4. \A i \in Reqs : Abort(i) \/ DeadlockAbort(i) => Still
  BY DEF Abort, DeadlockAbort, dbVars, Still
<1>5. UNCHANGED vars => Still
  BY DEF vars, Still
<1> QED
  BY <1>1, <1>2, <1>3, <1>4, <1>5, OfficeStep DEF Next

LEMMA MonthsInit == Init => MonthsInv
<1> SUFFICES ASSUME Init PROVE MonthsInv
  OBVIOUS
<1>1. TypeOK
  BY InitType
<1>2. \A i \in Reqs : req[i] = Idle /\ held[i] = {} /\ Written(buf[i]) = {}
  BY NothingWritten DEF Init
<1>3. Idle.op = "idle"
  BY DEF Idle
<1>4. RowsInv
  BY <1>1, <1>2 DEF RowsInv, Exclusive, Owned
<1>5. \A i \in Reqs : Holds(i)
  BY <1>2, <1>3 DEF Holds, StageHolds, ReviewHolds, ReopenHolds, WriteHolds, At, Writes, Reopens
<1>6. (\A p \in Periods : period[p] # "none") /\ SignedMonthsComplete
  BY DEF Init, SignedMonthsComplete
<1> QED
  BY <1>2, <1>3, <1>4, <1>5, <1>6 DEF MonthsInv

LEMMA MonthsInvariant == ASSUME Guarded PROVE Spec => []MonthsInv
<1>1. MonthsInv /\ [Next]_vars => MonthsInv'
  <2> SUFFICES ASSUME MonthsInv, [Next]_vars PROVE MonthsInv'
    OBVIOUS
  <2>1. RowsInv'
    BY RowsNext DEF MonthsInv
  <2>2. \A j \in Reqs : req'[j].op \in Ops \cup {"idle"} /\ Holds(j)'
    BY OpsNext, HoldsNext
  <2>3. \A p \in Periods : period'[p] # "none"
    BY PeriodsStay
  <2>4. SignedMonthsComplete'
    BY MonthsStep
  <2> QED
    BY <2>1, <2>2, <2>3, <2>4 DEF MonthsInv
<1> QED
  BY <1>1, MonthsInit, PTL DEF Spec

(* A month that is signed, exported or at finance holds approved work and    *)
(* nothing that still waits for the lecturer: the count that allows the      *)
(* signature is made under the cell's lock, which every writer's commit and  *)
(* every send-back waits for, and the table lock keeps writers out of the    *)
(* months an export locks.                                                   *)
THEOREM MonthsComplete == ASSUME Guarded PROVE Spec => []SignedMonthsComplete
<1>1. MonthsInv => SignedMonthsComplete
  BY DEF MonthsInv
<1> QED
  BY <1>1, MonthsInvariant, PTL

(* The requests implement the abstract workflow: what was approved in a      *)
(* signed month stands as it was signed until the month is taken back, a     *)
(* month at finance leaves it only by the undo, and no status is skipped.    *)
THEOREM RequestsImplementWorkflow == ASSUME Guarded PROVE Spec => ImplementsMonthLifecycle
<1>1. Init => Months!Init
  BY DEF Init, Months!Init, SignedClaim
<1>2. MonthsInv /\ [Next]_vars => [Months!Next]_(Months!vars)
  BY MonthsStep DEF MonthStep
<1> QED
  BY <1>1, <1>2, MonthsInvariant, PTL DEF Spec, ImplementsMonthLifecycle, Months!Spec

-----------------------------------------------------------------------------
(* What a send-back has written covers the months it has opened: all that    *)
(* was settled in them when it wrote, and nothing is settled in them since,  *)
(* because every writer waits for the lock of the month.                     *)
Covers(i) ==
    req[i].op \in Reopens /\ req[i].at # "reopened" =>
        \A c \in Opened(i) : \A r \in Rows :
            work[r].cell = c /\ work[r].st \in {"approved", "submitted"} => r \in Written(buf[i])

LEMMA SparedCovers ==
  ASSUME NEW j \in Reqs, Covers(j), Spares(j),
         req'[j] = req[j], held'[j] = held[j], buf'[j] = buf[j]
  PROVE  Covers(j)'
<1>1. Opened(j)' = Opened(j) /\ Written(buf[j])' = Written(buf[j])
  BY DEF Opened, Written
<1>2. \A c \in Opened(j) : Kept(c)
  BY DEF Spares, Opened
<1> SUFFICES ASSUME req[j].op \in Reopens, req[j].at # "reopened", NEW c \in Opened(j), NEW r \in Rows,
                    work'[r].cell = c, work'[r].st \in {"approved", "submitted"}
             PROVE  r \in Written(buf[j])
  BY <1>1 DEF Covers
<1>3. work'[r] = work[r]
  BY <1>2 DEF Kept
<1> QED
  BY <1>3 DEF Covers

LEMMA FinishCovers ==
  ASSUME TypeOK, NEW i \in Reqs, Finish(i)
  PROVE  Covers(i)'
<1>1. req'[i] = Idle
  BY DEF Finish, TypeOK
<1> QED
  BY <1>1 DEF Covers, Idle, Reopens

LEMMA BeginCovers ==
  ASSUME MonthsInv, NEW i \in Reqs, NEW q, Begin(i, q)
  PROVE  Covers(i)'
<1>1. held'[i] = {}
  BY DEF Begin, MonthsInv, Holds, StageHolds
<1> QED
  BY <1>1 DEF Covers, Opened

LEMMA NoCellLock ==
  /\ \A c : CellLock(c) # CourseRow /\ CellLock(c) # TableRowEx
  /\ \A c, r : CellLock(c) # RowLock(r)
  BY DEF CellLock, CourseRow, TableRowEx, RowLock

LEMMA ReopenerCovers ==
  ASSUME MonthsInv, NEW i \in Reqs, Covers(i), UnexportList(i) \/ ReopenCell(i) \/ ReopenWrite(i),
         ~Finish(i)
  PROVE  Covers(i)'
<1>1. TypeOK
  BY DEF MonthsInv, RowsInv
<1>2. CASE ReopenCell(i)
  <2>1. req'[i].at = "reopened"
    BY <1>1, <1>2 DEF ReopenCell, Goto, TypeOK, Request
  <2> QED
    BY <2>1 DEF Covers
<1>3. held'[i] = held[i] \cup Need(i) /\ work' = work
  BY <1>1 DEF UnexportList, ReopenCell, ReopenWrite, Acquire, TypeOK, dbVars
<1>4. CASE UnexportList(i)
  <2>1. At(i, {"unexport"}, "checked")
    BY <1>4 DEF UnexportList
  <2>2. Need(i) = {CourseRow}
    BY <2>1 DEF Need, When, At, Reopens, Writes, Exports
  <2>3. Opened(i)' = Opened(i)
    BY <1>3, <2>2, NoCellLock DEF Opened
  <2>4. buf' = buf /\ req[i].op \in Reopens /\ req[i].at # "reopened"
    BY <1>4, <2>1 DEF UnexportList, At, Reopens
  <2> QED
    BY <1>3, <2>3, <2>4 DEF Covers, Written
<1>5. CASE ReopenWrite(i)
  <2>1. At(i, Reopens, "reopened")
    BY <1>5 DEF ReopenWrite
  <2>2. Need(i) = StatementLocks(ReopenRows(i))
    BY <2>1 DEF Need, When, At, Reopens, Writes, Exports
  <2>3. Opened(i)' = Opened(i)
    BY <1>3, <2>2, NoCellLock DEF Opened, StatementLocks
  <2>4. buf'[i] = ReopenRows(i)
    BY <1>1, <1>5 DEF ReopenWrite, TypeOK
  <2>5. \A r \in Rows : work[r].cell \in Opened(i) /\ work[r].st \in {"approved", "submitted"}
                        => r \in Written(ReopenRows(i))
    <3> SUFFICES ASSUME NEW r \in Rows, work[r].cell \in Opened(i), work[r].st \in {"approved", "submitted"}
                 PROVE  r \in Written(ReopenRows(i))
      OBVIOUS
    <3>1. ReopenRows(i)[r] = [work[r] EXCEPT !.st = "rejected"]
      BY DEF ReopenRows, Rewrite
    <3>2. work[r] \in RowRec
      BY <1>1 DEF TypeOK
    <3>3. ReopenRows(i)[r].st = "rejected"
      BY <3>1, <3>2 DEF RowRec
    <3> QED
      BY <3>3 DEF Written
  <2> QED
    BY <1>3, <2>3, <2>4, <2>5 DEF Covers, Written
<1> QED
  BY <1>2, <1>4, <1>5

LEMMA StepCovers ==
  ASSUME MonthsInv, NEW i \in Reqs, Covers(i), Step(i)
  PROVE  Covers(i)'
<1>1. TypeOK
  BY DEF MonthsInv, RowsInv
<1>2. CASE Finish(i)
  BY <1>1, <1>2, FinishCovers
<1>3. CASE ~Finish(i) /\ req[i].op \notin Reopens
  <2>1. req'[i].op = req[i].op
    BY <1>1, <1>3, StepShape DEF Shape, GoesOn
  <2> QED
    BY <1>3, <2>1 DEF Covers
<1>4. CASE ~Finish(i) /\ req[i].op \in Reopens
  <2>1. UnexportList(i) \/ ReopenCell(i) \/ ReopenWrite(i) \/ ReopenCommit(i)
    BY <1>4 DEF Step, UpsertWrite, GenerateWrite, ClearDraftsWrite, DeleteWrite, SubmitWrite,
         ApproveWrite, RejectWrite, StaffUpsertWrite, AdjustWrite, CutWrite, Commit,
         ApproveSnapshot, ApproveSerialize, ApproveManySerialize, ApproveManySnapshot,
         RejectSnapshot, ReviewCount, ReviewSign, ExportGate, ExportBuild, ExportLockTable,
         ExportMark, ExportFlag, ExportSend, SettlementApply, PeriodDelete, At, Writes, Exports,
         Reopens
  <2>2. ~ReopenCommit(i)
    BY <1>4 DEF ReopenCommit
  <2> QED
    BY <1>4, <2>1, <2>2, ReopenerCovers
<1> QED
  BY <1>2, <1>3, <1>4

Covered == \A i \in Reqs : Covers(i)

LEMMA CoversNext ==
  ASSUME Guarded, MonthsInv, Covered, [Next]_vars, NEW j \in Reqs
  PROVE  Covers(j)'
<1>1. TypeOK /\ MonthsInv /\ Covers(j)
  BY DEF Covered, MonthsInv, RowsInv
<1>2. ASSUME NEW i \in Reqs, Step(i) PROVE Covers(j)'
  <2>1. CASE i = j
    BY <1>1, <1>2, <2>1, StepCovers
  <2>2. CASE i # j
    BY <1>1, <1>2, <2>2, StepShape, ShapeOthers, StepSpares, SparedCovers DEF Others
  <2> QED
    BY <2>1, <2>2
<1>3. ASSUME NEW i \in Reqs, Abort(i) \/ DeadlockAbort(i) PROVE Covers(j)'
  <2>1. Finish(i) /\ Shape(i) /\ Still
    BY <1>3 DEF Abort, DeadlockAbort, Shape, Still, dbVars
  <2>2. CASE i = j
    BY <1>1, <2>1, <2>2, FinishCovers
  <2>3. CASE i # j
    BY <1>1, <2>1, <2>3, ShapeOthers, StillSpares, SparedCovers DEF Others
  <2> QED
    BY <2>2, <2>3
<1>4. ASSUME NEW i \in Reqs, Arrive(i) PROVE Covers(j)'
  <2>1. PICK q : Arrival(q) /\ Begin(i, q)
    BY <1>1, <1>4, ArriveBegins
  <2>2. CASE i = j
    BY <1>1, <2>1, <2>2, BeginCovers
  <2>3. CASE i # j
    <3>1. Still /\ req'[j] = req[j] /\ held'[j] = held[j] /\ buf'[j] = buf[j]
      BY <1>1, <2>1, <2>3 DEF Begin, Still, dbVars, TypeOK
    <3> QED
      BY <1>1, <3>1, StillSpares, SparedCovers
  <2> QED
    BY <2>2, <2>3
<1>5. ASSUME Office PROVE Covers(j)'
  <2>1. UNCHANGED <<req, held, buf>>
    BY <1>5 DEF Office, MarkFinanceSent, RevertFinanceSent, PeriodClose, PeriodExtend, PeriodCreate
  <2> QED
    BY <1>1, <1>5, <2>1, OfficeSpares, SparedCovers
<1>6. ASSUME UNCHANGED vars PROVE Covers(j)'
  <2>1. Still /\ UNCHANGED <<req, held, buf>>
    BY <1>6 DEF vars, Still
  <2> QED
    BY <1>1, <2>1, StillSpares, SparedCovers
<1> QED
  BY <1>2, <1>3, <1>4, <1>5, <1>6 DEF Next

(* Only the commit of a send-back takes an exported month back to pending.   *)
LEMMA SentBackBy ==
  ASSUME Guarded, MonthsInv, [Next]_vars, NEW c \in Cells, status[c] = "exported", status'[c] = "pending"
  PROVE  \E i \in Reqs : ReopenCommit(i) /\ c \in Opened(i) /\ work' = Overlay(buf[i])
<1>1. ~Still
  BY DEF Still
<1>2. \A i \in Reqs : ~Arrive(i)
  BY <1>1, ArriveBegins DEF MonthsInv, RowsInv, Begin, dbVars, Still
<1>3. \A i \in Reqs : ~(Abort(i) \/ DeadlockAbort(i))
  BY <1>1 DEF Abort, DeadlockAbort, dbVars, Still
<1>4. ~Office
  <2>1. status \in [Cells -> CellStates]
    BY DEF MonthsInv, RowsInv, TypeOK
  <2> QED
    BY <2>1 DEF Office, MarkFinanceSent, RevertFinanceSent, PeriodClose, PeriodExtend, PeriodCreate
<1>5. PICK i \in Reqs : Step(i)
  BY <1>1, <1>2, <1>3, <1>4 DEF Next, vars, Still
<1>6. ~Commit(i) /\ ~ReviewSign(i) /\ ~ExportMark(i) /\ ~SettlementApply(i) /\ ~PeriodDelete(i)
  BY GuardedStep DEF Commit, ReviewReset, ReviewSign, ExportMark, SettlementApply
<1>7. ReopenCommit(i)
  BY <1>1, <1>5, <1>6, StepKind DEF DBStep
<1> QED
  BY <1>7 DEF ReopenCommit

(* The step that takes an exported month back to pending leaves every row of *)
(* it the TA's to edit, whatever was approved or submitted while the months  *)
(* were being opened: a send-back rejects what is settled under the lock of  *)
(* each month, and keeps the locks until it commits (reopenCellForCorrection). *)
THEOREM SentBackMonthsAreEditable == ASSUME Guarded PROVE Spec => SentBackIsEditable
<1>1. MonthsInv /\ Covered /\ [Next]_vars =>
        [\A c \in Cells : status[c] = "exported" /\ status'[c] = "pending" =>
            \A r \in Rows : work'[r].cell = c => work'[r].st \notin {"approved", "submitted"}]_vars
  <2> SUFFICES ASSUME MonthsInv, Covered, [Next]_vars,
                      NEW c \in Cells, status[c] = "exported", status'[c] = "pending",
                      NEW r \in Rows, work'[r].cell = c
               PROVE  work'[r].st \notin {"approved", "submitted"}
    OBVIOUS
  <2>1. MonthsInv /\ TypeOK
    BY DEF MonthsInv, RowsInv
  <2>2. PICK i \in Reqs : ReopenCommit(i) /\ c \in Opened(i) /\ work' = Overlay(buf[i])
    BY <2>1, SentBackBy
  <2>3. req[i].op \in Reopens /\ req[i].at = "listed"
    BY <2>2 DEF ReopenCommit, At
  <2>4. CASE r \in Written(buf[i])
    <3>1. work'[r] = buf[i][r] /\ buf[i][r] = [work[r] EXCEPT !.st = "rejected"] /\ work[r] \in RowRec
      BY <2>1, <2>2, <2>3, <2>4 DEF Overlay, Written, MonthsInv, RowsInv, Owned, Lawful, TypeOK
    <3> QED
      BY <3>1 DEF RowRec
  <2>5. CASE r \notin Written(buf[i])
    <3>1. work'[r] = work[r]
      BY <2>2, <2>5 DEF Overlay, Written
    <3> QED
      BY <2>2, <2>3, <2>5, <3>1 DEF Covered, Covers
  <2> QED
    BY <2>4, <2>5
<1>2. MonthsInv /\ Covered /\ [Next]_vars => Covered'
  BY CoversNext DEF Covered
<1>3. Init => Covered
  BY DEF Init, Covered, Covers, Idle, Reopens
<1>4. Spec => []MonthsInv
  BY MonthsInvariant
<1> QED
  BY <1>1, <1>2, <1>3, <1>4, PTL DEF Spec, SentBackIsEditable
=============================================================================
