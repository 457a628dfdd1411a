----------------------------- MODULE Documents -----------------------------
(***************************************************************************)
(* The supporting documents of one teaching assistant: their upload and    *)
(* replacement, the profile they stand behind, the officers' verdicts, the *)
(* files in storage, their retention, and the erasure of it all.           *)
(*                                                                         *)
(* Rows live in the database and files in the object store, which no       *)
(* transaction covers.  A call is a few steps: what it reads outside its   *)
(* locks may be stale when it writes.  Consent is given and the payloads   *)
(* are valid; rounds, reasons and the submission history are left out.     *)
(***************************************************************************)
EXTENDS Naturals, FiniteSets

CONSTANTS
    Kinds,      \* ta_required_doc_kinds of this TA
    Form,       \* the kind the system itself draws, the creditor form
    Ids,        \* names for rows and for files, used and not yet used
    None,       \* the NULL of an id
    Calls,      \* calls that may be in flight at once
    Quota,      \* maxDocDownloads
    Starts,     \* where a behaviour begins: the documents and the profile's status
    MaxFaults,  \* the faults of one behaviour (a bound)
    Workloads   \* the sets of operations, one of which a behaviour uses (a bound)

OpNames == {"upload", "submit", "review", "all", "batch", "profile",
            "download", "retention", "regenerate", "erase", "crash"}

Verdicts == {"approved", "rejected"}

(* expires_at: not set, ahead, past; or set ahead again once it was past.    *)
Clocks == {"off", "running", "due", "again"}
Row   == [kind : Kinds, status : {"submitted"} \cup Verdicts, current : BOOLEAN,
          file : Ids, clock : Clocks, gone : BOOLEAN]
Profiles == {"none", "submitted", "needs_fix"} \cup Verdicts

ASSUME DocumentsAssumption ==
    /\ Form \in Kinds /\ IsFiniteSet(Kinds) /\ None \notin Ids
    /\ Quota \in Nat /\ MaxFaults \in Nat /\ Workloads \subseteq SUBSET OpNames
    /\ \A s \in Starts :
          /\ DOMAIN s.docs \subseteq Ids /\ s.docs \in [DOMAIN s.docs -> Row]
          /\ s.profile \in Profiles
          /\ \A d, e \in {x \in DOMAIN s.docs : s.docs[x].current} :
                 s.docs[d].kind = s.docs[e].kind => d = e
          /\ \A d, e \in DOMAIN s.docs : s.docs[d].file = s.docs[e].file => d = e

VARIABLES
    docs,      \* ta_documents
    files,     \* the object store
    profile,   \* ta_profiles.status, "none" when there is no row
    told,      \* whether the last verdict was sent to the TA with all the others
    taken,     \* downloads that count toward the quota
    request,   \* the deletion request: its status, scrub_completed_at, and
               \* the rows there were when it was approved
    erased,    \* the account was closed by an approved request
    call,      \* what each call is doing
    ops,       \* the operations of this behaviour
    faults     \* how often a call died or the store failed

docVars == <<docs, files, profile, told, taken, request, erased, call, ops, faults>>

Stages == {"idle", "save", "store", "submit", "review", "decide", "commit", "all",
           "allcommit", "batch", "profile", "count", "take", "purge", "mark",
           "regen", "swap", "drop", "erase", "refuse", "scrub"}

(* rows, locked: the document rows, and the profile row, it has locked.      *)
(* verdict: what it decided.  approves: it found the set complete.           *)
(* settled: its verdict settles the review.  todo: files still to purge.     *)
Call == [at : Stages, rows : SUBSET Ids, locked : BOOLEAN, kind : Kinds,
         doc : Ids \cup {None}, file : Ids \cup {None}, verdict : Verdicts,
         approves : BOOLEAN, reopens : BOOLEAN, settled : BOOLEAN, seen : Nat,
         todo : SUBSET (Ids \X Ids), scrubs : BOOLEAN]

Idle == [at |-> "idle", rows |-> {}, locked |-> FALSE, kind |-> Form, doc |-> None,
         file |-> None, verdict |-> "rejected", approves |-> FALSE, reopens |-> FALSE,
         settled |-> FALSE, seen |-> 0, todo |-> {}, scrubs |-> FALSE]

-----------------------------------------------------------------------------
(* Reading the tables.                                                     *)
Used          == DOMAIN docs
Current(rows) == {d \in DOMAIN rows : rows[d].current}
InUse         == files \cup Used \cup {docs[d].file : d \in Used}
                 \cup {call[i].file : i \in Calls}
                 \cup {t[2] : t \in UNION {call[i].todo : i \in Calls}}

(* A new name, unlike any other: which one makes no difference. *)
Fresh         == IF Ids \subseteq InUse THEN {} ELSE {CHOOSE x \in Ids : x \notin InUse}

RowsFree(i, D)   == \A j \in Calls \ {i} : call[j].rows \cap D = {}
ProfileUnlocked(i) == i \in Calls
ProfileFree(i)   == \A j \in Calls \ {i} : ~call[j].locked

Complete(rows) == \A k \in Kinds : \E d \in Current(rows) :
                      rows[d].kind = k /\ rows[d].status = "approved"
Settled(rows)  == /\ Current(rows) # {}
                  /\ \A d \in Current(rows) : rows[d].status # "submitted"

Begin(i, op) == op \in ops /\ call[i] = Idle
Open(op)     == op \in ops /\ ~erased
To(i, c)     == call' = [call EXCEPT ![i] = c]
Step(i, s)   == To(i, [call[i] EXCEPT !.at = s])
End(i)       == To(i, Idle)

Fault == "crash" \in ops /\ faults < MaxFaults /\ faults' = faults + 1

(* An approval stamps the document and starts its retention clock, whether  *)
(* or not it had run out and the file is gone.                              *)
Expired(r)   == r.clock \in {"due", "again"}
Restarted(r) == IF Expired(r) THEN "again" ELSE "running"
Judged(r, v) == IF v = "approved" THEN [r EXCEPT !.status = v, !.clock = Restarted(r)]
                                  ELSE [r EXCEPT !.status = v]
JudgedAll(D, v) == [d \in Used |-> IF d \in D THEN Judged(docs[d], v) ELSE docs[d]]

-----------------------------------------------------------------------------
(* The TA sends the form and the files.                                    *)
SubmitRead(i) ==
    /\ Begin(i, "submit") /\ ~erased /\ profile # "approved"
    /\ To(i, [Idle EXCEPT !.at = "submit"])
    /\ UNCHANGED <<docs, files, profile, told, taken, request, erased, ops, faults>>

SubmitWrite(i) ==
    /\ call[i].at = "submit" /\ ProfileFree(i)
    /\ profile' = "submitted" /\ End(i)
    /\ UNCHANGED <<docs, files, told, taken, request, erased, ops, faults>>

UploadCheck(i) ==
    /\ Begin(i, "upload") /\ ~erased /\ profile # "approved"
    /\ \E k \in Kinds : To(i, [Idle EXCEPT !.at = "save", !.kind = k])
    /\ UNCHANGED <<docs, files, profile, told, taken, request, erased, ops, faults>>

(* The bytes are stored, then the transaction finds the row to supersede. *)
UploadSave(i) ==
    /\ call[i].at = "save"
    /\ \E f \in Fresh : \E p \in Ids \cup {None} :
          /\ IF \E d \in Current(docs) : docs[d].kind = call[i].kind
             THEN p \in Current(docs) /\ docs[p].kind = call[i].kind
             ELSE p = None
          /\ files' = files \cup {f}
          /\ To(i, [call[i] EXCEPT !.at = "store", !.file = f, !.doc = p])
    /\ UNCHANGED <<docs, profile, told, taken, request, erased, ops, faults>>

(* One current row a kind: the index refuses a second, and the file goes.  *)
NotIndexed(c)  == c \in Call
OnlyCurrent(c) == {d \in Current(docs) : docs[d].kind = c.kind} \subseteq {c.doc}

UploadCommit(i) ==
    LET c    == call[i]
        row  == [kind |-> c.kind, status |-> "submitted", current |-> TRUE,
                 file |-> c.file, clock |-> "off", gone |-> FALSE]
    IN  /\ c.at = "store" /\ RowsFree(i, {c.doc}) /\ End(i)
        /\ \/ /\ OnlyCurrent(c)
              /\ docs' = [d \in Used \cup {c.file} |->
                             IF d = c.file THEN row
                             ELSE [docs[d] EXCEPT !.current = @ /\ d # c.doc]]
              /\ UNCHANGED files
           \/ /\ ~OnlyCurrent(c)
              /\ files' = files \ {c.file}
              /\ UNCHANGED docs
        /\ UNCHANGED <<profile, told, taken, request, erased, ops, faults>>

-----------------------------------------------------------------------------
(* An officer decides on one document.                                     *)
ReviewCheck(i) ==
    /\ Begin(i, "review")
    /\ \E d \in Current(docs), v \in Verdicts :
          /\ v = "approved" => docs[d].status # "rejected"
          /\ To(i, [Idle EXCEPT !.at = "review", !.doc = d, !.verdict = v])
    /\ UNCHANGED <<docs, files, profile, told, taken, request, erased, ops, faults>>

(* A rejection takes an approved profile back, and waits for its row only  *)
(* when it sees it approved.                                               *)
ReviewDoc(i) ==
    LET c       == call[i]
        reopens == c.verdict = "rejected" /\ profile = "approved"
    IN  /\ c.at = "review" /\ RowsFree(i, {c.doc})
        /\ reopens => ProfileFree(i)
        /\ To(i, [c EXCEPT !.at = "decide", !.rows = {c.doc}, !.reopens = reopens,
                           !.locked = reopens])
        /\ UNCHANGED <<docs, files, profile, told, taken, request, erased, ops, faults>>

(* The profile's row is locked before the documents are counted.           *)
ReviewDecide(i) ==
    LET c    == call[i]
        rows == JudgedAll(c.rows, c.verdict)
    IN  /\ c.at = "decide" /\ ProfileFree(i)
        /\ To(i, [c EXCEPT !.at = "commit", !.locked = TRUE, !.settled = Settled(rows),
                           !.approves = /\ c.verdict = "approved"
                                        /\ profile \notin {"none", "approved"}
                                        /\ Complete(rows)])
        /\ UNCHANGED <<docs, files, profile, told, taken, request, erased, ops, faults>>

ReviewCommit(i) ==
    LET c    == call[i]
        rows == JudgedAll(c.rows, c.verdict)
    IN  /\ c.at = "commit" /\ End(i)
        /\ docs' = rows
        /\ profile' = CASE c.approves -> "approved"
                        [] c.reopens  -> "needs_fix"
                        [] OTHER      -> profile
        /\ told' = c.settled
        /\ UNCHANGED <<files, taken, request, erased, ops, faults>>

-----------------------------------------------------------------------------
(* Or on all of them, on some, or on the profile itself.                   *)
ApproveAllRead(i) ==
    /\ Begin(i, "all") /\ profile \notin {"none", "approved"}
    /\ To(i, [Idle EXCEPT !.at = "all"])
    /\ UNCHANGED <<docs, files, profile, told, taken, request, erased, ops, faults>>

Approvable(D) == /\ Kinds = {docs[d].kind : d \in D}
                 /\ \A d \in D : docs[d].status # "rejected"

ApproveAllLock(i) ==
    /\ call[i].at = "all" /\ RowsFree(i, Current(docs))
    /\ IF Approvable(Current(docs))
       THEN To(i, [call[i] EXCEPT !.at = "allcommit", !.rows = Current(docs)])
       ELSE End(i)
    /\ UNCHANGED <<docs, files, profile, told, taken, request, erased, ops, faults>>

ApproveAllCommit(i) ==
    LET rows == JudgedAll(call[i].rows, "approved")
    IN  /\ call[i].at = "allcommit" /\ ProfileFree(i) /\ End(i)
        /\ docs' = rows /\ profile' = "approved" /\ told' = Settled(rows)
        /\ UNCHANGED <<files, taken, request, erased, ops, faults>>

(* The rows of a batch are taken at once: two batches that lock them in    *)
(* different orders end in an abort, which changes nothing.                *)
RejectBatchLock(i) ==
    /\ Begin(i, "batch") /\ profile # "none"
    /\ \E D \in SUBSET Current(docs) \ {{}} :
          /\ RowsFree(i, D) /\ \A d \in D : docs[d].status # "approved"
          /\ To(i, [Idle EXCEPT !.at = "batch", !.rows = D])
    /\ UNCHANGED <<docs, files, profile, told, taken, request, erased, ops, faults>>

RejectBatchCommit(i) ==
    LET rows == JudgedAll(call[i].rows, "rejected")
    IN  /\ call[i].at = "batch" /\ ProfileFree(i) /\ End(i)
        /\ docs' = rows /\ profile' = "needs_fix" /\ told' = Settled(rows)
        /\ UNCHANGED <<files, taken, request, erased, ops, faults>>

ReviewProfileRead(i) ==
    /\ Begin(i, "profile") /\ profile # "none"
    /\ \E v \in Verdicts :
          /\ v = "approved" => Complete(docs)
          /\ To(i, [Idle EXCEPT !.at = "profile", !.verdict = v])
    /\ UNCHANGED <<docs, files, profile, told, taken, request, erased, ops, faults>>

ReviewProfileWrite(i) ==
    /\ call[i].at = "profile" /\ ProfileFree(i) /\ End(i)
    /\ profile' = call[i].verdict
    /\ UNCHANGED <<docs, files, told, taken, request, erased, ops, faults>>

-----------------------------------------------------------------------------
(* An officer downloads the approved files, at most Quota times.           *)
Served == {d \in Current(docs) : docs[d].status = "approved" /\ ~docs[d].gone}

DownloadBuild(i) ==
    /\ Begin(i, "download") /\ Served # {}
    /\ \A d \in Served : docs[d].file \in files
    /\ To(i, [Idle EXCEPT !.at = "count"])
    /\ UNCHANGED <<docs, files, profile, told, taken, request, erased, ops, faults>>

QuotaUnlocked(i) == i \in Calls
QuotaLockFree(i) == \A j \in Calls \ {i} : call[j].at # "take"

DownloadCount(i) ==
    /\ call[i].at = "count" /\ QuotaLockFree(i)
    /\ IF taken < Quota THEN To(i, [call[i] EXCEPT !.at = "take", !.seen = taken]) ELSE End(i)
    /\ UNCHANGED <<docs, files, profile, told, taken, request, erased, ops, faults>>

DownloadTake(i) ==
    /\ call[i].at = "take" /\ End(i)
    /\ taken' = taken + 1
    /\ UNCHANGED <<docs, files, profile, told, request, erased, ops, faults>>

-----------------------------------------------------------------------------
(* Files expire; their rows stay.  A purge deletes the file, then marks    *)
(* the row, so that a crash in between is repaired by the next one.        *)
Expire ==
    /\ "retention" \in ops
    /\ \E d \in Used : /\ docs[d].clock \in {"running", "again"}
                       /\ docs' = [docs EXCEPT ![d].clock = "due"]
    /\ UNCHANGED <<files, profile, told, taken, request, erased, call, ops, faults>>

Listed(D) == {<<d, docs[d].file>> : d \in {x \in D : ~docs[x].gone}}
Due       == {d \in Used : docs[d].clock = "due"}

SweepList(i) ==
    /\ Begin(i, "retention") /\ Listed(Due) # {}
    /\ To(i, [Idle EXCEPT !.at = "purge", !.todo = Listed(Due)])
    /\ UNCHANGED <<docs, files, profile, told, taken, request, erased, ops, faults>>

PurgeFile(i) ==
    /\ call[i].at = "purge"
    /\ \E t \in call[i].todo :
          /\ files' = files \ {t[2]}
          /\ To(i, [call[i] EXCEPT !.at = "mark", !.doc = t[1], !.todo = @ \ {t}])
    /\ UNCHANGED <<docs, profile, told, taken, request, erased, ops, faults>>

PurgeMark(i) ==
    /\ call[i].at = "mark"
    /\ docs' = [docs EXCEPT ![call[i].doc].gone = TRUE]
    /\ Step(i, "purge")
    /\ UNCHANGED <<files, profile, told, taken, request, erased, ops, faults>>

(* The store fails: a sweep passes the file over, a scrub gives up.        *)
PurgeFails(i) ==
    /\ call[i].at = "purge" /\ Fault
    /\ \E t \in call[i].todo :
          IF call[i].scrubs THEN End(i) ELSE To(i, [call[i] EXCEPT !.todo = @ \ {t}])
    /\ UNCHANGED <<docs, files, profile, told, taken, request, erased, ops>>

PurgeEnd(i) ==
    /\ call[i].at = "purge" /\ call[i].todo = {} /\ End(i)
    /\ request' = IF call[i].scrubs THEN [request EXCEPT !.scrubbed = TRUE] ELSE request
    /\ UNCHANGED <<docs, files, profile, told, taken, erased, ops, faults>>

-----------------------------------------------------------------------------
(* The form is drawn again with corrected details, under the same row.     *)
RegenerateRead(i) ==
    /\ Begin(i, "regenerate")
    /\ \E d \in Current(docs) :
          /\ docs[d].kind = Form /\ ~docs[d].gone /\ docs[d].file \in files
          /\ To(i, [Idle EXCEPT !.at = "regen", !.doc = d, !.todo = {<<d, docs[d].file>>}])
    /\ UNCHANGED <<docs, files, profile, told, taken, request, erased, ops, faults>>

RegenerateInPlace(i) ==
    /\ call[i].at = "regen"
    /\ \E f \in Fresh : /\ files' = (files \cup {f}) \ {t[2] : t \in call[i].todo}
                        /\ To(i, [call[i] EXCEPT !.at = "swap", !.file = f])
    /\ UNCHANGED <<docs, profile, told, taken, request, erased, ops, faults>>

RegenerateSave(i) ==
    /\ call[i].at = "regen"
    /\ \E f \in Fresh : /\ files' = files \cup {f}
                        /\ To(i, [call[i] EXCEPT !.at = "swap", !.file = f])
    /\ UNCHANGED <<docs, profile, told, taken, request, erased, ops, faults>>

RegenerateSwap(i) ==
    /\ call[i].at = "swap" /\ RowsFree(i, {call[i].doc})
    /\ docs' = [docs EXCEPT ![call[i].doc].file = call[i].file]
    /\ Step(i, "drop")
    /\ UNCHANGED <<files, profile, told, taken, request, erased, ops, faults>>

RegenerateDrop(i) ==
    /\ call[i].at = "drop" /\ End(i)
    /\ files' = files \ {t[2] : t \in call[i].todo}
    /\ UNCHANGED <<docs, profile, told, taken, request, erased, ops, faults>>

-----------------------------------------------------------------------------
(* The TA asks to be erased, once (a bound).  A request is decided when    *)
(* read as pending, the account closes, the files go after the commit.     *)
RequestDeletion ==
    /\ Open("erase") /\ request.status = "none"
    /\ request' = [status |-> "pending", scrubbed |-> FALSE, owed |-> {}]
    /\ UNCHANGED <<docs, files, profile, told, taken, erased, call, ops, faults>>

DeletionCheck(i) ==
    /\ Begin(i, "erase") /\ request.status = "pending"
    /\ \E s \in {"erase", "refuse"} : To(i, [Idle EXCEPT !.at = s])
    /\ UNCHANGED <<docs, files, profile, told, taken, request, erased, ops, faults>>

DeletionRefuseMistyped(i) ==
    /\ call[i].at = "refuse" /\ End(i)
    /\ request' = [request EXCEPT !.status = "refused"]
    /\ UNCHANGED <<docs, files, profile, told, taken, erased, ops, faults>>

DeletionRefuse(i) ==
    /\ call[i].at = "refuse" /\ End(i)
    /\ request' = [request EXCEPT !.status = "rejected"]
    /\ UNCHANGED <<docs, files, profile, told, taken, erased, ops, faults>>

DeletionApprove(i) ==
    /\ call[i].at = "erase" /\ Step(i, "scrub")
    /\ request' = [request EXCEPT !.status = "approved", !.owed = Used]
    /\ erased' = TRUE
    /\ UNCHANGED <<docs, files, profile, told, taken, ops, faults>>

(* The hourly sweep takes up what a failure or a crash left.               *)
ScrubResumeNever(i) == /\ Begin(i, "erase") /\ request.scrubbed /\ UNCHANGED docVars

ScrubResume(i) ==
    /\ Begin(i, "erase") /\ request.status = "approved" /\ ~request.scrubbed
    /\ To(i, [Idle EXCEPT !.at = "scrub"])
    /\ UNCHANGED <<docs, files, profile, told, taken, request, erased, ops, faults>>

ScrubList(i) ==
    /\ call[i].at = "scrub"
    /\ To(i, [call[i] EXCEPT !.at = "purge", !.todo = Listed(Used), !.scrubs = TRUE])
    /\ UNCHANGED <<docs, files, profile, told, taken, request, erased, ops, faults>>

(* A call dies; its locks go, the files it stored stay.                    *)
Crash(i) ==
    /\ Fault /\ call[i] # Idle /\ End(i)
    /\ UNCHANGED <<docs, files, profile, told, taken, request, erased, ops>>

-----------------------------------------------------------------------------
DocsInit ==
    /\ \E s \in Starts : /\ docs = s.docs /\ profile = s.profile
                         /\ files = {s.docs[d].file : d \in DOMAIN s.docs}
    /\ told = Settled(docs) /\ taken = 0 /\ erased = FALSE
    /\ request = [status |-> "none", scrubbed |-> FALSE, owed |-> {}]
    /\ call = [i \in Calls |-> Idle]
    /\ ops \in Workloads /\ faults = 0

(* The steps of a call that is under way, and the calls the scheduler makes. *)
InFlight(i) ==
    \/ SubmitWrite(i) \/ UploadSave(i) \/ UploadCommit(i)
    \/ ReviewDoc(i) \/ ReviewDecide(i) \/ ReviewCommit(i)
    \/ ApproveAllLock(i) \/ ApproveAllCommit(i) \/ RejectBatchCommit(i)
    \/ ReviewProfileWrite(i) \/ DownloadCount(i) \/ DownloadTake(i)
    \/ PurgeFile(i) \/ PurgeMark(i) \/ PurgeEnd(i)
    \/ RegenerateSave(i) \/ RegenerateSwap(i) \/ RegenerateDrop(i)
    \/ DeletionRefuse(i) \/ DeletionApprove(i) \/ ScrubList(i)

Scheduled(i) == SweepList(i) \/ ScrubResume(i)

DocsNext ==
    \/ Expire \/ RequestDeletion
    \/ \E i \in Calls :
          \/ SubmitRead(i) \/ UploadCheck(i)
          \/ ReviewCheck(i) \/ ApproveAllRead(i) \/ RejectBatchLock(i) \/ ReviewProfileRead(i)
          \/ DownloadBuild(i) \/ RegenerateRead(i) \/ DeletionCheck(i)
          \/ Scheduled(i) \/ InFlight(i)
          \/ PurgeFails(i) \/ Crash(i)

DocsSpec == DocsInit /\ [][DocsNext]_docVars

(* Calls under way go on, and the scheduler always comes round again.      *)
DocsFairness == \A i \in Calls : WF_docVars(InFlight(i)) /\ SF_docVars(Scheduled(i))
DocsFairSpec == DocsSpec /\ DocsFairness

-----------------------------------------------------------------------------
DocsTypeOK ==
    /\ Used \subseteq Ids /\ docs \in [Used -> Row] /\ files \subseteq Ids
    /\ profile \in Profiles
    /\ told \in BOOLEAN /\ taken \in Nat /\ erased \in BOOLEAN /\ ops \in Workloads
    /\ request \in [status : {"none", "pending", "approved", "rejected"}, scrubbed : BOOLEAN,
                   owed : SUBSET Ids]
    /\ call \in [Calls -> Call] /\ faults \in 0..MaxFaults

(* The last approval approves the profile, whoever gives it: two officers  *)
(* who approve the last two documents at once cannot both miss the other.  *)
CompletedSetApproved ==
    [][ (Complete(docs') /\ ~Complete(docs) /\ profile # "none") => profile' = "approved" ]_docVars

(* Whoever gives the last verdict, the TA is sent the verdicts: when no    *)
(* call is at work and every document is judged, a notice listed exactly   *)
(* these.                                                                  *)
VerdictsTold ==
    (Settled(docs) /\ \A i \in Calls : call[i] = Idle) => told

(* Two officers who click at once do not take a third copy.                *)
QuotaHeld == taken <= Quota

(* A row that is not marked deleted has its file, unless its retention ran  *)
(* out or the account was closed: replacing, redrawing and failed uploads   *)
(* never drop it.  A sweep that dies between a file and its mark leaves a   *)
(* row without one, which a new approval then keeps for another week.       *)
FilesKept == \A d \in Used : \/ docs[d].file \in files \/ docs[d].gone
                             \/ Expired(docs[d]) \/ erased

(* A document whose file retention has deleted is not approved again, as    *)
(* ApproveAll's comment says.  The code does not keep this: one document is *)
(* approved, its week passes, the other comes and all are approved.         *)
NoneApprovedPurged == [][ \A d \in Used : docs[d].gone => docs'[d].clock = docs[d].clock ]_docVars

(* One current document a kind, whatever the uploads in flight.            *)
OneCurrent == \A d, e \in Current(docs) : docs[d].kind = docs[e].kind => d = e

(* An approved profile is backed by approved documents.  The code does not *)
(* keep this: an upload that looked before the approval lands after it.    *)
ApprovedIsBacked == profile = "approved" => Complete(docs)

(* An approved erasure deletes the file of every row there was, through    *)
(* crashes and failures of the store, unless another officer's refusal     *)
(* overwrites the approval.                                                *)
ErasureFinishes ==
    request.status = "approved"
        ~> (request.status # "approved" \/ \A d \in request.owed : d \in Used /\ docs[d].gone)

(* When an erasure is reported complete, no file of the TA is left.  The   *)
(* code does not keep this: an upload in flight lands after the scrub.     *)
ErasedIsGone == (request.status = "approved" /\ request.scrubbed) => files = {}
=============================================================================
