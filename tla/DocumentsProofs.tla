--------------------------- MODULE DocumentsProofs ---------------------------
(***************************************************************************)
(* What holds of the documents of a TA whatever the kinds, the files and   *)
(* the calls in flight: the types, the quota, one current document a kind, *)
(* that the last approval approves the profile and that the last verdict   *)
(* sends the verdicts.                                                     *)
(*                                                                         *)
(* The last two rest on one argument.  The profile's row is locked before  *)
(* the documents are counted and until the verdict commits (GoodCall,      *)
(* Apart), so no other verdict falls between; an upload may, but its own   *)
(* row is then current and unjudged, and the set is not complete.          *)
(*                                                                         *)
(* At the end, the files (FileInv): a row that is not due has its file,    *)
(* because what a call lists to delete is due, or no row's, and stays so.  *)
(***************************************************************************)
EXTENDS Documents, TLAPS

RowsOf(c) == JudgedAll(c.rows, c.verdict)

(* What a count under the profile's lock promises of the rows it will commit. *)
Promise(c) ==
    /\ c.verdict = "approved" /\ Complete(RowsOf(c)) => c.approves \/ profile \in {"none", "approved"}
    /\ Settled(RowsOf(c)) => c.settled

GoodCall(c) ==
    /\ c \in Call /\ c.rows \subseteq Used
    /\ c.at \in {"store", "swap"} => c.file \in Ids
    /\ c.at = "review" => c.doc \in Used
    /\ c.at = "store" => c.file \notin Used
    /\ c.at \in {"decide", "commit"} => (c.reopens => c.verdict = "rejected")
    /\ c.at = "commit" => c.locked /\ Promise(c)
    /\ c.at = "take" => taken < Quota

(* Two calls hold neither the profile's row nor the quota's lock together,   *)
(* and a stored file is one call's.                                          *)
Apart == \A i \in Calls : \A j \in Calls \ {i} :
    /\ ~(call[i].locked /\ call[j].locked)
    /\ ~(call[i].at = "take" /\ call[j].at = "take")
    /\ call[i].at = "store" => call[j].file # call[i].file

Tables ==
    /\ Used \subseteq Ids /\ docs \in [Used -> Row] /\ files \subseteq Ids
    /\ profile \in Profiles
    /\ told \in BOOLEAN /\ taken \in Nat /\ erased \in BOOLEAN /\ ops \in Workloads
    /\ request \in [status : {"none", "pending", "approved", "rejected"}, scrubbed : BOOLEAN,
                   owed : SUBSET Ids]
    /\ faults \in 0..MaxFaults

CallsGood == call \in [Calls -> Call] /\ \A i \in Calls : GoodCall(call[i])
LastToldAll == Settled(docs) => told

DocsInv == Tables /\ CallsGood /\ Apart /\ OneCurrent /\ LastToldAll /\ QuotaHeld

-----------------------------------------------------------------------------
LEMMA IdleCall == Idle \in Call /\ Idle.rows = {} /\ Idle.at = "idle" /\ ~Idle.locked /\ Idle.file = None
  BY DocumentsAssumption DEF Idle, Call, Stages, Verdicts

LEMMA IdleGood == GoodCall(Idle)
  BY IdleCall DEF GoodCall

LEMMA TypesFollow == DocsInv => DocsTypeOK
  BY DEF DocsInv, Tables, CallsGood, DocsTypeOK

LEMMA JudgedRow ==
  ASSUME NEW r \in Row, NEW v \in Verdicts
  PROVE  /\ Judged(r, v) \in Row /\ Judged(r, v).kind = r.kind
         /\ Judged(r, v).current = r.current /\ Judged(r, v).status = v
  BY DEF Judged, Restarted, Expired, Row, Verdicts, Clocks

(* A verdict keeps the rows, their kinds and which of them are current.      *)
LEMMA JudgedType ==
  ASSUME Tables, NEW D, NEW v \in Verdicts
  PROVE  /\ JudgedAll(D, v) \in [Used -> Row]
         /\ \A d \in Used : /\ JudgedAll(D, v)[d].kind = docs[d].kind
                            /\ JudgedAll(D, v)[d].current = docs[d].current
                            /\ d \in D => JudgedAll(D, v)[d].status = v
                            /\ d \notin D => JudgedAll(D, v)[d] = docs[d]
  BY JudgedRow DEF JudgedAll, Tables

LEMMA JudgedCurrent ==
  ASSUME Tables, NEW D, NEW v \in Verdicts
  PROVE  Current(JudgedAll(D, v)) = Current(docs)
  BY JudgedType DEF Current, Tables

-----------------------------------------------------------------------------
(* Two tables of documents that differ only in files, clocks and deletions.  *)
Alike(a, b) == /\ DOMAIN a = DOMAIN b
               /\ \A d \in DOMAIN a : /\ a[d].kind = b[d].kind /\ a[d].current = b[d].current
                                      /\ a[d].status = b[d].status

LEMMA AlikeSame ==
  ASSUME NEW a, NEW b, Alike(a, b)
  PROVE  (Complete(a) <=> Complete(b)) /\ (Settled(a) <=> Settled(b)) /\ Current(a) = Current(b)
<1>1. Current(a) = Current(b)
  BY DEF Alike, Current
<1>2. \A d \in Current(a) : d \in DOMAIN a
  BY DEF Current
<1> QED
  BY <1>1, <1>2 DEF Alike, Complete, Settled

LEMMA JudgedAlike ==
  ASSUME Tables, Tables', Alike(docs, docs'), NEW D, NEW v \in Verdicts
  PROVE  Alike(JudgedAll(D, v), JudgedAll(D, v)')
<1>1. \A d \in Used : /\ JudgedAll(D, v)[d].kind = docs[d].kind
                      /\ JudgedAll(D, v)[d].current = docs[d].current
                      /\ d \in D => JudgedAll(D, v)[d].status = v
                      /\ d \notin D => JudgedAll(D, v)[d] = docs[d]
  BY JudgedType
<1>2. \A d \in Used' : /\ JudgedAll(D, v)'[d].kind = docs'[d].kind
                       /\ JudgedAll(D, v)'[d].current = docs'[d].current
                       /\ d \in D => JudgedAll(D, v)'[d].status = v
                       /\ d \notin D => JudgedAll(D, v)'[d] = docs'[d]
  BY JudgedRow DEF JudgedAll, Tables, Used
<1>3. DOMAIN JudgedAll(D, v) = Used /\ DOMAIN JudgedAll(D, v)' = Used'
  BY DEF JudgedAll
<1> QED
  BY <1>1, <1>2, <1>3 DEF Alike, Used

LEMMA GoodFrame ==
  ASSUME Tables, Tables', Alike(docs, docs'), UNCHANGED <<profile, taken>>, NEW c, GoodCall(c)
  PROVE  GoodCall(c)'
<1>1. Used' = Used
  BY DEF Alike, Used
<1>2. c.at = "commit" => Promise(c)'
  <2> SUFFICES ASSUME c.at = "commit" PROVE Promise(c)'
    OBVIOUS
  <2>1. c.verdict \in Verdicts
    BY DEF GoodCall, Call
  <2>2. /\ Complete(RowsOf(c))' <=> Complete(RowsOf(c))
        /\ Settled(RowsOf(c))' <=> Settled(RowsOf(c))
    BY <2>1, JudgedAlike, AlikeSame DEF RowsOf, Complete, Settled
  <2> QED
    BY <2>2 DEF GoodCall, Promise
<1> QED
  BY <1>1, <1>2 DEF GoodCall

-----------------------------------------------------------------------------
(* Steps that leave the verdicts alone: one call moves on.                   *)
LEMMA MoveKeeps ==
  ASSUME DocsInv, Tables', Alike(docs, docs'), UNCHANGED <<profile, told, taken>>,
         NEW i \in Calls, NEW c, To(i, c), GoodCall(c),
         c.locked => call[i].locked \/ ProfileFree(i),
         c.at = "take" => call[i].at = "take" \/ QuotaLockFree(i),
         \/ c.file \in {call[i].file, None} /\ (c.at = "store" => call[i].at = "store")
         \/ \A j \in Calls \ {i} : call[j].file # c.file
  PROVE  DocsInv'
<1> USE DEF DocsInv
<1>1. /\ call' \in [Calls -> Call]
      /\ call'[i] = c
      /\ \A j \in Calls \ {i} : call'[j] = call[j]
  BY DEF CallsGood, GoodCall, To
<1>2. CallsGood'
  <2>1. ASSUME NEW j \in Calls PROVE GoodCall(call[j])'
    <3>1. GoodCall(call'[j])
      BY <1>1 DEF CallsGood
    <3>2. \A x : GoodCall(x) => GoodCall(x)'
      BY GoodFrame
    <3> QED
      BY <3>1, <3>2
  <2> QED
    BY <1>1, <2>1 DEF CallsGood
<1>3. Apart'
  <2> SUFFICES ASSUME NEW j \in Calls, NEW k \in Calls \ {j}
               PROVE  /\ ~(call'[j].locked /\ call'[k].locked)
                      /\ ~(call'[j].at = "take" /\ call'[k].at = "take")
                      /\ call'[j].at = "store" => call'[k].file # call'[j].file
    BY DEF Apart
  <2>1. CASE j # i /\ k # i
    BY <1>1, <2>1 DEF Apart
  <2>2. CASE j = i
    <3>1. c.at = "store" => c.file # None
      BY DocumentsAssumption DEF GoodCall
    <3> QED
      BY <1>1, <2>2, <3>1 DEF Apart, ProfileFree, QuotaLockFree
  <2>3. CASE k = i
    <3>1. call'[j].at = "store" => call[j].file \in Ids
      BY <1>1, <2>3 DEF CallsGood, GoodCall
    <3> QED
      BY <1>1, <2>3, <3>1, DocumentsAssumption DEF Apart, ProfileFree, QuotaLockFree
  <2> QED
    BY <2>1, <2>2, <2>3
<1>4. OneCurrent'
  <2>1. Current(docs') = Current(docs)
    BY AlikeSame
  <2> QED
    BY <2>1 DEF OneCurrent, Alike, Current
<1>5. LastToldAll'
  BY AlikeSame DEF LastToldAll, Settled
<1> QED
  BY <1>2, <1>3, <1>4, <1>5 DEF QuotaHeld

LEMMA DocsAlike == UNCHANGED docs => Alike(docs, docs')
  BY DEF Alike

LEMMA TablesFrame ==
  ASSUME Tables, UNCHANGED <<docs, files, profile, told, taken, request, erased, ops, faults>>
  PROVE  Tables'
  BY DEF Tables, Used

(* A call ends: it holds nothing.                                            *)
LEMMA EndKeeps ==
  ASSUME DocsInv, Tables', Alike(docs, docs'), UNCHANGED <<profile, told, taken>>,
         NEW i \in Calls, End(i)
  PROVE  DocsInv'
  BY IdleCall, IdleGood, MoveKeeps DEF End

(* A call begins, or goes on, without touching a table.                      *)
LEMMA StepKeeps ==
  ASSUME DocsInv, UNCHANGED <<docs, files, profile, told, taken, request, erased, ops, faults>>,
         NEW i \in Calls, NEW c, To(i, c), GoodCall(c),
         c.locked => call[i].locked \/ ProfileFree(i),
         c.at = "take" => call[i].at = "take" \/ QuotaLockFree(i),
         \/ c.file \in {call[i].file, None} /\ (c.at = "store" => call[i].at = "store")
         \/ \A j \in Calls \ {i} : call[j].file # c.file
  PROVE  DocsInv'
  BY MoveKeeps, TablesFrame, DocsAlike DEF DocsInv

-----------------------------------------------------------------------------
LEMMA BeginTypes ==
  /\ \A s \in Stages \ {"store", "swap", "review", "decide", "commit", "take"} :
        GoodCall([Idle EXCEPT !.at = s])
  /\ \A k \in Kinds : GoodCall([Idle EXCEPT !.at = "save", !.kind = k])
  /\ \A v \in Verdicts : GoodCall([Idle EXCEPT !.at = "profile", !.verdict = v])
<1> USE DocumentsAssumption DEF Idle, Call, GoodCall, Stages, Verdicts
<1>1. ASSUME NEW s \in Stages \ {"store", "swap", "review", "decide", "commit", "take"}
      PROVE  GoodCall([Idle EXCEPT !.at = s])
  <2>1. [Idle EXCEPT !.at = s] \in Call
    OBVIOUS
  <2> QED
    BY <1>1, <2>1 DEF GoodCall
<1>2. \A k \in Kinds : GoodCall([Idle EXCEPT !.at = "save", !.kind = k])
  OBVIOUS
<1>3. \A v \in Verdicts : GoodCall([Idle EXCEPT !.at = "profile", !.verdict = v])
  OBVIOUS
<1> QED
  BY <1>1, <1>2, <1>3

(* The calls that only begin.                                                *)
LEMMA BeginKeeps ==
  ASSUME DocsInv, NEW i \in Calls,
         \/ SubmitRead(i) \/ UploadCheck(i) \/ ApproveAllRead(i) \/ ReviewProfileRead(i)
         \/ DownloadBuild(i) \/ DeletionCheck(i) \/ ScrubResume(i)
  PROVE  DocsInv'
<1> DEFINE Kept == UNCHANGED <<docs, files, profile, told, taken, request, erased, ops, faults>>
<1>1. ASSUME NEW s \in {"submit", "all", "count", "erase", "refuse", "scrub"},
             To(i, [Idle EXCEPT !.at = s]), Kept
      PROVE  DocsInv'
  <2> DEFINE c == [Idle EXCEPT !.at = s]
  <2>1. GoodCall(c) /\ c.locked = FALSE /\ c.at # "take" /\ c.at # "store" /\ c.file = None
    BY BeginTypes DEF Stages, Idle
  <2> HIDE DEF c
  <2> QED
    BY <1>1, <2>1, StepKeeps DEF c
<1>2. ASSUME NEW k \in Kinds, To(i, [Idle EXCEPT !.at = "save", !.kind = k]), Kept
      PROVE  DocsInv'
  <2> DEFINE c == [Idle EXCEPT !.at = "save", !.kind = k]
  <2>1. GoodCall(c) /\ c.locked = FALSE /\ c.at # "take" /\ c.at # "store" /\ c.file = None
    BY BeginTypes DEF Idle
  <2> HIDE DEF c
  <2> QED
    BY <1>2, <2>1, StepKeeps DEF c
<1>3. ASSUME NEW v \in Verdicts, To(i, [Idle EXCEPT !.at = "profile", !.verdict = v]), Kept
      PROVE  DocsInv'
  <2> DEFINE c == [Idle EXCEPT !.at = "profile", !.verdict = v]
  <2>1. GoodCall(c) /\ c.locked = FALSE /\ c.at # "take" /\ c.at # "store" /\ c.file = None
    BY BeginTypes DEF Idle
  <2> HIDE DEF c
  <2> QED
    BY <1>3, <2>1, StepKeeps DEF c
<1> QED
  BY <1>1, <1>2, <1>3 DEF SubmitRead, UploadCheck, ApproveAllRead, ReviewProfileRead,
                          DownloadBuild, DeletionCheck, ScrubResume

(* The calls that begin with documents in hand, and the reads of a call      *)
(* under way.                                                                *)
LEMMA ReviewCheckKeeps ==
  ASSUME DocsInv, NEW i \in Calls, ReviewCheck(i)
  PROVE  DocsInv'
<1>1. PICK d \in Current(docs), v \in Verdicts :
          To(i, [Idle EXCEPT !.at = "review", !.doc = d, !.verdict = v])
  BY DEF ReviewCheck
<1> DEFINE c == [Idle EXCEPT !.at = "review", !.doc = d, !.verdict = v]
<1>2. d \in Used /\ d \in Ids
  BY DEF DocsInv, Tables, Current
<1>3. GoodCall(c) /\ c.locked = FALSE /\ c.at = "review" /\ c.file = None
  BY <1>2, DocumentsAssumption DEF GoodCall, Idle, Call, Stages, Verdicts
<1> HIDE DEF c
<1> QED
  BY <1>1, <1>3, StepKeeps DEF ReviewCheck, c

LEMMA ReviewDocKeeps ==
  ASSUME DocsInv, NEW i \in Calls, ReviewDoc(i)
  PROVE  DocsInv'
<1> DEFINE reopens == call[i].verdict = "rejected" /\ profile = "approved"
           c == [call[i] EXCEPT !.at = "decide", !.rows = {call[i].doc}, !.reopens = reopens,
                                !.locked = reopens]
<1>1. call[i] \in Call /\ call[i].at = "review" /\ call[i].doc \in Used /\ Used \subseteq Ids
  BY DEF DocsInv, Tables, CallsGood, GoodCall, ReviewDoc
<1>2. /\ c \in Call /\ c.at = "decide" /\ c.file = call[i].file /\ c.rows = {call[i].doc}
      /\ c.locked = reopens /\ c.reopens = reopens /\ c.verdict = call[i].verdict
  <2>1. reopens \in BOOLEAN
    OBVIOUS
  <2> HIDE DEF reopens
  <2> QED
    BY <1>1, <2>1 DEF Call, Stages
<1>3. To(i, c)
  BY DEF ReviewDoc
<1> HIDE DEF c
<1>4. GoodCall(c) /\ (c.locked => ProfileFree(i))
  BY <1>1, <1>2 DEF GoodCall, ReviewDoc
<1> QED
  BY <1>2, <1>3, <1>4, StepKeeps DEF ReviewDoc

LEMMA ReviewDecideKeeps ==
  ASSUME DocsInv, NEW i \in Calls, ReviewDecide(i)
  PROVE  DocsInv'
<1> DEFINE rows == JudgedAll(call[i].rows, call[i].verdict)
           done == Settled(rows)
           full == /\ call[i].verdict = "approved"
                   /\ profile \notin {"none", "approved"}
                   /\ Complete(rows)
           c == [call[i] EXCEPT !.at = "commit", !.locked = TRUE, !.settled = done,
                                !.approves = full]
<1>1. GoodCall(call[i]) /\ call[i] \in Call /\ call[i].at = "decide"
  BY DEF DocsInv, CallsGood, GoodCall, ReviewDecide
<1>2. done \in BOOLEAN /\ full \in BOOLEAN
  BY DEF Settled
<1>3. /\ c \in Call /\ c.at = "commit" /\ c.locked /\ c.file = call[i].file
      /\ c.rows = call[i].rows /\ c.verdict = call[i].verdict /\ c.reopens = call[i].reopens
      /\ c.settled = done /\ c.approves = full
  <2> HIDE DEF done, full
  <2> QED
    BY <1>1, <1>2 DEF Call, Stages
<1>4. To(i, c) /\ ProfileFree(i)
  BY DEF ReviewDecide
<1> HIDE DEF c
<1>5. Promise(c)
  BY <1>3 DEF Promise, RowsOf
<1>6. GoodCall(c)
  BY <1>1, <1>3, <1>5 DEF GoodCall
<1> QED
  BY <1>3, <1>4, <1>6, StepKeeps DEF ReviewDecide

LEMMA BatchKeeps ==
  ASSUME DocsInv, NEW i \in Calls, ApproveAllLock(i) \/ RejectBatchLock(i)
  PROVE  DocsInv'
<1>1. call[i] \in Call /\ Current(docs) \subseteq Used /\ Used \subseteq Ids
  BY DEF DocsInv, Tables, CallsGood, GoodCall, Current
<1>2. CASE ApproveAllLock(i) /\ ~End(i)
  <2> DEFINE c == [call[i] EXCEPT !.at = "allcommit", !.rows = Current(docs)]
  <2>1. /\ GoodCall(c) /\ c.at = "allcommit" /\ c.locked = call[i].locked
        /\ c.file = call[i].file
    BY <1>1 DEF GoodCall, Call, Stages
  <2>2. To(i, c)
    BY <1>2 DEF ApproveAllLock
  <2> HIDE DEF c
  <2> QED
    BY <1>2, <2>1, <2>2, StepKeeps DEF ApproveAllLock
<1>3. CASE ApproveAllLock(i) /\ End(i)
  BY <1>3, EndKeeps, TablesFrame, DocsAlike DEF ApproveAllLock, DocsInv
<1>4. CASE RejectBatchLock(i)
  <2>1. PICK D \in SUBSET Current(docs) : To(i, [Idle EXCEPT !.at = "batch", !.rows = D])
    BY <1>4 DEF RejectBatchLock
  <2> DEFINE c == [Idle EXCEPT !.at = "batch", !.rows = D]
  <2>2. GoodCall(c) /\ c.at = "batch" /\ ~c.locked /\ c.file = None
    <3>1. D \in SUBSET Ids /\ D \in SUBSET Used
      BY <1>1
    <3>2. c \in Call /\ c.rows = D
      BY <3>1, IdleCall DEF Call, Stages, Idle
    <3> QED
      BY <3>1, <3>2 DEF GoodCall, Idle
  <2> HIDE DEF c
  <2> QED
    BY <1>4, <2>1, <2>2, StepKeeps DEF RejectBatchLock, c
<1> QED
  BY <1>2, <1>3, <1>4

-----------------------------------------------------------------------------
(* Files come under names nothing else has.                                  *)
LEMMA FreshNew ==
  ASSUME NEW f \in Fresh
  PROVE  f \in Ids /\ f \notin Used /\ \A j \in Calls : call[j].file # f
  BY DEF Fresh, InUse

LEMMA SaveKeeps ==
  ASSUME DocsInv, NEW i \in Calls, UploadSave(i) \/ RegenerateSave(i)
  PROVE  DocsInv'
<1>1. call[i] \in Call /\ GoodCall(call[i])
  BY DEF DocsInv, CallsGood, GoodCall
<1>2. CASE UploadSave(i)
  <2>1. PICK f \in Fresh, p \in Ids \cup {None} :
            /\ files' = files \cup {f}
            /\ To(i, [call[i] EXCEPT !.at = "store", !.file = f, !.doc = p])
    BY <1>2 DEF UploadSave
  <2> DEFINE c == [call[i] EXCEPT !.at = "store", !.file = f, !.doc = p]
  <2>2. /\ c \in Call /\ c.at = "store" /\ c.file = f /\ c.rows = call[i].rows
        /\ c.locked = call[i].locked
    BY <1>1, FreshNew DEF Call, Stages
  <2>3. To(i, c)
    BY <2>1
  <2> HIDE DEF c
  <2>4. GoodCall(c) /\ \A j \in Calls \ {i} : call[j].file # c.file
    BY <1>1, <2>2, FreshNew DEF GoodCall
  <2>5. Tables'
    BY <1>2, <2>1, FreshNew DEF UploadSave, DocsInv, Tables, Used
  <2> QED
    BY <1>2, <2>2, <2>3, <2>4, <2>5, MoveKeeps, DocsAlike DEF UploadSave
<1>3. CASE RegenerateSave(i)
  <2>1. PICK f \in Fresh : /\ files' = files \cup {f}
                           /\ To(i, [call[i] EXCEPT !.at = "swap", !.file = f])
    BY <1>3 DEF RegenerateSave
  <2> DEFINE c == [call[i] EXCEPT !.at = "swap", !.file = f]
  <2>2. /\ c \in Call /\ c.at = "swap" /\ c.file = f /\ c.rows = call[i].rows
        /\ c.locked = call[i].locked
    BY <1>1, FreshNew DEF Call, Stages
  <2>3. To(i, c)
    BY <2>1
  <2> HIDE DEF c
  <2>4. GoodCall(c) /\ \A j \in Calls \ {i} : call[j].file # c.file
    BY <1>1, <2>2, FreshNew DEF GoodCall
  <2>5. Tables'
    BY <1>3, <2>1, FreshNew DEF RegenerateSave, DocsInv, Tables, Used
  <2> QED
    BY <1>3, <2>2, <2>3, <2>4, <2>5, MoveKeeps, DocsAlike DEF RegenerateSave
<1> QED
  BY <1>2, <1>3

(* Listed rows and files are names.                                          *)
LEMMA ListedType ==
  ASSUME Tables, NEW D \in SUBSET Used
  PROVE  Listed(D) \in SUBSET (Ids \X Ids)
<1>1. \A d \in D : d \in Ids /\ docs[d].file \in Ids
  BY DEF Tables, Row
<1> QED
  BY <1>1 DEF Listed

LEMMA ListKeeps ==
  ASSUME DocsInv, NEW i \in Calls, SweepList(i) \/ ScrubList(i) \/ RegenerateRead(i)
  PROVE  DocsInv'
<1>1. call[i] \in Call /\ GoodCall(call[i]) /\ Tables
  BY DEF DocsInv, CallsGood, GoodCall
<1>2. CASE SweepList(i)
  <2> DEFINE c == [Idle EXCEPT !.at = "purge", !.todo = Listed(Due)]
  <2>1. Listed(Due) \in SUBSET (Ids \X Ids)
    BY <1>1, ListedType DEF Due
  <2>2. c \in Call /\ c.at = "purge" /\ c.file = None /\ c.rows = {} /\ ~c.locked
    BY <2>1, IdleCall DEF Call, Stages, Idle
  <2>3. To(i, c)
    BY <1>2 DEF SweepList
  <2> HIDE DEF c
  <2> QED
    BY <1>2, <2>2, <2>3, StepKeeps DEF SweepList, GoodCall
<1>3. CASE ScrubList(i)
  <2> DEFINE c == [call[i] EXCEPT !.at = "purge", !.todo = Listed(Used), !.scrubs = TRUE]
  <2>1. Listed(Used) \in SUBSET (Ids \X Ids)
    BY <1>1, ListedType
  <2>2. /\ c \in Call /\ c.at = "purge" /\ c.file = call[i].file /\ c.rows = call[i].rows
        /\ c.locked = call[i].locked
    BY <1>1, <2>1 DEF Call, Stages
  <2>3. To(i, c)
    BY <1>3 DEF ScrubList
  <2> HIDE DEF c
  <2> QED
    BY <1>1, <1>3, <2>2, <2>3, StepKeeps DEF ScrubList, GoodCall
<1>4. CASE RegenerateRead(i)
  <2>1. PICK d \in Current(docs) :
          To(i, [Idle EXCEPT !.at = "regen", !.doc = d, !.todo = {<<d, docs[d].file>>}])
    BY <1>4 DEF RegenerateRead
  <2> DEFINE c == [Idle EXCEPT !.at = "regen", !.doc = d, !.todo = {<<d, docs[d].file>>}]
  <2>2. d \in Ids /\ docs[d].file \in Ids
    BY <1>1 DEF Tables, Row, Current
  <2>3. c \in Call /\ c.at = "regen" /\ c.file = None /\ c.rows = {} /\ ~c.locked
    <3>1. {<<d, docs[d].file>>} \in SUBSET (Ids \X Ids)
      BY <2>2
    <3>2. Idle \in Call
      BY IdleCall
    <3> HIDE DEF Idle
    <3>3. c \in Call /\ c.at = "regen" /\ c.file = Idle.file /\ c.rows = Idle.rows
          /\ c.locked = Idle.locked
      BY <2>2, <3>1, <3>2 DEF Call, Stages
    <3> QED
      BY <3>3, IdleCall
  <2>4. To(i, c)
    BY <2>1
  <2> HIDE DEF c
  <2> QED
    BY <1>4, <2>3, <2>4, StepKeeps DEF RegenerateRead, GoodCall
<1> QED
  BY <1>2, <1>3, <1>4

-----------------------------------------------------------------------------
(* Purges, redrawn forms and erasures change no verdict.                     *)
LEMMA RowChangeAlike ==
  ASSUME Tables, NEW d, NEW r \in Row,
         d \in Used => /\ r.kind = docs[d].kind /\ r.current = docs[d].current
                       /\ r.status = docs[d].status,
         docs' = [docs EXCEPT ![d] = r]
  PROVE  Alike(docs, docs') /\ Used' = Used /\ docs' \in [Used' -> Row]
  BY DEF Tables, Alike, Used

LEMMA PurgeKeeps ==
  ASSUME DocsInv, NEW i \in Calls,
         \/ PurgeFile(i) \/ PurgeMark(i) \/ RegenerateSwap(i)
  PROVE  DocsInv'
<1>1. call[i] \in Call /\ GoodCall(call[i]) /\ Tables
  BY DEF DocsInv, CallsGood, GoodCall
<1>2. CASE PurgeFile(i)
  <2>1. PICK t \in call[i].todo :
            /\ files' = files \ {t[2]}
            /\ To(i, [call[i] EXCEPT !.at = "mark", !.doc = t[1], !.todo = @ \ {t}])
    BY <1>2 DEF PurgeFile
  <2> DEFINE c == [call[i] EXCEPT !.at = "mark", !.doc = t[1], !.todo = @ \ {t}]
  <2>2. t[1] \in Ids /\ call[i].todo \ {t} \in SUBSET (Ids \X Ids)
    BY <1>1 DEF Call
  <2>3. /\ c \in Call /\ c.at = "mark" /\ c.file = call[i].file /\ c.rows = call[i].rows
        /\ c.locked = call[i].locked
    BY <1>1, <2>2 DEF Call, Stages
  <2>4. To(i, c) /\ GoodCall(c)
    BY <1>1, <2>1, <2>3 DEF GoodCall
  <2>5. Tables'
    BY <1>1, <1>2, <2>1 DEF PurgeFile, Tables, Used
  <2> HIDE DEF c
  <2> QED
    BY <1>2, <2>3, <2>4, <2>5, MoveKeeps, DocsAlike DEF PurgeFile
<1>3. CASE PurgeMark(i) \/ RegenerateSwap(i)
  <2> DEFINE d == call[i].doc
             r == IF PurgeMark(i) THEN [docs[d] EXCEPT !.gone = TRUE]
                                  ELSE [docs[d] EXCEPT !.file = call[i].file]
  <2>1. ASSUME d \notin Used
        PROVE  Alike(docs, docs') /\ Tables'
    <3>1. docs' = docs
      BY <1>1, <1>3, <2>1 DEF PurgeMark, RegenerateSwap, Tables
    <3>2. Alike(docs, docs') /\ Tables'
      BY <1>1, <1>3, <3>1 DEF PurgeMark, RegenerateSwap, Tables, Used, Alike
    <3> QED
      BY <3>2
  <2>2. ASSUME d \in Used
        PROVE  Alike(docs, docs') /\ Tables'
    <3>1. docs[d] \in Row
      BY <1>1, <2>2 DEF Tables
    <3>2. RegenerateSwap(i) => call[i].file \in Ids
      BY <1>1 DEF GoodCall, RegenerateSwap
    <3>3. /\ r \in Row /\ r.kind = docs[d].kind /\ r.current = docs[d].current
          /\ r.status = docs[d].status
      BY <1>3, <3>1, <3>2 DEF Row
    <3>4. docs' = [docs EXCEPT ![d] = r]
      BY <1>3 DEF PurgeMark, RegenerateSwap
    <3> HIDE DEF r, d
    <3>5. Alike(docs, docs') /\ Used' = Used /\ docs' \in [Used' -> Row]
      BY <1>1, <3>3, <3>4, RowChangeAlike
    <3> QED
      BY <1>1, <1>3, <3>5 DEF PurgeMark, RegenerateSwap, Tables
  <2>3. Alike(docs, docs') /\ Tables'
    BY <2>1, <2>2
  <2>4. \E st \in {"purge", "drop"} : To(i, [call[i] EXCEPT !.at = st])
    BY <1>3 DEF PurgeMark, RegenerateSwap, Step
  <2>5. PICK st \in {"purge", "drop"} : To(i, [call[i] EXCEPT !.at = st])
    BY <2>4
  <2> DEFINE c == [call[i] EXCEPT !.at = st]
  <2>6. /\ c \in Call /\ c.at = st /\ c.file = call[i].file /\ c.rows = call[i].rows
        /\ c.locked = call[i].locked
    BY <1>1 DEF Call, Stages
  <2>7. To(i, c) /\ GoodCall(c)
    BY <1>1, <2>5, <2>6 DEF GoodCall
  <2> HIDE DEF c, r, d
  <2> QED
    BY <1>3, <2>3, <2>6, <2>7, MoveKeeps DEF PurgeMark, RegenerateSwap
<1> QED
  BY <1>2, <1>3

LEMMA StillKeeps ==
  ASSUME DocsInv, Tables', Alike(docs, docs'), UNCHANGED <<profile, told, taken, call>>
  PROVE  DocsInv'
<1>1. \A x : GoodCall(x) => GoodCall(x)'
  BY GoodFrame DEF DocsInv
<1>2. CallsGood' /\ Apart'
  <2>1. \A i \in Calls : GoodCall(call[i]) /\ call'[i] = call[i]
    BY DEF DocsInv, CallsGood
  <2>2. \A i \in Calls : GoodCall(call[i])'
    BY <1>1, <2>1
  <2> QED
    BY <2>2 DEF DocsInv, CallsGood, Apart
<1>3. OneCurrent'
  <2>1. Current(docs') = Current(docs)
    BY AlikeSame
  <2> QED
    BY <2>1 DEF DocsInv, OneCurrent, Alike, Current
<1>4. LastToldAll'
  BY AlikeSame DEF DocsInv, LastToldAll, Settled
<1> QED
  BY <1>2, <1>3, <1>4 DEF DocsInv, QuotaHeld

LEMMA ExpireKeeps ==
  ASSUME DocsInv, Expire
  PROVE  DocsInv'
<1>1. PICK d \in Used : docs' = [docs EXCEPT ![d].clock = "due"]
  BY DEF Expire
<1> DEFINE r == [docs[d] EXCEPT !.clock = "due"]
<1>2. docs[d] \in Row
  BY DEF DocsInv, Tables
<1>3. /\ r \in Row /\ r.kind = docs[d].kind /\ r.current = docs[d].current
      /\ r.status = docs[d].status
  BY <1>2 DEF Row, Clocks
<1>4. docs' = [docs EXCEPT ![d] = r]
  BY <1>1
<1> HIDE DEF r
<1>5. Alike(docs, docs') /\ Used' = Used /\ docs' \in [Used' -> Row]
  BY <1>3, <1>4, RowChangeAlike DEF DocsInv
<1> QED
  BY <1>5, StillKeeps DEF Expire, DocsInv, Tables

LEMMA RequestKeeps ==
  ASSUME DocsInv, RequestDeletion
  PROVE  DocsInv'
<1>1. [status |-> "pending", scrubbed |-> FALSE, owed |-> {}] \in
        [status : {"none", "pending", "approved", "rejected"}, scrubbed : BOOLEAN, owed : SUBSET Ids]
  OBVIOUS
<1>2. Tables'
  BY <1>1 DEF RequestDeletion, DocsInv, Tables, Used
<1> QED
  BY <1>2, StillKeeps, DocsAlike DEF RequestDeletion

LEMMA FaultType ==
  ASSUME Tables, Fault
  PROVE  faults' \in 0..MaxFaults
  BY DocumentsAssumption DEF Tables, Fault

LEMMA EndsKeep ==
  ASSUME DocsInv, NEW i \in Calls,
         \/ PurgeFails(i) \/ PurgeEnd(i) \/ DeletionRefuse(i) \/ DeletionApprove(i)
         \/ Crash(i) \/ RegenerateDrop(i)
  PROVE  DocsInv'
<1>1. call[i] \in Call /\ GoodCall(call[i]) /\ Tables
  BY DEF DocsInv, CallsGood, GoodCall
<1> DEFINE Requests == [status : {"none", "pending", "approved", "rejected"}, scrubbed : BOOLEAN,
                        owed : SUBSET Ids]
<1>2. request \in Requests /\ Used \subseteq Ids
  BY <1>1 DEF Tables
<1>3. /\ \A b \in BOOLEAN : [request EXCEPT !.scrubbed = b] \in Requests
      /\ [request EXCEPT !.status = "rejected"] \in Requests
      /\ [request EXCEPT !.status = "approved", !.owed = Used] \in Requests
  BY <1>2
<1>4. Tables'
  <2>1. CASE PurgeFails(i) \/ Crash(i)
    BY <1>1, <2>1, FaultType DEF PurgeFails, Crash, Tables, Used
  <2>2. CASE RegenerateDrop(i)
    BY <1>1, <2>2 DEF RegenerateDrop, Tables, Used
  <2>3. CASE PurgeEnd(i) \/ DeletionRefuse(i) \/ DeletionApprove(i)
    <3>1. request' \in Requests /\ erased' \in BOOLEAN
      BY <1>1, <1>2, <1>3, <2>3 DEF PurgeEnd, DeletionRefuse, DeletionApprove, Tables
    <3> QED
      BY <1>1, <2>3, <3>1 DEF PurgeEnd, DeletionRefuse, DeletionApprove, Tables, Used
  <2> QED
    BY <2>1, <2>2, <2>3
<1>5. Alike(docs, docs') /\ UNCHANGED <<profile, told, taken>>
  BY DocsAlike DEF PurgeFails, PurgeEnd, DeletionRefuse, DeletionApprove, Crash, RegenerateDrop
<1>6. CASE End(i)
  BY <1>4, <1>5, <1>6, EndKeeps
<1>7. CASE PurgeFails(i) /\ \E t \in call[i].todo : To(i, [call[i] EXCEPT !.todo = @ \ {t}])
  <2>1. PICK t \in call[i].todo : To(i, [call[i] EXCEPT !.todo = @ \ {t}])
    BY <1>7
  <2> DEFINE c == [call[i] EXCEPT !.todo = @ \ {t}]
  <2>2. /\ c \in Call /\ c.at = call[i].at /\ c.file = call[i].file /\ c.rows = call[i].rows
        /\ c.locked = call[i].locked /\ c.at = "purge"
    BY <1>1, <1>7, <2>1 DEF Call, PurgeFails
  <2>3. To(i, c) /\ GoodCall(c)
    BY <1>1, <2>1, <2>2 DEF GoodCall
  <2> HIDE DEF c
  <2> QED
    BY <1>4, <1>5, <2>2, <2>3, MoveKeeps
<1>8. CASE DeletionApprove(i)
  <2> DEFINE c == [call[i] EXCEPT !.at = "scrub"]
  <2>1. /\ c \in Call /\ c.at = "scrub" /\ c.file = call[i].file /\ c.rows = call[i].rows
        /\ c.locked = call[i].locked
    BY <1>1 DEF Call, Stages
  <2>2. To(i, c) /\ GoodCall(c)
    BY <1>1, <1>8, <2>1 DEF GoodCall, DeletionApprove, Step
  <2> HIDE DEF c
  <2> QED
    BY <1>4, <1>5, <2>1, <2>2, MoveKeeps
<1> QED
  BY <1>6, <1>7, <1>8 DEF PurgeFails, PurgeEnd, DeletionRefuse, Crash, RegenerateDrop

-----------------------------------------------------------------------------
(* A step that ends a call; the others are still good after it.              *)
LEMMA LastKeeps ==
  ASSUME DocsInv, Tables', NEW i \in Calls, End(i), OneCurrent', LastToldAll', QuotaHeld',
         \A j \in Calls \ {i} : \A c : c = call[j] => GoodCall(c)'
  PROVE  DocsInv'
<1>1. /\ call' \in [Calls -> Call]
      /\ call'[i] = Idle
      /\ \A j \in Calls \ {i} : call'[j] = call[j]
  BY IdleCall DEF DocsInv, CallsGood, End, To
<1>2. ASSUME NEW j \in Calls PROVE GoodCall(call[j])'
  <2>1. CASE j = i
    BY <1>1, <2>1, IdleCall DEF GoodCall
  <2>2. CASE j # i
    <3>1. \A c : c = call[j] => GoodCall(c)'
      BY <2>2
    <3> QED
      BY <1>1, <2>2, <3>1
  <2> QED
    BY <2>1, <2>2
<1>3. CallsGood'
  BY <1>1, <1>2 DEF CallsGood
<1>4. Apart'
  <2> SUFFICES ASSUME NEW j \in Calls, NEW k \in Calls \ {j}
               PROVE  /\ ~(call'[j].locked /\ call'[k].locked)
                      /\ ~(call'[j].at = "take" /\ call'[k].at = "take")
                      /\ call'[j].at = "store" => call'[k].file # call'[j].file
    BY DEF Apart
  <2>1. j # i => (call[j].at = "store" => call[j].file \in Ids)
    BY DEF DocsInv, CallsGood, GoodCall
  <2> QED
    BY <1>1, <2>1, IdleCall, DocumentsAssumption DEF Apart, DocsInv
<1> QED
  BY <1>3, <1>4 DEF DocsInv

(* Whoever holds the profile's row, no other call is at its commit.          *)
LEMMA OthersUnlocked ==
  ASSUME DocsInv, NEW i \in Calls, call[i].locked \/ ProfileFree(i)
  PROVE  \A j \in Calls \ {i} : call[j].at # "commit"
  BY DEF DocsInv, Apart, ProfileFree, CallsGood, GoodCall

LEMMA ProfileKeeps ==
  ASSUME DocsInv, NEW i \in Calls, SubmitWrite(i) \/ ReviewProfileWrite(i)
  PROVE  DocsInv'
<1>1. call[i] \in Call /\ Tables
  BY DEF DocsInv, CallsGood, GoodCall
<1>2. Tables'
  BY <1>1 DEF SubmitWrite, ReviewProfileWrite, Tables, Used, Call, Profiles
<1>3. ASSUME NEW j \in Calls \ {i}, NEW c, c = call[j] PROVE GoodCall(c)'
  <2>1. GoodCall(c) /\ c.at # "commit"
    BY <1>3, OthersUnlocked DEF DocsInv, CallsGood, SubmitWrite, ReviewProfileWrite
  <2> QED
    BY <2>1 DEF GoodCall, Used, SubmitWrite, ReviewProfileWrite
<1>4. OneCurrent' /\ LastToldAll' /\ QuotaHeld' /\ End(i)
  BY DEF DocsInv, OneCurrent, LastToldAll, QuotaHeld, Current, Settled, SubmitWrite,
         ReviewProfileWrite
<1> QED
  BY <1>2, <1>3, <1>4, LastKeeps

LEMMA DownloadKeeps ==
  ASSUME DocsInv, NEW i \in Calls, DownloadCount(i) \/ DownloadTake(i)
  PROVE  DocsInv'
<1>1. call[i] \in Call /\ GoodCall(call[i]) /\ Tables
  BY DEF DocsInv, CallsGood, GoodCall
<1>2. CASE DownloadCount(i) /\ End(i)
  BY <1>1, <1>2, EndKeeps, TablesFrame, DocsAlike DEF DownloadCount
<1>3. CASE DownloadCount(i) /\ ~End(i)
  <2> DEFINE c == [call[i] EXCEPT !.at = "take", !.seen = taken]
  <2>1. /\ c \in Call /\ c.at = "take" /\ c.file = call[i].file /\ c.rows = call[i].rows
        /\ c.locked = call[i].locked
    BY <1>1 DEF Call, Stages, Tables
  <2>2. To(i, c) /\ taken < Quota
    BY <1>3 DEF DownloadCount
  <2> HIDE DEF c
  <2>3. GoodCall(c)
    BY <1>1, <2>1, <2>2 DEF GoodCall
  <2> QED
    BY <1>3, <2>1, <2>2, <2>3, StepKeeps DEF DownloadCount
<1>4. CASE DownloadTake(i)
  <2>1. Tables'
    BY <1>1, <1>4 DEF DownloadTake, Tables, Used
  <2>2. QuotaHeld'
    BY <1>1, <1>4, DocumentsAssumption DEF DownloadTake, GoodCall, QuotaHeld, Tables
  <2>3. ASSUME NEW j \in Calls \ {i}, NEW c, c = call[j] PROVE GoodCall(c)'
    <3>1. GoodCall(c) /\ c.at # "take"
      BY <1>4, <2>3 DEF DocsInv, CallsGood, Apart, DownloadTake
    <3>2. Promise(c) => Promise(c)'
      BY <1>4 DEF Promise, RowsOf, JudgedAll, Used, Complete, Settled, Current, DownloadTake
    <3> QED
      BY <1>4, <3>1, <3>2 DEF GoodCall, Used, DownloadTake
  <2>4. OneCurrent' /\ LastToldAll' /\ End(i)
    BY <1>4 DEF DocsInv, OneCurrent, LastToldAll, Current, Settled, DownloadTake
  <2> QED
    BY <2>1, <2>2, <2>3, <2>4, LastKeeps
<1> QED
  BY <1>2, <1>3, <1>4

-----------------------------------------------------------------------------
(* A verdict commits: while the profile's row is its own, or free.           *)
LEMMA JudgeKeeps ==
  ASSUME DocsInv, NEW i \in Calls, NEW D \in SUBSET Used, NEW v \in Verdicts,
         call[i].locked \/ ProfileFree(i), End(i),
         docs' = JudgedAll(D, v), profile' \in Profiles, told' \in BOOLEAN,
         Settled(JudgedAll(D, v)) => told',
         UNCHANGED <<files, taken, request, erased, ops, faults>>
  PROVE  DocsInv'
<1>1. Tables /\ docs' \in [Used -> Row] /\ Used' = Used
  BY JudgedType DEF DocsInv, Used
<1>2. Tables'
  BY <1>1 DEF Tables
<1>3. OneCurrent'
  <2>1. /\ Current(docs') = Current(docs)
        /\ \A d \in Used : docs'[d].kind = docs[d].kind
        /\ \A d \in Current(docs) : d \in Used
    BY <1>1, JudgedCurrent, JudgedType DEF Current, Used
  <2>2. \A d, e \in Current(docs) : docs[d].kind = docs[e].kind => d = e
    BY DEF DocsInv, OneCurrent
  <2>3. Current(docs)' = Current(docs')
    BY DEF Current
  <2> QED
    BY <2>1, <2>2, <2>3 DEF OneCurrent
<1>4. LastToldAll' /\ QuotaHeld'
  BY DEF LastToldAll, DocsInv, QuotaHeld, Settled, Current
<1>5. ASSUME NEW j \in Calls \ {i}, NEW c, c = call[j] PROVE GoodCall(c)'
  <2>1. GoodCall(c) /\ c.at # "commit"
    BY <1>5, OthersUnlocked DEF DocsInv, CallsGood
  <2> QED
    BY <1>1, <2>1 DEF GoodCall
<1> QED
  BY <1>2, <1>3, <1>4, <1>5, LastKeeps

LEMMA VerdictKeeps ==
  ASSUME DocsInv, NEW i \in Calls,
         ReviewCommit(i) \/ ApproveAllCommit(i) \/ RejectBatchCommit(i)
  PROVE  DocsInv'
<1>1. call[i] \in Call /\ GoodCall(call[i]) /\ Tables
  BY DEF DocsInv, CallsGood, GoodCall
<1>2. CASE ReviewCommit(i)
  <2> DEFINE rows == JudgedAll(call[i].rows, call[i].verdict)
  <2>1. /\ call[i].rows \in SUBSET Used /\ call[i].verdict \in Verdicts
        /\ call[i].settled \in BOOLEAN /\ call[i].locked
        /\ Settled(rows) => call[i].settled
    BY <1>1, <1>2 DEF GoodCall, Call, Promise, RowsOf, ReviewCommit
  <2>2. /\ docs' = rows /\ told' = call[i].settled /\ End(i) /\ profile' \in Profiles
        /\ UNCHANGED <<files, taken, request, erased, ops, faults>>
    BY <1>1, <1>2 DEF ReviewCommit, Tables, Profiles, Verdicts
  <2> QED
    BY <2>1, <2>2, JudgeKeeps
<1>3. CASE ApproveAllCommit(i) \/ RejectBatchCommit(i)
  <2>1. PICK v \in Verdicts :
          /\ docs' = JudgedAll(call[i].rows, v) /\ told' = Settled(JudgedAll(call[i].rows, v))
          /\ ProfileFree(i) /\ End(i) /\ profile' \in Profiles
          /\ UNCHANGED <<files, taken, request, erased, ops, faults>>
    BY <1>3 DEF ApproveAllCommit, RejectBatchCommit, Profiles, Verdicts
  <2>2. call[i].rows \in SUBSET Used /\ told' \in BOOLEAN
    BY <1>1, <2>1 DEF GoodCall, Settled
  <2> QED
    BY <2>1, <2>2, JudgeKeeps
<1> QED
  BY <1>2, <1>3

-----------------------------------------------------------------------------
(* An upload commits: its row is current and not judged, so no set that      *)
(* holds it is complete or settled.                                          *)
LEMMA UploadRow ==
  ASSUME DocsInv, NEW i \in Calls, UploadCommit(i), OnlyCurrent(call[i])
  PROVE  /\ call[i].file \in Ids /\ call[i].file \notin Used
         /\ Used' = Used \cup {call[i].file} /\ docs' \in [Used' -> Row]
         /\ docs'[call[i].file].kind = call[i].kind
         /\ docs'[call[i].file].status = "submitted"
         /\ Current(docs') = {call[i].file} \cup (Current(docs) \ {call[i].doc})
         /\ \A d \in Used : docs'[d].kind = docs[d].kind
         /\ \A d \in Current(docs) \ {call[i].doc} : docs[d].kind # call[i].kind
<1> DEFINE c == call[i]
           row  == [kind |-> c.kind, status |-> "submitted", current |-> TRUE,
                    file |-> c.file, clock |-> "off", gone |-> FALSE]
<1>1. c \in Call /\ c.file \in Ids /\ c.file \notin Used /\ Tables
  BY DEF DocsInv, CallsGood, GoodCall, UploadCommit
<1>2. docs' = [d \in Used \cup {c.file} |->
                 IF d = c.file THEN row ELSE [docs[d] EXCEPT !.current = @ /\ d # c.doc]]
  BY DEF UploadCommit
<1>3. row \in Row /\ row.kind = c.kind /\ row.status = "submitted" /\ row.current
  BY <1>1 DEF Row, Call, Clocks
<1>4. Used' = Used \cup {c.file} /\ docs'[c.file] = row
  <2>1. Used' = Used \cup {c.file}
    BY <1>2 DEF Used
  <2>2. c.file \in Used \cup {c.file}
    OBVIOUS
  <2> HIDE DEF row, c
  <2>3. docs'[c.file] = row
    BY <1>2, <2>2
  <2> QED
    BY <2>1, <2>3
<1> HIDE DEF row
<1>5. \A d \in Used : docs[d] \in Row
  BY <1>1 DEF Tables
<1>6. ASSUME NEW d \in Used
      PROVE  /\ docs'[d] \in Row /\ docs'[d].kind = docs[d].kind
             /\ docs'[d].current <=> (docs[d].current /\ d # c.doc)
  <2>1. docs'[d] = [docs[d] EXCEPT !.current = @ /\ d # c.doc]
    BY <1>1, <1>2
  <2> QED
    BY <1>5, <2>1 DEF Row
<1>7. docs' \in [Used' -> Row]
  BY <1>2, <1>3, <1>4, <1>6 DEF Used
<1>8. Current(docs') = {c.file} \cup (Current(docs) \ {c.doc})
  BY <1>1, <1>3, <1>4, <1>6 DEF Current, Used
<1>9. \A d \in Current(docs) \ {c.doc} : docs[d].kind # c.kind
  BY DEF OnlyCurrent
<1> QED
  BY <1>1, <1>3, <1>4, <1>6, <1>7, <1>8, <1>9

LEMMA UploadUnjudged ==
  ASSUME DocsInv, NEW i \in Calls, UploadCommit(i), OnlyCurrent(call[i]), Tables',
         NEW D \in SUBSET Used, NEW v \in Verdicts
  PROVE  /\ ~Complete(JudgedAll(D, v)') /\ ~Settled(JudgedAll(D, v)')
         /\ ~Complete(docs') /\ ~Settled(docs')
<1> DEFINE f == call[i].file
<1>1. /\ f \in Used' /\ f \notin D /\ docs'[f].kind = call[i].kind
      /\ docs'[f].status = "submitted" /\ f \in Current(docs') /\ call[i].kind \in Kinds
      /\ \A d \in Current(docs') \ {f} : docs'[d].kind # call[i].kind
  BY UploadRow DEF Current, DocsInv, CallsGood, Call
<1>2. \A d \in Used' : /\ JudgedAll(D, v)'[d].kind = docs'[d].kind
                       /\ JudgedAll(D, v)'[d].current = docs'[d].current
                       /\ d \notin D => JudgedAll(D, v)'[d] = docs'[d]
  BY JudgedRow DEF JudgedAll, Tables, Used
<1>3. DOMAIN JudgedAll(D, v)' = Used'
  BY DEF JudgedAll
<1>4. Current(JudgedAll(D, v)') = Current(docs')
  BY <1>2, <1>3 DEF Current, Used
<1>5. \A d \in Current(docs') : d \in Used'
  BY DEF Current, Used
<1> HIDE DEF f
<1>6. ~Complete(docs') /\ ~Settled(docs')
  BY <1>1 DEF Complete, Settled
<1>7. ~Complete(JudgedAll(D, v)') /\ ~Settled(JudgedAll(D, v)')
  BY <1>1, <1>2, <1>4, <1>5 DEF Complete, Settled
<1> QED
  BY <1>6, <1>7

LEMMA UploadKeeps ==
  ASSUME DocsInv, NEW i \in Calls, UploadCommit(i)
  PROVE  DocsInv'
<1>1. CASE ~OnlyCurrent(call[i])
  <2>1. Tables'
    BY <1>1 DEF UploadCommit, DocsInv, Tables, Used
  <2> QED
    BY <1>1, <2>1, EndKeeps, DocsAlike DEF UploadCommit
<1>2. CASE OnlyCurrent(call[i])
  <2>1. Tables'
    BY <1>2, UploadRow DEF UploadCommit, DocsInv, Tables
  <2>2. OneCurrent'
    BY <1>2, UploadRow DEF OneCurrent, DocsInv, Current
  <2>3. {} \in SUBSET Used /\ "approved" \in Verdicts
    BY DEF Verdicts
  <2>4. ~Settled(docs')
    BY <1>2, <2>1, <2>3, UploadUnjudged
  <2>5. LastToldAll' /\ QuotaHeld' /\ End(i)
    BY <2>4 DEF LastToldAll, DocsInv, QuotaHeld, UploadCommit, Settled, Current
  <2>6. ASSUME NEW j \in Calls \ {i}, NEW c, c = call[j] PROVE GoodCall(c)'
    <3>1. GoodCall(c) /\ c \in Call /\ (call[i].at = "store" => c.file # call[i].file)
      BY <2>6 DEF DocsInv, CallsGood, Apart, GoodCall
    <3>2. c.rows \in SUBSET Used /\ c.verdict \in Verdicts
      BY <3>1 DEF GoodCall, Call
    <3>3. ~Complete(JudgedAll(c.rows, c.verdict)') /\ ~Settled(JudgedAll(c.rows, c.verdict)')
      BY <1>2, <2>1, <3>2, UploadUnjudged
    <3>4. Promise(c)'
      BY <3>3 DEF Promise, RowsOf, Complete, Settled
    <3>5. Used' = Used \cup {call[i].file} /\ call[i].at = "store" /\ UNCHANGED taken
      BY <1>2, UploadRow DEF UploadCommit
    <3> QED
      BY <3>1, <3>4, <3>5 DEF GoodCall
  <2> QED
    BY <2>1, <2>2, <2>5, <2>6, LastKeeps
<1> QED
  BY <1>1, <1>2

-----------------------------------------------------------------------------
LEMMA InitKeeps == DocsInit => DocsInv
<1> SUFFICES ASSUME DocsInit PROVE DocsInv
  OBVIOUS
<1>1. PICK s \in Starts :
        /\ docs = s.docs /\ profile = s.profile
        /\ files = {s.docs[d].file : d \in DOMAIN s.docs}
  BY DEF DocsInit
<1>2. /\ Used \subseteq Ids /\ docs \in [Used -> Row] /\ profile \in Profiles
      /\ \A d, e \in {x \in Used : docs[x].current} : docs[d].kind = docs[e].kind => d = e
  BY <1>1, DocumentsAssumption DEF Used
<1>3. \A d \in Used : docs[d].file \in Ids
  BY <1>2 DEF Row
<1>4. files \subseteq Ids
  BY <1>1, <1>3 DEF Used
<1>5. request \in [status : {"none", "pending", "approved", "rejected"}, scrubbed : BOOLEAN,
                   owed : SUBSET Ids]
  BY DEF DocsInit
<1>6. Tables
  <2>1. told \in BOOLEAN /\ erased \in BOOLEAN
    BY DEF DocsInit, Settled
  <2>2. taken \in Nat /\ faults \in 0..MaxFaults /\ ops \in Workloads
    BY DocumentsAssumption DEF DocsInit
  <2> QED
    BY <1>2, <1>4, <1>5, <2>1, <2>2 DEF Tables
<1>7. CallsGood
  BY IdleCall, IdleGood DEF DocsInit, CallsGood
<1>8. Apart
  BY IdleCall DEF DocsInit, Apart
<1>9. OneCurrent
  BY <1>2 DEF OneCurrent, Current, Used
<1> QED
  BY <1>6, <1>7, <1>8, <1>9, DocumentsAssumption DEF DocsInv, DocsInit, LastToldAll, QuotaHeld

LEMMA StuttersKeep ==
  ASSUME DocsInv, UNCHANGED docVars
  PROVE  DocsInv'
  BY StillKeeps, TablesFrame, DocsAlike DEF DocsInv, docVars

LEMMA NextKeeps ==
  ASSUME DocsInv, [DocsNext]_docVars
  PROVE  DocsInv'
<1>1. CASE Expire
  BY <1>1, ExpireKeeps
<1>2. CASE RequestDeletion
  BY <1>2, RequestKeeps
<1>3. ASSUME NEW i \in Calls,
             \/ SubmitRead(i) \/ UploadCheck(i) \/ ApproveAllRead(i) \/ ReviewProfileRead(i)
             \/ DownloadBuild(i) \/ DeletionCheck(i) \/ ScrubResume(i)
      PROVE  DocsInv'
  BY <1>3, BeginKeeps
<1>4. ASSUME NEW i \in Calls,
             \/ ReviewCheck(i) \/ RejectBatchLock(i) \/ ApproveAllLock(i)
             \/ ReviewDoc(i) \/ ReviewDecide(i)
      PROVE  DocsInv'
  BY <1>4, ReviewCheckKeeps, BatchKeeps, ReviewDocKeeps, ReviewDecideKeeps
<1>5. ASSUME NEW i \in Calls,
             \/ ReviewCommit(i) \/ ApproveAllCommit(i) \/ RejectBatchCommit(i)
      PROVE  DocsInv'
  BY <1>5, VerdictKeeps
<1>6. ASSUME NEW i \in Calls, UploadSave(i) \/ RegenerateSave(i) \/ UploadCommit(i)
      PROVE  DocsInv'
  BY <1>6, SaveKeeps, UploadKeeps
<1>7. ASSUME NEW i \in Calls, SweepList(i) \/ ScrubList(i) \/ RegenerateRead(i)
      PROVE  DocsInv'
  BY <1>7, ListKeeps
<1>8. ASSUME NEW i \in Calls,
             \/ SubmitWrite(i) \/ ReviewProfileWrite(i) \/ DownloadCount(i) \/ DownloadTake(i)
             \/ PurgeFile(i) \/ PurgeMark(i) \/ RegenerateSwap(i)
      PROVE  DocsInv'
  BY <1>8, ProfileKeeps, DownloadKeeps, PurgeKeeps
<1>9. ASSUME NEW i \in Calls,
             \/ PurgeFails(i) \/ PurgeEnd(i) \/ DeletionRefuse(i) \/ DeletionApprove(i)
             \/ Crash(i) \/ RegenerateDrop(i)
      PROVE  DocsInv'
  BY <1>9, EndsKeep
<1> QED
  BY <1>1, <1>2, <1>3, <1>4, <1>5, <1>6, <1>7, <1>8, <1>9, StuttersKeep
  DEF DocsNext, InFlight, Scheduled

LEMMA Invariance == DocsSpec => []DocsInv
  BY InitKeeps, NextKeeps, PTL DEF DocsSpec

(* The tables keep their types, in every call and through every fault.       *)
THEOREM DocumentsTyped == DocsSpec => []DocsTypeOK
  BY Invariance, TypesFollow, PTL

(* However many officers click at once, no more than the quota of copies is  *)
(* taken: the count and the row are under one advisory lock                  *)
(* (RecordDocumentDownload).                                                 *)
THEOREM QuotaIsHeld == DocsSpec => []QuotaHeld
<1>1. DocsInv => QuotaHeld
  BY DEF DocsInv
<1> QED
  BY <1>1, Invariance, PTL

(* One current document a kind, whatever the uploads in flight (UploadDocument *)
(* and the index behind it).                                                 *)
THEOREM OneCurrentDocument == DocsSpec => []OneCurrent
<1>1. DocsInv => OneCurrent
  BY DEF DocsInv
<1> QED
  BY <1>1, Invariance, PTL

(* Whichever officer gives the last verdict, the TA is sent the verdicts      *)
(* (reviewSettledTx).                                                        *)
THEOREM VerdictsAreTold == DocsSpec => []VerdictsTold
<1>1. DocsInv => VerdictsTold
  BY DEF DocsInv, LastToldAll, VerdictsTold
<1> QED
  BY <1>1, Invariance, PTL

-----------------------------------------------------------------------------
(* The set becomes complete only by a verdict that approves the profile.     *)
LEMMA RejectedIncomplete ==
  ASSUME DocsInv, NEW D \in SUBSET Used, Complete(JudgedAll(D, "rejected"))
  PROVE  Complete(docs)
<1>1. "rejected" \in Verdicts /\ Tables
  BY DEF Verdicts, DocsInv
<1>2. PICK rows : rows = JudgedAll(D, "rejected")
  OBVIOUS
<1>3. /\ Current(rows) = Current(docs)
      /\ \A d \in Used : /\ d \in D => rows[d].status = "rejected"
                         /\ d \notin D => rows[d] = docs[d]
  BY <1>1, <1>2, JudgedType, JudgedCurrent
<1>4. \A d \in Current(docs) : d \in Used
  BY DEF Current, Used
<1>5. \A k \in Kinds : \E d \in Current(rows) :
          rows[d].kind = k /\ rows[d].status = "approved"
  BY <1>2 DEF Complete
<1> QED
  BY <1>3, <1>4, <1>5 DEF Complete

LEMMA VerdictCompletes ==
  ASSUME DocsInv, NEW i \in Calls,
         ReviewCommit(i) \/ ApproveAllCommit(i) \/ RejectBatchCommit(i),
         Complete(docs'), ~Complete(docs), profile # "none"
  PROVE  profile' = "approved"
<1>1. call[i] \in Call /\ GoodCall(call[i])
  BY DEF DocsInv, CallsGood, GoodCall
<1>2. call[i].rows \in SUBSET Used
  BY <1>1 DEF GoodCall
<1>3. CASE ReviewCommit(i)
  <2>1. Complete(JudgedAll(call[i].rows, call[i].verdict)) /\ Promise(call[i])
    BY <1>1, <1>3 DEF ReviewCommit, GoodCall
  <2>2. call[i].verdict = "approved"
    BY <1>1, <1>2, <2>1, RejectedIncomplete DEF Call, Verdicts
  <2>3. ~call[i].reopens
    BY <1>1, <1>3, <2>2 DEF GoodCall, ReviewCommit
  <2>4. call[i].approves \/ profile = "approved"
    BY <2>1, <2>2 DEF Promise, RowsOf
  <2> QED
    BY <1>3, <2>3, <2>4 DEF ReviewCommit
<1>4. CASE ApproveAllCommit(i)
  BY <1>4 DEF ApproveAllCommit
<1>5. CASE RejectBatchCommit(i)
  BY <1>2, <1>5, RejectedIncomplete DEF RejectBatchCommit
<1> QED
  BY <1>3, <1>4, <1>5

LEMMA FileStepAlike ==
  ASSUME Tables, NEW d, NEW f,
         \/ docs' = [docs EXCEPT ![d].clock = f]
         \/ docs' = [docs EXCEPT ![d].gone = f]
         \/ docs' = [docs EXCEPT ![d].file = f]
  PROVE  Alike(docs, docs')
<1>1. DOMAIN docs' = DOMAIN docs
  OBVIOUS
<1>2. ASSUME NEW e \in DOMAIN docs
      PROVE  /\ docs[e].kind = docs'[e].kind /\ docs[e].current = docs'[e].current
             /\ docs[e].status = docs'[e].status
  <2>1. docs[e] \in Row
    BY DEF Tables, Used
  <2>2. CASE e # d
    BY <2>2
  <2>3. CASE e = d
    <3>1. \/ docs'[e] = [docs[e] EXCEPT !.clock = f]
          \/ docs'[e] = [docs[e] EXCEPT !.gone = f]
          \/ docs'[e] = [docs[e] EXCEPT !.file = f]
      BY <2>3
    <3> QED
      BY <2>1, <3>1 DEF Row
  <2> QED
    BY <2>2, <2>3
<1> QED
  BY <1>1, <1>2 DEF Alike

LEMMA StepCompletes ==
  ASSUME DocsInv, [DocsNext]_docVars, Complete(docs'), ~Complete(docs), profile # "none"
  PROVE  profile' = "approved"
<1>1. \A i \in Calls : ReviewCommit(i) \/ ApproveAllCommit(i) \/ RejectBatchCommit(i)
                          => profile' = "approved"
  BY VerdictCompletes
<1>2. \A i \in Calls : ~UploadCommit(i)
  <2> SUFFICES ASSUME NEW i \in Calls, UploadCommit(i) PROVE FALSE
    OBVIOUS
  <2>1. CASE OnlyCurrent(call[i])
    <3>1. Tables' /\ {} \in SUBSET Used /\ "approved" \in Verdicts
      BY UploadKeeps DEF DocsInv, Verdicts
    <3> QED
      BY <2>1, <3>1, UploadUnjudged
  <2>2. CASE ~OnlyCurrent(call[i])
    BY <2>2 DEF UploadCommit
  <2> QED
    BY <2>1, <2>2
<1>3. ~Alike(docs, docs')
  BY AlikeSame
<1>4. docs' # docs
  BY <1>3, DocsAlike
<1>5. ~Expire /\ \A i \in Calls : ~PurgeMark(i) /\ ~RegenerateSwap(i)
  BY <1>3, FileStepAlike DEF Expire, PurgeMark, RegenerateSwap, DocsInv
<1> QED
  BY <1>1, <1>2, <1>4, <1>5
  DEF docVars, DocsNext, InFlight, Scheduled, RequestDeletion, SubmitRead, UploadCheck,
      ReviewCheck, ApproveAllRead, RejectBatchLock, ReviewProfileRead, DownloadBuild,
      RegenerateRead, DeletionCheck, SweepList, ScrubResume, SubmitWrite, UploadSave,
      ReviewDoc, ReviewDecide, ApproveAllLock, ReviewProfileWrite, DownloadCount,
      DownloadTake, PurgeFile, PurgeEnd, RegenerateSave, RegenerateDrop, DeletionRefuse,
      DeletionApprove, ScrubList, PurgeFails, Crash

(* Whoever gives the last approval, the profile is approved with it:         *)
(* finalizeProfileIfComplete counts the documents under the profile's lock,  *)
(* and ApproveAll approves both.                                             *)
THEOREM CompletedSetsApproved == DocsSpec => CompletedSetApproved
<1>1. DocsInv /\ [DocsNext]_docVars =>
        [ (Complete(docs') /\ ~Complete(docs) /\ profile # "none")
             => profile' = "approved" ]_docVars
  BY StepCompletes
<1> QED
  BY <1>1, Invariance, PTL DEF DocsSpec, CompletedSetApproved
-----------------------------------------------------------------------------
(* Files.  A row's file goes only with its retention or the account.         *)
Past(d)   == docs[d].gone \/ Expired(docs[d]) \/ erased
Stored(c) == c.at \in {"store", "swap"}

(* What a call may count on: a file it has stored and that no row has yet;   *)
(* the form it redraws; that what it purges is past its time; and that a     *)
(* file on its list was never another row's, and after the swap is no row's. *)
Holds(c) ==
    /\ Stored(c) => c.file \in files /\ \A d \in Used : docs[d].file # c.file
    /\ c.at \in {"regen", "swap"} => c.doc \in Used /\ \A t \in c.todo : t[1] = c.doc
    /\ c.at = "scrub" => erased
    /\ c.at \in {"purge", "mark"} => \A t \in c.todo : t[1] \in Used /\ Past(t[1])
    /\ c.at = "drop" => \A t \in c.todo : \A d \in Used : docs[d].file # t[2]
    /\ \A t \in c.todo : \A d \in Used : docs[d].file = t[2] => d = t[1]

OwnFiles == \A d, e \in Used : docs[d].file = docs[e].file => d = e

(* A file just stored is on no list and is no other call's.                  *)
FilesApart == \A i, j \in Calls : Stored(call[i]) =>
    /\ \A t \in call[j].todo : t[2] # call[i].file
    /\ Stored(call[j]) /\ i # j => call[j].file # call[i].file

(* An erasure is approved with the account closed.                           *)
ClosedFirst == request.status = "approved" => erased

FileInv == /\ FilesKept /\ OwnFiles /\ FilesApart /\ ClosedFirst
           /\ \A i \in Calls : Holds(call[i])

(* The rows keep their files, and what is past stays so.                     *)
Steady == /\ Used' = Used /\ (erased => erased')
          /\ \A d \in Used : /\ docs'[d].file = docs[d].file
                             /\ docs[d].gone => docs'[d].gone
                             /\ Expired(docs[d]) => Expired(docs'[d])

LEMMA SteadyPast ==
  ASSUME Steady, NEW d \in Used, Past(d)
  PROVE  Past(d)'
  BY DEF Steady, Past, Used, Expired

LEMMA SteadyDocs == UNCHANGED <<docs, erased>> => Steady
  BY DEF Steady, Used, Expired

(* No live row and no other call has the file.                               *)
Spare(i, f) == /\ \A d \in Used : docs[d].file = f => Past(d)
               /\ \A j \in Calls \ {i} : Stored(call[j]) => call[j].file # f

LEMMA OthersHold ==
  ASSUME NEW i \in Calls, Steady, NEW X, \A f \in X : Spare(i, f), files \ X \subseteq files',
         NEW c, Holds(c), \E j \in Calls \ {i} : c = call[j]
  PROVE  Holds(c)'
<1>1. Stored(c) => c.file \in files'
  BY DEF Holds, Spare
<1>2. \A d \in Used : Past(d) => Past(d)'
  BY SteadyPast
<1> QED
  BY <1>1, <1>2 DEF Holds, Steady, Stored, Used

(* Call i moves on; rows keep their files, and only spare files go.          *)
LEMMA FileStep ==
  ASSUME DocsInv, FileInv, Steady, ClosedFirst', NEW i \in Calls, NEW X, \A f \in X : Spare(i, f),
         files \ X \subseteq files', NEW c, To(i, c), Holds(c)',
         Stored(c) => \/ Stored(call[i]) /\ c.file = call[i].file
                      \/ \A j \in Calls : /\ \A t \in call[j].todo : t[2] # c.file
                                          /\ call[j].file # c.file,
         \A t \in c.todo : \/ t \in call[i].todo
                           \/ \A j \in Calls : Stored(call[j]) => call[j].file # t[2],
         \A t \in c.todo : Stored(c) => t \in call[i].todo
  PROVE  FileInv'
<1>1. /\ call'[i] = c
      /\ \A j \in Calls \ {i} : call'[j] = call[j]
  BY DEF DocsInv, CallsGood, To
<1>2. FilesKept'
  <2> SUFFICES ASSUME NEW d \in Used' PROVE docs'[d].file \in files' \/ Past(d)'
    BY DEF FilesKept, Past, Expired
  <2>1. d \in Used /\ docs'[d].file = docs[d].file
    BY DEF Steady
  <2>2. CASE Past(d)
    BY <2>1, <2>2, SteadyPast
  <2>3. CASE ~Past(d)
    BY <2>1, <2>3 DEF FileInv, FilesKept, Past, Spare
  <2> QED
    BY <2>2, <2>3
<1>3. OwnFiles'
  BY DEF FileInv, OwnFiles, Steady
<1>4. ASSUME NEW j \in Calls PROVE Holds(call[j])'
  <2>1. CASE j = i
    BY <1>1, <2>1 DEF Holds, Stored
  <2>2. CASE j # i
    <3>1. \A x : x = call[j] => Holds(x)'
      BY <2>2, OthersHold DEF FileInv
    <3> QED
      BY <1>1, <2>2, <3>1 DEF Holds, Stored
  <2> QED
    BY <2>1, <2>2
<1>5. FilesApart'
  <2> SUFFICES ASSUME NEW k \in Calls, NEW j \in Calls, Stored(call'[k])
               PROVE  /\ \A t \in call'[j].todo : t[2] # call'[k].file
                      /\ Stored(call'[j]) /\ k # j => call'[j].file # call'[k].file
    BY DEF FilesApart, Stored
  <2>1. CASE k = i /\ j = i
    BY <1>1, <2>1 DEF FileInv, FilesApart
  <2>2. CASE k = i /\ j # i
    BY <1>1, <2>2 DEF FileInv, FilesApart
  <2>3. CASE k # i /\ j = i
    BY <1>1, <2>3 DEF FileInv, FilesApart
  <2>4. CASE k # i /\ j # i
    BY <1>1, <2>4 DEF FileInv, FilesApart
  <2> QED
    BY <2>1, <2>2, <2>3, <2>4
<1> QED
  BY <1>2, <1>3, <1>4, <1>5 DEF FileInv

(* A call that stores, lists and purges nothing.                             *)
Plain(c) == c.at \in Stages \ {"store", "swap", "regen", "drop", "purge", "mark", "scrub"}

LEMMA PlainStep ==
  ASSUME DocsInv, FileInv, Steady, ClosedFirst', NEW i \in Calls, UNCHANGED files,
         NEW c, To(i, c), Plain(c), c.todo \subseteq call[i].todo
  PROVE  FileInv'
<1>1. Holds(c)'
  BY DEF Holds, FileInv, Plain, Stored, Steady, Used
<1>2. ~Stored(c)
  BY DEF Plain, Stored
<1>3. \A t \in c.todo : t \in call[i].todo
  OBVIOUS
<1>4. PICK X : X = {}
  OBVIOUS
<1>5. (\A f \in X : Spare(i, f)) /\ files \ X \subseteq files'
  BY <1>4
<1> QED
  BY <1>1, <1>2, <1>3, <1>5, FileStep

LEMMA EndStep ==
  ASSUME DocsInv, FileInv, Steady, ClosedFirst', NEW i \in Calls, NEW X,
         \A f \in X : Spare(i, f), files \ X \subseteq files', End(i)
  PROVE  FileInv'
<1>1. Idle.todo = {} /\ Idle.at = "idle" /\ To(i, Idle)
  BY DEF Idle, End
<1> HIDE DEF Idle
<1>2. Holds(Idle)' /\ ~Stored(Idle)
  BY <1>1 DEF Holds, Stored
<1> QED
  BY <1>1, <1>2, FileStep

LEMMA EndsFile ==
  ASSUME DocsInv, FileInv, Steady, ClosedFirst', NEW i \in Calls, UNCHANGED files, End(i)
  PROVE  FileInv'
<1>1. PICK X : X = {}
  OBVIOUS
<1>2. (\A f \in X : Spare(i, f)) /\ files \ X \subseteq files'
  BY <1>1
<1> QED
  BY <1>2, EndStep

(* Reads, decisions, and the ends of calls.                                  *)
LEMMA BeginsFile ==
  ASSUME DocsInv, FileInv, NEW i \in Calls,
         \/ SubmitRead(i) \/ UploadCheck(i) \/ ReviewCheck(i) \/ ApproveAllRead(i)
         \/ RejectBatchLock(i) \/ ReviewProfileRead(i) \/ DownloadBuild(i) \/ DeletionCheck(i)
  PROVE  FileInv'
<1>1. UNCHANGED <<docs, files, erased, request>>
  BY DEF SubmitRead, UploadCheck, ReviewCheck, ApproveAllRead, RejectBatchLock,
         ReviewProfileRead, DownloadBuild, DeletionCheck
<1>2. Steady /\ ClosedFirst'
  BY <1>1, SteadyDocs DEF FileInv, ClosedFirst
<1>3. \E c : To(i, c) /\ Plain(c) /\ c.todo = {}
  <2>1. CASE SubmitRead(i) \/ ApproveAllRead(i) \/ DownloadBuild(i)
    <3>1. PICK x \in {"submit", "all", "count"} : To(i, [Idle EXCEPT !.at = x])
      BY <2>1 DEF SubmitRead, ApproveAllRead, DownloadBuild
    <3>2. Plain([Idle EXCEPT !.at = x]) /\ [Idle EXCEPT !.at = x].todo = {}
      BY DEF Plain, Stages, Idle
    <3> QED
      BY <3>1, <3>2
  <2>2. CASE DeletionCheck(i)
    <3>1. PICK x \in {"erase", "refuse"} : To(i, [Idle EXCEPT !.at = x])
      BY <2>2 DEF DeletionCheck
    <3>2. Plain([Idle EXCEPT !.at = x]) /\ [Idle EXCEPT !.at = x].todo = {}
      BY DEF Plain, Stages, Idle
    <3> QED
      BY <3>1, <3>2
  <2>3. CASE UploadCheck(i)
    <3>1. PICK k : To(i, [Idle EXCEPT !.at = "save", !.kind = k])
      BY <2>3 DEF UploadCheck
    <3>2. /\ Plain([Idle EXCEPT !.at = "save", !.kind = k])
          /\ [Idle EXCEPT !.at = "save", !.kind = k].todo = {}
      BY DEF Plain, Stages, Idle
    <3> QED
      BY <3>1, <3>2
  <2>4. CASE ReviewCheck(i)
    <3>1. PICK d, v : To(i, [Idle EXCEPT !.at = "review", !.doc = d, !.verdict = v])
      BY <2>4 DEF ReviewCheck
    <3>2. /\ Plain([Idle EXCEPT !.at = "review", !.doc = d, !.verdict = v])
          /\ [Idle EXCEPT !.at = "review", !.doc = d, !.verdict = v].todo = {}
      BY DEF Plain, Stages, Idle
    <3> QED
      BY <3>1, <3>2
  <2>5. CASE RejectBatchLock(i)
    <3>1. PICK D : To(i, [Idle EXCEPT !.at = "batch", !.rows = D])
      BY <2>5 DEF RejectBatchLock
    <3>2. /\ Plain([Idle EXCEPT !.at = "batch", !.rows = D])
          /\ [Idle EXCEPT !.at = "batch", !.rows = D].todo = {}
      BY DEF Plain, Stages, Idle
    <3> QED
      BY <3>1, <3>2
  <2>6. CASE ReviewProfileRead(i)
    <3>1. PICK v : To(i, [Idle EXCEPT !.at = "profile", !.verdict = v])
      BY <2>6 DEF ReviewProfileRead
    <3>2. /\ Plain([Idle EXCEPT !.at = "profile", !.verdict = v])
          /\ [Idle EXCEPT !.at = "profile", !.verdict = v].todo = {}
      BY DEF Plain, Stages, Idle
    <3> QED
      BY <3>1, <3>2
  <2> QED
    BY <2>1, <2>2, <2>3, <2>4, <2>5, <2>6
<1>4. PICK c : To(i, c) /\ Plain(c) /\ c.todo = {}
  BY <1>3
<1>5. c.todo \subseteq call[i].todo /\ UNCHANGED files
  BY <1>1, <1>4
<1> QED
  BY <1>2, <1>4, <1>5, PlainStep

LEMMA MidFile ==
  ASSUME DocsInv, FileInv, NEW i \in Calls,
         ReviewDoc(i) \/ ReviewDecide(i) \/ ApproveAllLock(i) \/ DownloadCount(i)
  PROVE  FileInv'
<1>1. UNCHANGED <<docs, files, erased, request>>
  BY DEF ReviewDoc, ReviewDecide, ApproveAllLock, DownloadCount
<1>2. Steady /\ ClosedFirst' /\ UNCHANGED files
  BY <1>1, SteadyDocs DEF FileInv, ClosedFirst
<1>3. call[i] \in Call
  BY DEF DocsInv, CallsGood
<1>4. End(i) \/ \E c : To(i, c) /\ Plain(c) /\ c.todo = call[i].todo
  <2>1. CASE ReviewDoc(i)
    <3>1. PICK D, r, l :
            End(i) \/ To(i, [call[i] EXCEPT !.at = "decide", !.rows = D, !.reopens = r, !.locked = l])
      BY <2>1 DEF ReviewDoc
    <3>2. /\ Plain([call[i] EXCEPT !.at = "decide", !.rows = D, !.reopens = r, !.locked = l])
          /\ [call[i] EXCEPT !.at = "decide", !.rows = D, !.reopens = r, !.locked = l].todo = call[i].todo
      BY <1>3 DEF Plain, Stages, Call
    <3> QED
      BY <3>1, <3>2
  <2>2. CASE ReviewDecide(i)
    <3>1. PICK a, b :
            End(i) \/ To(i, [call[i] EXCEPT !.at = "commit", !.locked = TRUE, !.settled = a, !.approves = b])
      BY <2>2 DEF ReviewDecide
    <3>2. /\ Plain([call[i] EXCEPT !.at = "commit", !.locked = TRUE, !.settled = a, !.approves = b])
          /\ [call[i] EXCEPT !.at = "commit", !.locked = TRUE, !.settled = a, !.approves = b].todo = call[i].todo
      BY <1>3 DEF Plain, Stages, Call
    <3> QED
      BY <3>1, <3>2
  <2>3. CASE ApproveAllLock(i)
    <3>1. End(i) \/ To(i, [call[i] EXCEPT !.at = "allcommit", !.rows = Current(docs)])
      BY <2>3 DEF ApproveAllLock
    <3>2. /\ Plain([call[i] EXCEPT !.at = "allcommit", !.rows = Current(docs)])
          /\ [call[i] EXCEPT !.at = "allcommit", !.rows = Current(docs)].todo = call[i].todo
      BY <1>3 DEF Plain, Stages, Call
    <3> QED
      BY <3>1, <3>2
  <2>4. CASE DownloadCount(i)
    <3>1. End(i) \/ To(i, [call[i] EXCEPT !.at = "take", !.seen = taken])
      BY <2>4 DEF DownloadCount
    <3>2. /\ Plain([call[i] EXCEPT !.at = "take", !.seen = taken])
          /\ [call[i] EXCEPT !.at = "take", !.seen = taken].todo = call[i].todo
      BY <1>3 DEF Plain, Stages, Call
    <3> QED
      BY <3>1, <3>2
  <2> QED
    BY <2>1, <2>2, <2>3, <2>4
<1> QED
  BY <1>2, <1>4, PlainStep, EndsFile

(* A verdict keeps every file, and what had run out has run out.             *)
LEMMA JudgedSteady ==
  ASSUME DocsInv, NEW D, NEW v \in Verdicts, docs' = JudgedAll(D, v), UNCHANGED erased
  PROVE  Steady
<1>1. \A r \in Row : /\ Judged(r, v).file = r.file /\ Judged(r, v).gone = r.gone
                     /\ Expired(r) => Expired(Judged(r, v))
  BY DEF Judged, Restarted, Expired, Row, Clocks
<1>2. \A d \in Used : docs[d] \in Row
  BY DEF DocsInv, Tables
<1> QED
  BY <1>1, <1>2 DEF Steady, JudgedAll, Used

LEMMA VerdictFile ==
  ASSUME DocsInv, FileInv, NEW i \in Calls,
         ReviewCommit(i) \/ ApproveAllCommit(i) \/ RejectBatchCommit(i)
  PROVE  FileInv'
<1>1. /\ call[i].verdict \in Verdicts /\ "approved" \in Verdicts /\ "rejected" \in Verdicts
  BY DEF DocsInv, CallsGood, Call, Verdicts
<1>2. UNCHANGED <<files, erased, request>> /\ End(i)
  BY DEF ReviewCommit, ApproveAllCommit, RejectBatchCommit
<1>3. \E v \in Verdicts : docs' = JudgedAll(call[i].rows, v)
  BY <1>1 DEF ReviewCommit, ApproveAllCommit, RejectBatchCommit
<1>4. Steady /\ ClosedFirst'
  BY <1>2, <1>3, JudgedSteady DEF FileInv, ClosedFirst
<1> QED
  BY <1>2, <1>4, EndsFile

LEMMA EndingsFile ==
  ASSUME DocsInv, FileInv, NEW i \in Calls,
         \/ SubmitWrite(i) \/ ReviewProfileWrite(i) \/ DownloadTake(i) \/ PurgeEnd(i)
         \/ DeletionRefuse(i) \/ Crash(i)
  PROVE  FileInv'
<1>1. UNCHANGED <<docs, files, erased>> /\ End(i)
  BY DEF SubmitWrite, ReviewProfileWrite, DownloadTake, PurgeEnd, DeletionRefuse, Crash
<1>2. request.status = "approved" \/ request'.status # "approved"
  BY DEF SubmitWrite, ReviewProfileWrite, DownloadTake, PurgeEnd, DeletionRefuse, Crash,
         DocsInv, Tables
<1>3. Steady /\ ClosedFirst'
  BY <1>1, <1>2, SteadyDocs DEF FileInv, ClosedFirst
<1> QED
  BY <1>1, <1>3, EndsFile

(* A sweep takes up an erasure only when the account is closed.              *)
LEMMA ScrubFile ==
  ASSUME DocsInv, FileInv, NEW i \in Calls, ScrubResume(i) \/ DeletionApprove(i)
  PROVE  FileInv'
<1>1. UNCHANGED <<docs, files>> /\ (erased => erased') /\ erased' /\ ClosedFirst'
  BY DEF ScrubResume, DeletionApprove, FileInv, ClosedFirst
<1>2. Steady /\ UNCHANGED files
  BY <1>1 DEF Steady, Used, Expired
<1>3. call[i] \in Call
  BY DEF DocsInv, CallsGood
<1>4. \E c : To(i, c) /\ c.at = "scrub" /\ c.todo \subseteq call[i].todo
  <2>1. CASE ScrubResume(i)
    <3>1. To(i, [Idle EXCEPT !.at = "scrub"])
      BY <2>1 DEF ScrubResume
    <3>2. [Idle EXCEPT !.at = "scrub"].at = "scrub" /\ [Idle EXCEPT !.at = "scrub"].todo = {}
      BY DEF Idle
    <3>3. [Idle EXCEPT !.at = "scrub"].todo \subseteq call[i].todo
      BY <3>2
    <3> QED
      BY <3>1, <3>2, <3>3
  <2>2. CASE DeletionApprove(i)
    <3>1. To(i, [call[i] EXCEPT !.at = "scrub"])
      BY <2>2 DEF DeletionApprove, Step
    <3>2. /\ [call[i] EXCEPT !.at = "scrub"].at = "scrub"
          /\ [call[i] EXCEPT !.at = "scrub"].todo = call[i].todo
      BY <1>3 DEF Call
    <3> QED
      BY <3>1, <3>2
  <2> QED
    BY <2>1, <2>2
<1>5. PICK c : To(i, c) /\ c.at = "scrub" /\ c.todo \subseteq call[i].todo
  BY <1>4
<1>6. Holds(c)' /\ ~Stored(c)
  BY <1>1, <1>5 DEF Holds, Stored, FileInv, Used
<1>7. PICK X : X = {}
  OBVIOUS
<1>8. (\A f \in X : Spare(i, f)) /\ files \ X \subseteq files'
  BY <1>2, <1>7
<1>9. \A t \in c.todo : t \in call[i].todo
  BY <1>5
<1> QED
  BY <1>1, <1>2, <1>5, <1>6, <1>8, <1>9, FileStep

(* A new file is nobody's.                                                   *)
LEMMA FreshFile ==
  ASSUME DocsInv, NEW f \in Fresh
  PROVE  /\ \A d \in Used : docs[d].file # f
         /\ \A j \in Calls : call[j].file # f /\ \A t \in call[j].todo : t[2] # f
  BY DEF Fresh, InUse

LEMMA SaveFile ==
  ASSUME DocsInv, FileInv, NEW i \in Calls, UploadSave(i) \/ RegenerateSave(i)
  PROVE  FileInv'
<1>1. UNCHANGED <<docs, erased, request>>
  BY DEF UploadSave, RegenerateSave
<1>2. Steady /\ ClosedFirst'
  BY <1>1, SteadyDocs DEF FileInv, ClosedFirst
<1>3. call[i] \in Call
  BY DEF DocsInv, CallsGood
<1>4. \E f \in Fresh : \E c :
           /\ files' = files \cup {f} /\ To(i, c) /\ c.file = f /\ c.todo = call[i].todo
           /\ c.at = "store" \/ (c.at = "swap" /\ call[i].at = "regen" /\ c.doc = call[i].doc)
  <2>1. CASE UploadSave(i)
    <3>1. PICK f \in Fresh, p \in Ids \cup {None} :
            /\ files' = files \cup {f}
            /\ To(i, [call[i] EXCEPT !.at = "store", !.file = f, !.doc = p])
      BY <2>1 DEF UploadSave
    <3> DEFINE c == [call[i] EXCEPT !.at = "store", !.file = f, !.doc = p]
    <3>2. c.at = "store" /\ c.file = f /\ c.todo = call[i].todo
      BY <1>3 DEF Call
    <3>3. To(i, c)
      BY <3>1
    <3> HIDE DEF c
    <3> QED
      BY <3>1, <3>2, <3>3
  <2>2. CASE RegenerateSave(i)
    <3>1. PICK f \in Fresh : /\ files' = files \cup {f}
                             /\ To(i, [call[i] EXCEPT !.at = "swap", !.file = f])
      BY <2>2 DEF RegenerateSave
    <3> DEFINE c == [call[i] EXCEPT !.at = "swap", !.file = f]
    <3>2. /\ c.at = "swap" /\ c.file = f /\ c.todo = call[i].todo /\ c.doc = call[i].doc
          /\ call[i].at = "regen"
      BY <1>3, <2>2 DEF Call, RegenerateSave
    <3>3. To(i, c)
      BY <3>1
    <3> HIDE DEF c
    <3> QED
      BY <3>1, <3>2, <3>3
  <2> QED
    BY <2>1, <2>2
<1>5. PICK f \in Fresh : \E c :
           /\ files' = files \cup {f} /\ To(i, c) /\ c.file = f /\ c.todo = call[i].todo
           /\ c.at = "store" \/ (c.at = "swap" /\ call[i].at = "regen" /\ c.doc = call[i].doc)
  BY <1>4
<1>5a. PICK c :
           /\ files' = files \cup {f} /\ To(i, c) /\ c.file = f /\ c.todo = call[i].todo
           /\ c.at = "store" \/ (c.at = "swap" /\ call[i].at = "regen" /\ c.doc = call[i].doc)
  BY <1>5
<1>6. Holds(c)'
  <2>1. Holds(call[i])
    BY DEF FileInv
  <2>2. \A d \in Used : docs[d].file # f
    BY FreshFile
  <2> QED
    BY <1>1, <1>5a, <2>1, <2>2 DEF Holds, Stored, Used
<1>7. \A j \in Calls : (\A t \in call[j].todo : t[2] # c.file) /\ call[j].file # c.file
  BY <1>5a, FreshFile
<1>8. PICK X : X = {}
  OBVIOUS
<1>9. (\A x \in X : Spare(i, x)) /\ files \ X \subseteq files'
  BY <1>5a, <1>8
<1> QED
  BY <1>2, <1>5a, <1>6, <1>7, <1>9, FileStep

(* What a sweep, a scrub or a redrawing lists is rows and their files.       *)
LEMMA ListFile ==
  ASSUME DocsInv, FileInv, NEW i \in Calls, SweepList(i) \/ ScrubList(i) \/ RegenerateRead(i)
  PROVE  FileInv'
<1>1. UNCHANGED <<docs, files, erased, request>>
  BY DEF SweepList, ScrubList, RegenerateRead
<1>2. Steady /\ ClosedFirst' /\ UNCHANGED files
  BY <1>1, SteadyDocs DEF FileInv, ClosedFirst
<1>3. call[i] \in Call /\ Tables
  BY DEF DocsInv, CallsGood
<1> DEFINE Lists(c) == /\ \A t \in c.todo : t[1] \in Used /\ t[2] = docs[t[1]].file
                       /\ \/ c.at = "purge" /\ \A t \in c.todo : Past(t[1])
                          \/ c.at = "regen" /\ c.doc \in Used /\ \A t \in c.todo : t[1] = c.doc
<1>4. \E c : To(i, c) /\ Lists(c)
  <2>1. CASE SweepList(i)
    <3> DEFINE c == [Idle EXCEPT !.at = "purge", !.todo = Listed(Due)]
    <3>1. c.at = "purge" /\ c.todo = Listed(Due)
      BY DEF Idle
    <3>2. To(i, c)
      BY <2>1 DEF SweepList
    <3> HIDE DEF c
    <3>3. Lists(c)
      BY <3>1 DEF Listed, Due, Past, Expired
    <3> QED
      BY <3>2, <3>3
  <2>2. CASE ScrubList(i)
    <3> DEFINE c == [call[i] EXCEPT !.at = "purge", !.todo = Listed(Used), !.scrubs = TRUE]
    <3>1. c.at = "purge" /\ c.todo = Listed(Used)
      BY <1>3 DEF Call
    <3>2. To(i, c) /\ erased
      BY <2>2 DEF ScrubList, FileInv, Holds
    <3> HIDE DEF c
    <3>3. Lists(c)
      BY <3>1, <3>2 DEF Listed, Past
    <3> QED
      BY <3>2, <3>3
  <2>3. CASE RegenerateRead(i)
    <3>1. PICK d \in Current(docs) :
            To(i, [Idle EXCEPT !.at = "regen", !.doc = d, !.todo = {<<d, docs[d].file>>}])
      BY <2>3 DEF RegenerateRead
    <3> DEFINE c == [Idle EXCEPT !.at = "regen", !.doc = d, !.todo = {<<d, docs[d].file>>}]
    <3>2. c.at = "regen" /\ c.doc = d /\ c.todo = {<<d, docs[d].file>>}
      <4>1. c.at = "regen" /\ c.doc = d
        BY DEF Idle
      <4> DEFINE l == {<<d, docs[d].file>>}
      <4> HIDE DEF l
      <4>2. [Idle EXCEPT !.at = "regen", !.doc = d, !.todo = l].todo = l
        BY DEF Idle
      <4> QED
        BY <4>1, <4>2 DEF l
    <3>5. d \in Used
      BY DEF Current, Used
    <3>3. To(i, c)
      BY <3>1
    <3> HIDE DEF c
    <3>4. Lists(c)
      BY <3>2, <3>5
    <3> QED
      BY <3>3, <3>4
  <2> QED
    BY <2>1, <2>2, <2>3
<1>5. PICK c : To(i, c) /\ Lists(c)
  BY <1>4
<1>6. /\ Holds(c)' /\ ~Stored(c)
      /\ \A t \in c.todo : \A j \in Calls : Stored(call[j]) => call[j].file # t[2]
  <2>1. \A d \in Used : Past(d)' <=> Past(d)
    BY <1>1 DEF Past
  <2>2. ~Stored(c)
    BY <1>5 DEF Stored
  <2>3. \A t \in c.todo : \A d \in Used : docs[d].file = t[2] => d = t[1]
    BY <1>5 DEF FileInv, OwnFiles
  <2>4. Holds(c)'
    BY <1>1, <1>5, <2>1, <2>2, <2>3 DEF Holds, Stored, Used, Past, Expired
  <2>5. \A j \in Calls : Stored(call[j]) => \A d \in Used : docs[d].file # call[j].file
    BY DEF FileInv, Holds
  <2> QED
    BY <1>5, <2>2, <2>4, <2>5
<1>7. PICK X : X = {}
  OBVIOUS
<1>8. (\A f \in X : Spare(i, f)) /\ files \ X \subseteq files'
  BY <1>2, <1>7
<1> HIDE DEF Lists
<1> QED
  BY <1>2, <1>5, <1>6, <1>8, FileStep

(* A purge deletes files past their time, and a redrawing the one it has     *)
(* replaced.                                                                 *)
LEMMA PurgeFilesFile ==
  ASSUME DocsInv, FileInv, NEW i \in Calls, PurgeFile(i) \/ PurgeFails(i)
  PROVE  FileInv'
<1>1. UNCHANGED <<docs, erased, request>> /\ call[i].at = "purge" /\ call[i] \in Call
  BY DEF PurgeFile, PurgeFails, DocsInv, CallsGood
<1>2. Steady /\ ClosedFirst'
  BY <1>1, SteadyDocs DEF FileInv, ClosedFirst
<1>3. Holds(call[i])
  BY DEF FileInv
<1>4. CASE PurgeFails(i) /\ End(i)
  <2>1. UNCHANGED files
    BY <1>4 DEF PurgeFails
  <2> QED
    BY <1>2, <1>4, <2>1, EndsFile
<1>5. ASSUME NEW t \in call[i].todo, NEW c, To(i, c), c.todo = call[i].todo \ {t},
             c.at \in {"purge", "mark"}, files \ {t[2]} \subseteq files'
      PROVE  FileInv'
  <2>1. Spare(i, t[2])
    BY <1>1, <1>3 DEF Spare, Holds, FileInv, FilesApart
  <2>2. Holds(c)' /\ ~Stored(c)
    <3>1. \A d \in Used : Past(d)' <=> Past(d)
      BY <1>1 DEF Past
    <3> QED
      BY <1>1, <1>3, <1>5, <3>1 DEF Holds, Stored, Used, Past
  <2>3. PICK X : X = {t[2]}
    OBVIOUS
  <2>4. (\A f \in X : Spare(i, f)) /\ files \ X \subseteq files'
    BY <1>5, <2>1, <2>3
  <2>5. \A u \in c.todo : u \in call[i].todo
    BY <1>5
  <2> QED
    BY <1>2, <1>5, <2>2, <2>4, <2>5, FileStep
<1>6. CASE PurgeFails(i) /\ ~End(i)
  <2>1. PICK t \in call[i].todo : To(i, [call[i] EXCEPT !.todo = @ \ {t}])
    BY <1>6 DEF PurgeFails
  <2> DEFINE c == [call[i] EXCEPT !.todo = @ \ {t}]
  <2>2. c.todo = call[i].todo \ {t} /\ c.at = "purge"
    BY <1>1 DEF Call
  <2>3. To(i, c) /\ files \ {t[2]} \subseteq files'
    BY <1>6, <2>1 DEF PurgeFails
  <2> HIDE DEF c
  <2> QED
    BY <1>5, <2>2, <2>3
<1>7. CASE PurgeFile(i)
  <2>1. PICK t \in call[i].todo :
            /\ files' = files \ {t[2]}
            /\ To(i, [call[i] EXCEPT !.at = "mark", !.doc = t[1], !.todo = @ \ {t}])
    BY <1>7 DEF PurgeFile
  <2> DEFINE c == [call[i] EXCEPT !.at = "mark", !.doc = t[1], !.todo = @ \ {t}]
  <2>2. c.todo = call[i].todo \ {t} /\ c.at = "mark"
    BY <1>1 DEF Call
  <2>3. To(i, c) /\ files \ {t[2]} \subseteq files'
    BY <2>1
  <2> HIDE DEF c
  <2> QED
    BY <1>5, <2>2, <2>3
<1> QED
  BY <1>4, <1>6, <1>7

LEMMA DropFile ==
  ASSUME DocsInv, FileInv, NEW i \in Calls, RegenerateDrop(i)
  PROVE  FileInv'
<1>1. UNCHANGED <<docs, erased, request>> /\ call[i].at = "drop" /\ End(i)
  BY DEF RegenerateDrop
<1>2. Steady /\ ClosedFirst'
  BY <1>1, SteadyDocs DEF FileInv, ClosedFirst
<1>3. PICK X : X = {t[2] : t \in call[i].todo}
  OBVIOUS
<1>4. files \ X \subseteq files'
  BY <1>3 DEF RegenerateDrop
<1>5. \A f \in X : Spare(i, f)
  BY <1>1, <1>3 DEF Spare, FileInv, Holds, FilesApart
<1> QED
  BY <1>1, <1>2, <1>4, <1>5, EndStep

(* A mark, and a retention that runs out: no file moves.                     *)
LEMMA MarkFile ==
  ASSUME DocsInv, FileInv, NEW i \in Calls, PurgeMark(i)
  PROVE  FileInv'
<1>1. /\ docs' = [docs EXCEPT ![call[i].doc].gone = TRUE] /\ call[i].at = "mark"
      /\ UNCHANGED <<files, erased, request>> /\ To(i, [call[i] EXCEPT !.at = "purge"])
  BY DEF PurgeMark, Step
<1>2. \A d \in Used : docs[d] \in Row
  BY DEF DocsInv, Tables
<1>3. \A d \in Used : /\ docs'[d].file = docs[d].file /\ docs'[d].clock = docs[d].clock
                      /\ docs[d].gone => docs'[d].gone
  BY <1>1, <1>2 DEF Row, Used
<1>4. Steady /\ ClosedFirst'
  BY <1>1, <1>3 DEF Steady, Used, Expired, FileInv, ClosedFirst
<1>5. \E c : To(i, c) /\ c.at = "purge" /\ c.todo = call[i].todo
  <2>1. /\ [call[i] EXCEPT !.at = "purge"].at = "purge"
        /\ [call[i] EXCEPT !.at = "purge"].todo = call[i].todo
    BY DEF DocsInv, CallsGood, Call
  <2> QED
    BY <1>1, <2>1
<1>6. PICK c : To(i, c) /\ c.at = "purge" /\ c.todo = call[i].todo
  BY <1>5
<1>7. Holds(c)' /\ ~Stored(c)
  <2>1. Holds(call[i])
    BY DEF FileInv
  <2>2. \A d \in Used : Past(d) => Past(d)'
    BY <1>4, SteadyPast
  <2> QED
    BY <1>1, <1>4, <1>6, <2>1, <2>2 DEF Holds, Stored, Steady, Used, Past
<1>8. \A t \in c.todo : t \in call[i].todo
  BY <1>6
<1>9. PICK X : X = {}
  OBVIOUS
<1>10. (\A f \in X : Spare(i, f)) /\ files \ X \subseteq files'
  BY <1>1, <1>9
<1> QED
  BY <1>4, <1>6, <1>7, <1>8, <1>10, FileStep

(* The tables move and no call does.                                         *)
LEMMA StillFile ==
  ASSUME DocsInv, FileInv, Steady, ClosedFirst', UNCHANGED <<files, call>>
  PROVE  FileInv'
<1>1. \A d \in Used : Past(d) => Past(d)'
  BY SteadyPast
<1>2. FilesKept'
  BY <1>1 DEF FileInv, FilesKept, Steady, Past, Expired
<1>3. \A i \in Calls : Holds(call[i])'
  BY <1>1 DEF FileInv, Holds, Steady, Stored, Used
<1>4. OwnFiles' /\ FilesApart'
  BY DEF FileInv, OwnFiles, FilesApart, Steady, Stored
<1> QED
  BY <1>2, <1>3, <1>4 DEF FileInv

LEMMA TablesFile ==
  ASSUME DocsInv, FileInv, Expire \/ RequestDeletion \/ UNCHANGED docVars
  PROVE  FileInv'
<1>1. UNCHANGED <<files, call, erased>> /\ ClosedFirst'
  BY DEF Expire, RequestDeletion, docVars, FileInv, ClosedFirst
<1>2. CASE UNCHANGED docs
  BY <1>1, <1>2, StillFile, SteadyDocs
<1>3. CASE Expire
  <2>1. PICK d \in Used : docs' = [docs EXCEPT ![d].clock = "due"]
    BY <1>3 DEF Expire
  <2>2. \A e \in Used : docs[e] \in Row
    BY DEF DocsInv, Tables
  <2>3. \A e \in Used : /\ docs'[e].file = docs[e].file /\ docs'[e].gone = docs[e].gone
                        /\ docs'[e].clock \in {docs[e].clock, "due"}
    BY <2>1, <2>2 DEF Row, Used
  <2>4. Used' = Used
    BY <2>1 DEF Used
  <2>5. Steady
    BY <1>1, <2>3, <2>4 DEF Steady, Expired
  <2> QED
    BY <1>1, <2>5, StillFile
<1> QED
  BY <1>2, <1>3 DEF RequestDeletion, docVars

(* An upload that loses takes its own file away.                             *)
LEMMA UploadLost ==
  ASSUME DocsInv, FileInv, NEW i \in Calls, UploadCommit(i), ~OnlyCurrent(call[i])
  PROVE  FileInv'
<1>1. UNCHANGED <<docs, erased, request>> /\ call[i].at = "store" /\ End(i)
  BY DEF UploadCommit
<1>2. Steady /\ ClosedFirst'
  BY <1>1, SteadyDocs DEF FileInv, ClosedFirst
<1>3. PICK X : X = {call[i].file}
  OBVIOUS
<1>4. files \ X \subseteq files'
  BY <1>3 DEF UploadCommit
<1>5. \A f \in X : Spare(i, f)
  BY <1>1, <1>3 DEF Spare, FileInv, Holds, FilesApart, Stored
<1> QED
  BY <1>1, <1>2, <1>4, <1>5, EndStep

LEMMA UploadFiles ==
  ASSUME DocsInv, NEW i \in Calls, UploadCommit(i), OnlyCurrent(call[i])
  PROVE  /\ Used' = Used \cup {call[i].file} /\ docs'[call[i].file].file = call[i].file
         /\ \A d \in Used : /\ docs'[d].file = docs[d].file /\ docs'[d].clock = docs[d].clock
                            /\ docs'[d].gone = docs[d].gone
<1> DEFINE f == call[i].file
           row == [kind |-> call[i].kind, status |-> "submitted", current |-> TRUE,
                   file |-> f, clock |-> "off", gone |-> FALSE]
<1>1. docs' = [d \in Used \cup {f} |->
                 IF d = f THEN row ELSE [docs[d] EXCEPT !.current = @ /\ d # call[i].doc]]
  BY DEF UploadCommit
<1>2. f \notin Used /\ f \in Used \cup {f} /\ row.file = f
  BY DEF DocsInv, CallsGood, GoodCall, UploadCommit
<1>3. \A d \in Used : docs[d] \in Row
  BY DEF DocsInv, Tables
<1> HIDE DEF f, row
<1>4. Used' = Used \cup {f} /\ docs'[f] = row
  BY <1>1, <1>2 DEF Used
<1>5. ASSUME NEW d \in Used
      PROVE  docs'[d].file = docs[d].file /\ docs'[d].clock = docs[d].clock
             /\ docs'[d].gone = docs[d].gone
  <2>1. docs'[d] = [docs[d] EXCEPT !.current = @ /\ d # call[i].doc]
    BY <1>1, <1>2
  <2> QED
    BY <1>3, <2>1 DEF Row
<1> QED
  BY <1>2, <1>4, <1>5 DEF f

(* A new row has the file stored for it; the one it replaces keeps its own.  *)
LEMMA UploadWon ==
  ASSUME DocsInv, FileInv, NEW i \in Calls, UploadCommit(i), OnlyCurrent(call[i])
  PROVE  FileInv'
<1> DEFINE f == call[i].file
<1>1. /\ call[i].at = "store" /\ UNCHANGED <<files, erased, request>>
      /\ call[i] \in Call /\ f \in Ids /\ f \notin Used
  BY DEF UploadCommit, DocsInv, CallsGood, GoodCall
<1>2. Used' = Used \cup {f} /\ docs'[f].file = f
  BY UploadFiles
<1>3. \A d \in Used : /\ docs'[d].file = docs[d].file /\ docs'[d].clock = docs[d].clock
                      /\ docs'[d].gone = docs[d].gone
  BY UploadFiles
<1>4. /\ call'[i] = Idle
      /\ \A j \in Calls \ {i} : call'[j] = call[j]
  BY DEF DocsInv, CallsGood, UploadCommit, End, To
<1>5. Idle.todo = {} /\ Idle.at = "idle"
  BY DEF Idle
<1> HIDE DEF Idle, f
<1>6. f \in files /\ \A d \in Used : docs[d].file # f
  BY <1>1 DEF FileInv, Holds, Stored, f
<1>7. FilesKept'
  BY <1>1, <1>2, <1>3, <1>6 DEF FileInv, FilesKept, Expired, Used
<1>8. OwnFiles'
  BY <1>2, <1>3, <1>6 DEF FileInv, OwnFiles, Used
<1>9. FilesApart'
  BY <1>4, <1>5 DEF FileInv, FilesApart, Stored
<1>10. ASSUME NEW j \in Calls \ {i} PROVE Holds(call[j])'
  <2>1. Holds(call[j]) /\ call'[j] = call[j]
    BY <1>4 DEF FileInv
  <2>2. /\ \A t \in call[j].todo : t[2] # f
        /\ Stored(call[j]) => call[j].file # f
    BY <1>1 DEF FileInv, FilesApart, Stored, f
  <2>3. \A d \in Used : Past(d) => Past(d)'
    BY <1>1, <1>3 DEF Past, Expired
  <2> QED
    BY <1>1, <1>2, <1>3, <2>1, <2>2, <2>3 DEF Holds, Stored, Used, Past
<1>11. Holds(call[i])'
  BY <1>4, <1>5 DEF Holds, Stored
<1> QED
  BY <1>1, <1>7, <1>8, <1>9, <1>10, <1>11 DEF FileInv, ClosedFirst

(* A swap gives the row the file drawn for it; the old one is no row's now.  *)
LEMMA SwapFile ==
  ASSUME DocsInv, FileInv, NEW i \in Calls, RegenerateSwap(i)
  PROVE  FileInv'
<1> DEFINE f == call[i].file
           x == call[i].doc
           c == [call[i] EXCEPT !.at = "drop"]
<1>1. /\ call[i].at = "swap" /\ UNCHANGED <<files, erased, request>> /\ call[i] \in Call
      /\ Holds(call[i]) /\ x \in Used
  BY DEF RegenerateSwap, DocsInv, CallsGood, FileInv, Holds
<1>2. /\ call'[i] = c
      /\ \A j \in Calls \ {i} : call'[j] = call[j]
  BY DEF DocsInv, CallsGood, RegenerateSwap, Step, To
<1>3. c.at = "drop" /\ c.todo = call[i].todo
  BY <1>1 DEF Call
<1>4. \A d \in Used : docs[d] \in Row
  BY DEF DocsInv, Tables
<1>5. docs' = [docs EXCEPT ![x].file = f]
  BY DEF RegenerateSwap
<1> HIDE DEF c, f, x
<1>6. /\ Used' = Used /\ docs'[x].file = f
      /\ \A d \in Used \ {x} : docs'[d] = docs[d]
      /\ \A d \in Used : docs'[d].clock = docs[d].clock /\ docs'[d].gone = docs[d].gone
  BY <1>1, <1>4, <1>5 DEF Row, Used
<1>7. f \in files /\ \A d \in Used : docs[d].file # f
  BY <1>1 DEF Holds, Stored, f
<1>8. FilesKept'
  BY <1>1, <1>6, <1>7 DEF FileInv, FilesKept, Expired, Used
<1>9. OwnFiles'
  BY <1>1, <1>6, <1>7 DEF FileInv, OwnFiles, Used
<1>10. FilesApart'
  BY <1>2, <1>3 DEF FileInv, FilesApart, Stored
<1>11. \A j \in Calls : \A t \in call[j].todo : t[2] # f
  BY <1>1 DEF FileInv, FilesApart, Stored, f
<1>12. ASSUME NEW j \in Calls \ {i} PROVE Holds(call[j])'
  <2>1. Holds(call[j]) /\ call'[j] = call[j]
    BY <1>2 DEF FileInv
  <2>2. Stored(call[j]) => call[j].file # f
    BY <1>1 DEF FileInv, FilesApart, Stored, f
  <2>3. \A d \in Used : Past(d) => Past(d)'
    BY <1>1, <1>6 DEF Past, Expired
  <2>4. Stored(call[j]) => \A d \in Used : docs'[d].file # call[j].file
    BY <1>6, <2>1, <2>2 DEF Holds
  <2>5. \A t \in call[j].todo : \A d \in Used : docs'[d].file = t[2] => docs[d].file = t[2]
    BY <1>6, <1>11
  <2> QED
    BY <1>1, <1>6, <2>1, <2>3, <2>4, <2>5 DEF Holds, Stored, Used, Past
<1>13. Holds(call[i])'
  <2>1. \A t \in c.todo : t[1] = x /\ t[2] # f
    BY <1>1, <1>3, <1>11 DEF Holds, x
  <2>2. \A t \in c.todo : \A d \in Used : docs'[d].file # t[2]
    BY <1>1, <1>3, <1>6, <2>1 DEF Holds
  <2> QED
    BY <1>2, <1>3, <1>6, <2>2 DEF Holds, Stored, Used
<1> QED
  BY <1>1, <1>8, <1>9, <1>10, <1>12, <1>13 DEF FileInv, ClosedFirst

LEMMA InitFile == DocsInit => FileInv
<1> SUFFICES ASSUME DocsInit PROVE FileInv
  OBVIOUS
<1>1. PICK s \in Starts :
        /\ docs = s.docs /\ files = {s.docs[d].file : d \in DOMAIN s.docs}
  BY DEF DocsInit
<1>2. FilesKept /\ OwnFiles
  BY <1>1, DocumentsAssumption DEF FilesKept, OwnFiles, Used
<1>3. \A i \in Calls : call[i] = Idle
  BY DEF DocsInit
<1>4. Idle.todo = {} /\ Idle.at = "idle"
  BY DEF Idle
<1>5. request.status = "none"
  BY DEF DocsInit
<1> HIDE DEF Idle
<1>6. FilesApart /\ \A i \in Calls : Holds(call[i])
  BY <1>3, <1>4 DEF FilesApart, Holds, Stored
<1> QED
  BY <1>2, <1>5, <1>6 DEF FileInv, ClosedFirst

LEMMA NextFile ==
  ASSUME DocsInv, FileInv, [DocsNext]_docVars
  PROVE  FileInv'
<1>1. CASE Expire \/ RequestDeletion \/ UNCHANGED docVars
  BY <1>1, TablesFile
<1>2. ASSUME NEW i \in Calls,
             \/ SubmitRead(i) \/ UploadCheck(i) \/ ReviewCheck(i) \/ ApproveAllRead(i)
             \/ RejectBatchLock(i) \/ ReviewProfileRead(i) \/ DownloadBuild(i) \/ DeletionCheck(i)
      PROVE  FileInv'
  BY <1>2, BeginsFile
<1>3. ASSUME NEW i \in Calls,
             \/ ReviewDoc(i) \/ ReviewDecide(i) \/ ApproveAllLock(i) \/ DownloadCount(i)
             \/ ReviewCommit(i) \/ ApproveAllCommit(i) \/ RejectBatchCommit(i)
      PROVE  FileInv'
  BY <1>3, MidFile, VerdictFile
<1>4. ASSUME NEW i \in Calls,
             \/ SubmitWrite(i) \/ ReviewProfileWrite(i) \/ DownloadTake(i) \/ PurgeEnd(i)
             \/ DeletionRefuse(i) \/ Crash(i)
      PROVE  FileInv'
  BY <1>4, EndingsFile
<1>5. ASSUME NEW i \in Calls,
             \/ ScrubResume(i) \/ DeletionApprove(i) \/ UploadSave(i) \/ RegenerateSave(i)
             \/ SweepList(i) \/ ScrubList(i) \/ RegenerateRead(i)
      PROVE  FileInv'
  BY <1>5, ScrubFile, SaveFile, ListFile
<1>6. ASSUME NEW i \in Calls,
             \/ PurgeFile(i) \/ PurgeFails(i) \/ PurgeMark(i) \/ RegenerateDrop(i)
             \/ UploadCommit(i) \/ RegenerateSwap(i)
      PROVE  FileInv'
  BY <1>6, PurgeFilesFile, MarkFile, DropFile, UploadLost, UploadWon, SwapFile
<1> QED
  BY <1>1, <1>2, <1>3, <1>4, <1>5, <1>6 DEF DocsNext, InFlight, Scheduled

(* A row has its file until its retention runs out or the account is closed: *)
(* an upload that loses deletes only what it stored, two redrawings of one   *)
(* form each drop what they replaced, and a sweep's stale list holds nothing *)
(* that has become a row's since (Upload, sweepExpired,                      *)
(* regenerateCreditorForm).                                                  *)
THEOREM RowsKeepTheirFiles == DocsSpec => []FilesKept
<1>1. DocsInit => DocsInv /\ FileInv
  BY InitKeeps, InitFile
<1>2. DocsInv /\ FileInv /\ [DocsNext]_docVars => (DocsInv /\ FileInv)'
  BY NextKeeps, NextFile
<1>3. FileInv => FilesKept
  BY DEF FileInv
<1> QED
  BY <1>1, <1>2, <1>3, PTL DEF DocsSpec
=============================================================================
