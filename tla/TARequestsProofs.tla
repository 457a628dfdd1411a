-------------------------- MODULE TARequestsProofs --------------------------
(***************************************************************************)
(* What holds of the requests of a term whatever the TAs, the sections,    *)
(* the timetables and the calls in flight: the types, that a final verdict *)
(* stands, that what a clash took is remembered, and that a verdict is     *)
(* told once.                                                              *)
(*                                                                         *)
(* All four rest on what an open transaction knows.  The rows it will      *)
(* write are locked by it alone (Apart), or are not yet in the table; a    *)
(* row it judges was not final when it locked it, and a row it marks told  *)
(* had not been told (Good).  So a commit overwrites what it read.         *)
(***************************************************************************)
EXTENDS TARequests, WellFoundedInduction, TLAPS

Wrote(p) == {r \in Reqs : p.work[r].status # "none"}

Final(rec) == \/ rec.status = "cancelled"
              \/ rec.status = "rejected" /\ rec.why = "rules" /\ rec.batch # Nobody

(* A judged row, and a row to be marked told, beside the committed one.      *)
Judging(new, old) == /\ old.status # "none" /\ ~Final(old)
                     /\ new.batch = old.batch /\ new.told = old.told
Telling(new, old) == /\ old.status # "none" /\ ~old.told /\ old.batch # Nobody
                     /\ new.told /\ new.status = old.status /\ new.batch = old.batch

Good(p, rq) ==
    /\ p.to \in {"idle", "refiled", "recheck"}
    /\ p.at \in {"decide", "write", "hush"} => p.on \in Reqs
    /\ p.at = "hush" => rq[p.on].status # "none"
    /\ p.at \notin {"filing", "write", "mark"} => p.work = NoWork /\ p.rows = {}
    /\ p.at = "filing" => /\ p.left # {} \/ Wrote(p) # {}
                          /\ \A r \in Wrote(p) : rq[r].status = "none"
    /\ p.at = "write" => \A r \in Wrote(p) : r \in p.rows /\ Judging(p.work[r], rq[r])
    /\ p.at = "mark"  => \A r \in Wrote(p) : r \in p.rows /\ Telling(p.work[r], rq[r])
    /\ \A r \in Reqs : Remembered(p.work[r])

Tables ==
    /\ req \in [Reqs -> Row] /\ cap \in Caps
    /\ table \in [TAs -> Timetables \cup {Unfiled}]
    /\ logged \subseteq Reqs \X Pairs
    /\ issued \subseteq TAs \X Courses \X Papers
    /\ overdue \subseteq Reqs
    /\ heard \in [Reqs -> Nat]

ToldOnes == \A r \in Reqs : /\ heard[r] \in {0, 1}
                            /\ heard[r] = 1 => /\ req[r].told /\ req[r].batch # Nobody
                                               /\ req[r].status # "none"

Separate == \A i \in Procs : \A j \in Procs \ {i} :
    proc[i].rows \cap proc[j].rows = {} /\ Wrote(proc[i]) \cap Wrote(proc[j]) = {}

Calls == proc \in [Procs -> Proc] /\ \A i \in Procs : Good(proc[i], req)

ReqInv == Tables /\ Calls /\ Separate /\ ToldOnes /\ CutsRemembered

-----------------------------------------------------------------------------
(* A set of naturals that is not empty has its least element.                *)
LEMMA LeastIn ==
  ASSUME NEW S \in SUBSET Nat, S # {}
  PROVE  Least(S) \in S
<1> DEFINE R == {x \in Nat \X Nat : x[1] < x[2]}
<1>1. IsWellFoundedOn(R, Nat)
  <2>1. R = OpToRel(<, Nat)
    BY DEF OpToRel
  <2> QED
    BY <2>1, NatLessThanWellFounded
<1>2. \A y, x \in Nat : y < x => <<y, x>> \in R
  OBVIOUS
<1> HIDE DEF R
<1>3. PICK x \in S : \A y \in S : ~(<<y, x>> \in R)
  BY <1>1, WFMin
<1>4. ASSUME NEW y \in S PROVE x <= y
  <2>1. x \in Nat /\ y \in Nat
    OBVIOUS
  <2>2. ~(y < x)
    BY <1>2, <1>3, <2>1
  <2> QED
    BY <2>1, <2>2
<1> QED
  BY <1>4 DEF Least

LEMMA BlankRow == Blank \in Row /\ Remembered(Blank) /\ Blank.status = "none"
  BY DEF Blank, Row, Statuses, AsgStates, Remembered

LEMMA NoWorkRows ==
  /\ NoWork \in [Reqs -> Row]
  /\ \A r \in Reqs : Remembered(NoWork[r]) /\ NoWork[r].status = "none"
  BY BlankRow DEF NoWork

LEMMA IdleCall == /\ Idle \in Proc /\ Idle.work = NoWork /\ Idle.rows = {} /\ Idle.at = "idle"
                  /\ Idle.to = "idle"
  BY NoWorkRows DEF Idle, Proc, Stages

(* The clash rule and the verdict change neither the submission of a row     *)
(* nor whether it was told, and they remember what they cut.                 *)
LEMMA CutRow ==
  ASSUME NEW v \in [Reqs -> Row], NEW r \in Reqs, NEW T, NEW again \in BOOLEAN
  PROVE  /\ Cut(v, r, T, again) \in Row
         /\ Cut(v, r, T, again).batch = v[r].batch /\ Cut(v, r, T, again).told = v[r].told
         /\ Cut(v, r, T, again).status = v[r].status
         /\ Remembered(v[r]) => Remembered(Cut(v, r, T, again))
<1> DEFINE rec  == v[r]
           hit  == {k \in Judged(rec, T, again) : Clash(k) # "none"}
           back == IF again THEN Restored(v, r, T) ELSE {}
           asg  == [k \in Pairs |->
                      IF k \in hit
                      THEN IF Lost(rec, r, k, again) THEN "dropped" ELSE "trimmed"
                      ELSE IF k \in back THEN "active" ELSE rec.asg[k]]
           cut  == (rec.cut \cup hit) \ back
<1>1. rec \in Row /\ rec.asg \in [Pairs -> AsgStates] /\ rec.cut \subseteq Pairs
  BY DEF Row
<1>2. hit \subseteq Pairs /\ back \cap hit = {} /\ back \subseteq rec.cut
  BY DEF Judged, OnIt, Restored
<1>3. asg \in [Pairs -> AsgStates] /\ cut \in SUBSET Pairs
  <2> HIDE DEF hit, back, rec
  <2> QED
    BY <1>1, <1>2 DEF AsgStates
<1>4. Cut(v, r, T, again) = [rec EXCEPT !.asg = asg, !.cut = cut]
  BY DEF Cut
<1>5. ASSUME Remembered(rec)
      PROVE  cut = {k \in Pairs : asg[k] \in {"trimmed", "dropped"}}
  <2>1. rec.cut = {k \in Pairs : rec.asg[k] \in {"trimmed", "dropped"}}
    BY <1>5 DEF Remembered
  <2>2. \A k \in Pairs : asg[k] = IF k \in hit
                                  THEN IF Lost(rec, r, k, again) THEN "dropped" ELSE "trimmed"
                                  ELSE IF k \in back THEN "active" ELSE rec.asg[k]
    OBVIOUS
  <2> HIDE DEF hit, back, rec, asg
  <2>3. \A k \in Pairs : k \in cut <=> asg[k] \in {"trimmed", "dropped"}
    BY <1>2, <2>1, <2>2
  <2> QED
    BY <1>3, <2>3
<1> HIDE DEF rec, hit, back, asg, cut
<1>6. /\ [rec EXCEPT !.asg = asg, !.cut = cut] \in Row
      /\ [rec EXCEPT !.asg = asg, !.cut = cut].batch = rec.batch
      /\ [rec EXCEPT !.asg = asg, !.cut = cut].told = rec.told
      /\ [rec EXCEPT !.asg = asg, !.cut = cut].status = rec.status
      /\ [rec EXCEPT !.asg = asg, !.cut = cut].asg = asg
      /\ [rec EXCEPT !.asg = asg, !.cut = cut].cut = cut
  BY <1>1, <1>3 DEF Row
<1>7. Remembered(rec) => Remembered(Cut(v, r, T, again))
  BY <1>4, <1>5, <1>6 DEF Remembered
<1> QED
  BY <1>4, <1>6, <1>7 DEF rec

(* A row that changes its status and the reason of it.                       *)
LEMMA DecidedRow ==
  ASSUME NEW rec \in Row, NEW st \in Statuses, NEW why \in {"", "rules", "clash"}
  PROVE  /\ Decided(rec, st, why) \in Row /\ Decided(rec, st, why).status = st
         /\ Decided(rec, st, why).batch = rec.batch /\ Decided(rec, st, why).told = rec.told
         /\ Remembered(rec) => Remembered(Decided(rec, st, why))
<1>1. /\ Decided(rec, st, why) \in Row
      /\ Decided(rec, st, why).cut = rec.cut /\ Decided(rec, st, why).asg = rec.asg
  BY DEF Decided, Row
<1> QED
  BY <1>1 DEF Decided, Row, Remembered

LEMMA VerdictRow ==
  ASSUME NEW v \in [Reqs -> Row], NEW r \in Reqs
  PROVE  /\ Verdict(v, r) \in Row /\ Verdict(v, r).status # "none"
         /\ Verdict(v, r).batch = v[r].batch /\ Verdict(v, r).told = v[r].told
         /\ Remembered(v[r]) => Remembered(Verdict(v, r))
<1>1. PICK c : c = Cut(v, r, TAs, FALSE)
  OBVIOUS
<1>2. /\ c \in Row /\ c.batch = v[r].batch /\ c.told = v[r].told
      /\ Remembered(v[r]) => Remembered(c)
  BY <1>1, CutRow
<1>3. \E st \in {"rejected", "approved"}, why \in {"", "rules", "clash"} :
          Verdict(v, r) = Decided(c, st, why)
  BY <1>1 DEF Verdict
<1>4. PICK st \in {"rejected", "approved"}, why \in {"", "rules", "clash"} :
          Verdict(v, r) = Decided(c, st, why)
  BY <1>3
<1>5. st \in Statuses /\ st # "none"
  BY DEF Statuses
<1>6. /\ Decided(c, st, why) \in Row /\ Decided(c, st, why).status = st
      /\ Decided(c, st, why).batch = c.batch /\ Decided(c, st, why).told = c.told
      /\ Remembered(c) => Remembered(Decided(c, st, why))
  BY <1>2, <1>5, DecidedRow
<1> QED
  BY <1>2, <1>4, <1>5, <1>6

-----------------------------------------------------------------------------
(* What the other calls know stays true while their rows are left alone.     *)
Framed(i) == /\ \A r \in Reqs : req[r].status # "none" => req'[r].status # "none"
             /\ \A j \in Procs \ {i} : \A r \in Wrote(proc[j]) : req'[r] = req[r]

LEMMA GoodFrame ==
  ASSUME NEW p, NEW rq, NEW rs, Good(p, rq),
         \A r \in Reqs : rq[r].status # "none" => rs[r].status # "none",
         \A r \in Wrote(p) : rs[r] = rq[r]
  PROVE  Good(p, rs)
  BY DEF Good

LEMMA StepInv ==
  ASSUME ReqInv, NEW i \in Procs, NEW p \in Proc, Become(i, p), Tables', Framed(i),
         Good(p, req'),
         \A j \in Procs \ {i} : /\ p.rows \cap proc[j].rows = {}
                                /\ Wrote(p) \cap Wrote(proc[j]) = {},
         ToldOnes', CutsRemembered'
  PROVE  ReqInv'
<1>1. /\ proc' \in [Procs -> Proc] /\ proc'[i] = p
      /\ \A j \in Procs \ {i} : proc'[j] = proc[j]
  BY DEF ReqInv, Calls, Become
<1>2. \A j \in Procs \ {i} : Good(proc[j], req')
  BY GoodFrame DEF ReqInv, Calls, Framed
<1>3. Calls'
  <2>1. \A j \in Procs : Good(proc'[j], req')
    BY <1>1, <1>2
  <2> QED
    BY <1>1, <2>1 DEF Calls
<1>4. Separate'
  <2> SUFFICES ASSUME NEW j \in Procs, NEW k \in Procs \ {j}
               PROVE  /\ proc'[j].rows \cap proc'[k].rows = {}
                      /\ Wrote(proc'[j]) \cap Wrote(proc'[k]) = {}
    BY DEF Separate, Wrote
  <2>1. CASE j # i /\ k # i
    BY <1>1, <2>1 DEF ReqInv, Separate
  <2>2. CASE j = i \/ k = i
    BY <1>1, <2>2
  <2> QED
    BY <2>1, <2>2
<1> QED
  BY <1>3, <1>4 DEF ReqInv

(* A step that leaves the tables alone.                                      *)
LEMMA KeptInv ==
  ASSUME ReqInv, TablesKept
  PROVE  Tables' /\ ToldOnes' /\ CutsRemembered'
  BY DEF ReqInv, TablesKept, Tables, ToldOnes, CutsRemembered

LEMMA MoveInv ==
  ASSUME ReqInv, NEW i \in Procs, NEW p \in Proc, Become(i, p), TablesKept, Good(p, req),
         \A j \in Procs \ {i} : /\ p.rows \cap proc[j].rows = {}
                                /\ Wrote(p) \cap Wrote(proc[j]) = {}
  PROVE  ReqInv'
<1>1. Framed(i) /\ Good(p, req')
  BY DEF Framed, TablesKept
<1> QED
  BY <1>1, KeptInv, StepInv

LEMMA NothingWrote ==
  ASSUME NEW p, p.work = NoWork
  PROVE  Wrote(p) = {} /\ \A r \in Reqs : Remembered(p.work[r])
  BY NoWorkRows DEF Wrote

(* A call that holds no row goes on without one.                             *)
LEMMA QuietInv ==
  ASSUME ReqInv, NEW i \in Procs, NEW p \in Proc, Become(i, p), TablesKept,
         p.work = NoWork, p.rows = {}, p.to \in {"idle", "refiled", "recheck"},
         p.at \notin {"filing", "write", "mark", "hush"}, p.at = "decide" => p.on \in Reqs
  PROVE  ReqInv'
  BY NothingWrote, MoveInv DEF Good

LEMMA CallType ==
  ASSUME ReqInv, NEW i \in Procs
  PROVE  /\ proc[i] \in Proc /\ Good(proc[i], req) /\ req \in [Reqs -> Row]
         /\ proc[i].at \notin {"filing", "write", "mark"} => proc[i].work = NoWork /\ proc[i].rows = {}
         /\ proc[i].work \in [Reqs -> Row]
  BY DEF ReqInv, Calls, Tables, Good, Proc

LEMMA DoneCall ==
  ASSUME ReqInv, NEW i \in Procs
  PROVE  /\ Done(i) \in Proc /\ Done(i).work = NoWork /\ Done(i).rows = {}
         /\ Done(i).to \in {"idle", "refiled", "recheck"}
         /\ Done(i).at \in {"idle", "refiled", "recheck"}
<1>1. proc[i] \in Proc /\ proc[i].to \in {"idle", "refiled", "recheck"}
  BY CallType DEF Good
<1>2. CASE proc[i].to = "idle"
  BY <1>2, IdleCall DEF Done
<1>3. CASE proc[i].to # "idle"
  <2>1. Done(i) = [Released(i) EXCEPT !.at = proc[i].to, !.on = Nobody]
    BY <1>3 DEF Done
  <2>2. Released(i) \in Proc /\ Released(i).to = proc[i].to
        /\ Released(i).work = NoWork /\ Released(i).rows = {}
    BY <1>1, NoWorkRows DEF Released, Proc
  <2> HIDE DEF Released
  <2> QED
    BY <1>1, <1>3, <2>1, <2>2 DEF Proc, Stages
<1> QED
  BY <1>2, <1>3

LEMMA DoneInv ==
  ASSUME ReqInv, NEW i \in Procs, Become(i, Done(i)), TablesKept
  PROVE  ReqInv'
<1>1. PICK p : p = Done(i)
  OBVIOUS
<1> QED
  BY <1>1, DoneCall, QuietInv

(* Calls that begin, list or give up, without a row.                         *)
LEMMA BeginInv ==
  ASSUME ReqInv, NEW i \in Procs,
         \/ SweepFinalize(i) \/ SweepDigest(i) \/ Crash(i)
  PROVE  ReqInv'
<1>1. CASE SweepFinalize(i)
  <2>1. PICK r \in Reqs : Become(i, [Idle EXCEPT !.at = "decide", !.on = r])
    BY <1>1 DEF SweepFinalize
  <2> DEFINE p == [Idle EXCEPT !.at = "decide", !.on = r]
  <2>2. /\ p \in Proc /\ p.work = NoWork /\ p.rows = {} /\ p.to = "idle"
        /\ p.at = "decide" /\ p.on = r
    BY IdleCall DEF Proc, Stages
  <2> HIDE DEF p
  <2> QED
    BY <1>1, <2>1, <2>2, QuietInv DEF SweepFinalize, p
<1>2. CASE SweepDigest(i)
  <2>1. PICK b \in Reqs : Become(i, [Idle EXCEPT !.at = "tell", !.on = b])
    BY <1>2 DEF SweepDigest
  <2> DEFINE p == [Idle EXCEPT !.at = "tell", !.on = b]
  <2>2. p \in Proc /\ p.work = NoWork /\ p.rows = {} /\ p.to = "idle" /\ p.at = "tell"
    BY IdleCall DEF Proc, Stages
  <2> HIDE DEF p
  <2> QED
    BY <1>2, <2>1, <2>2, QuietInv DEF SweepDigest, p
<1>3. CASE Crash(i)
  BY <1>3, IdleCall, QuietInv DEF Crash
<1> QED
  BY <1>1, <1>2, <1>3

LEMMA ListInv ==
  ASSUME ReqInv, NEW i \in Procs, ListedFinalize(i) \/ ListSubmitted(i) \/ ListDecided(i)
  PROVE  ReqInv'
<1>1. /\ proc[i] \in Proc /\ proc[i].to \in {"idle", "refiled", "recheck"}
      /\ proc[i].at \in {"refiled", "listed"} /\ proc[i].work = NoWork /\ proc[i].rows = {}
  BY CallType DEF Good, ListedFinalize, ListSubmitted, ListDecided
<1>2. CASE ListedFinalize(i)
  <2>1. PICK r \in proc[i].todo :
          LET p == [proc[i] EXCEPT !.todo = @ \ {r}]
          IN  Become(i, IF Filed(req[r])
                        THEN [p EXCEPT !.at = "decide", !.to = "refiled", !.on = r] ELSE p)
    BY <1>2 DEF ListedFinalize
  <2> DEFINE p == [proc[i] EXCEPT !.todo = @ \ {r}]
             q == [p EXCEPT !.at = "decide", !.to = "refiled", !.on = r]
  <2>2. /\ p \in Proc /\ p.work = NoWork /\ p.rows = {} /\ p.to = proc[i].to
        /\ p.at = proc[i].at
    BY <1>1 DEF Proc
  <2>3. r \in Reqs
    BY <1>1 DEF Proc
  <2>4. Become(i, p) \/ Become(i, q)
    BY <2>1
  <2> HIDE DEF p
  <2>5. /\ q \in Proc /\ q.work = NoWork /\ q.rows = {} /\ q.to = "refiled"
        /\ q.at = "decide" /\ q.on = r
    BY <2>2, <2>3 DEF Proc, Stages
  <2> HIDE DEF q
  <2>6. CASE Become(i, p)
    BY <1>1, <1>2, <2>2, <2>6, QuietInv DEF ListedFinalize
  <2>7. CASE Become(i, q)
    BY <1>1, <1>2, <2>3, <2>5, <2>7, QuietInv DEF ListedFinalize
  <2> QED
    BY <2>4, <2>6, <2>7
<1>3. CASE ListSubmitted(i)
  <2> DEFINE todo == {r \in Reqs : req[r].status = "submitted" /\ proc[i].ta \in Staff(req[r])}
             p == [proc[i] EXCEPT !.at = "refiled", !.todo = todo]
  <2>1. todo \in SUBSET Reqs /\ Become(i, p)
    BY <1>3 DEF ListSubmitted
  <2> HIDE DEF todo
  <2>2. /\ p \in Proc /\ p.work = NoWork /\ p.rows = {} /\ p.to = proc[i].to
        /\ p.at = "refiled"
    BY <1>1, <2>1 DEF Proc, Stages
  <2> HIDE DEF p
  <2> QED
    BY <1>1, <1>3, <2>1, <2>2, QuietInv DEF ListSubmitted
<1>4. CASE ListDecided(i)
  <2> DEFINE todo == {r \in Reqs :
                        /\ \/ req[r].status = "approved"
                           \/ req[r].status = "rejected" /\ req[r].why = "clash"
                        /\ \E k \in OnIt(req[r]) : /\ k[1] = proc[i].ta
                                                   /\ k \in Held(req[r]) \cup req[r].cut}
             p == [proc[i] EXCEPT !.at = "recheck", !.to = "recheck", !.todo = todo]
  <2>1. todo \in SUBSET Reqs /\ (Become(i, Idle) \/ Become(i, p))
    BY <1>4 DEF ListDecided
  <2> HIDE DEF todo
  <2>2. /\ p \in Proc /\ p.work = NoWork /\ p.rows = {} /\ p.to = "recheck"
        /\ p.at = "recheck"
    BY <1>1, <2>1 DEF Proc, Stages
  <2> HIDE DEF p
  <2>3. CASE Become(i, Idle)
    BY <1>4, <2>3, IdleCall, QuietInv DEF ListDecided
  <2>4. CASE Become(i, p)
    BY <1>4, <2>2, <2>4, QuietInv DEF ListDecided
  <2> QED
    BY <2>1, <2>3, <2>4
<1> QED
  BY <1>2, <1>3, <1>4

-----------------------------------------------------------------------------
(* A transaction on one row opens: the row is its own.                       *)
LEMMA RowUnwritten ==
  ASSUME ReqInv, NEW i \in Procs, NEW r \in Reqs, RowFree(i, r), req[r].status # "none"
  PROVE  \A j \in Procs \ {i} : r \notin Wrote(proc[j])
<1> SUFFICES ASSUME NEW j \in Procs \ {i}, r \in Wrote(proc[j]) PROVE FALSE
  OBVIOUS
<1>1. Good(proc[j], req)
  BY DEF ReqInv, Calls
<1>2. proc[j].at \in {"filing", "write", "mark"}
  BY <1>1, NothingWrote DEF Good
<1> QED
  BY <1>1, <1>2 DEF Good, RowFree

LEMMA OpenInv ==
  ASSUME ReqInv, NEW i \in Procs, NEW p \in Proc, Become(i, p), TablesKept,
         NEW r \in Reqs, NEW w \in Row, RowFree(i, r), Judging(w, req[r]), Remembered(w),
         p.at = "write", p.on = r, p.rows = {r}, p.work = [NoWork EXCEPT ![r] = w],
         p.to \in {"idle", "refiled", "recheck"}
  PROVE  ReqInv'
<1>1. p.work[r] = w /\ \A q \in Reqs \ {r} : p.work[q] = NoWork[q]
  BY NoWorkRows
<1>2. Wrote(p) \subseteq {r}
  BY <1>1, NoWorkRows DEF Wrote
<1>3. Good(p, req)
  BY <1>1, <1>2, NoWorkRows DEF Good
<1>4. req[r].status # "none"
  BY DEF Judging
<1>5. \A j \in Procs \ {i} : p.rows \cap proc[j].rows = {} /\ Wrote(p) \cap Wrote(proc[j]) = {}
  BY <1>2, <1>4, RowUnwritten DEF RowFree
<1> QED
  BY <1>3, <1>5, MoveInv

LEMMA JudgeInv ==
  ASSUME ReqInv, NEW i \in Procs, FinalizeJudge(i)
  PROVE  ReqInv'
<1> DEFINE r == proc[i].on
<1>1. /\ proc[i] \in Proc /\ proc[i].to \in {"idle", "refiled", "recheck"}
      /\ proc[i].work = NoWork /\ proc[i].rows = {} /\ r \in Reqs
  BY CallType DEF Good, FinalizeJudge
<1>2. CASE Become(i, Done(i))
  BY <1>2, DoneInv DEF FinalizeJudge
<1>3. CASE ~Become(i, Done(i))
  <2> DEFINE w == Verdict(req, r)
             p == [proc[i] EXCEPT !.at = "write", !.rows = {r}, !.locks = Staff(req[r]),
                                  !.work[r] = w]
  <2>1. Become(i, p) /\ RowFree(i, r) /\ req[r].status = "submitted" /\ TablesKept
    BY <1>3 DEF FinalizeJudge, Open
  <2>2. /\ w \in Row /\ w.batch = req[r].batch /\ w.told = req[r].told /\ Remembered(w)
    BY <1>1, CallType, VerdictRow DEF ReqInv, CutsRemembered
  <2>3. Judging(w, req[r])
    BY <2>1, <2>2 DEF Judging, Final
  <2>4. Staff(req[r]) \in SUBSET TAs
    BY DEF Staff, OnIt, Pairs
  <2> HIDE DEF w, r
  <2>5. /\ p \in Proc /\ p.at = "write" /\ p.on = r /\ p.rows = {r} /\ p.to = proc[i].to
        /\ p.work = [NoWork EXCEPT ![r] = w]
    BY <1>1, <2>2, <2>4, NoWorkRows DEF Proc, Stages, r
  <2> HIDE DEF p
  <2> QED
    BY <1>1, <2>1, <2>2, <2>3, <2>5, OpenInv
<1> QED
  BY <1>2, <1>3

LEMMA RecheckInv ==
  ASSUME ReqInv, NEW i \in Procs, RecheckNext(i)
  PROVE  ReqInv'
<1>1. /\ proc[i] \in Proc /\ proc[i].to \in {"idle", "refiled", "recheck"}
      /\ proc[i].work = NoWork /\ proc[i].rows = {} /\ proc[i].at = "recheck"
  BY CallType DEF Good, RecheckNext
<1>2. CASE Become(i, Idle)
  BY <1>2, IdleCall, QuietInv DEF RecheckNext
<1>3. CASE ~Become(i, Idle)
  <2>1. PICK r \in proc[i].todo :
          /\ RowFree(i, r)
          /\ LET rec == Cut(req, r, {proc[i].ta}, TRUE)
                 out == IF Held(rec) = {} THEN Decided(rec, "rejected", "clash")
                                          ELSE Decided(rec, "approved", "")
                 p   == [proc[i] EXCEPT !.todo = @ \ {r}]
                 open == \/ req[r].status = "approved"
                         \/ req[r].status = "rejected" /\ req[r].why = "clash"
             IN  Become(i, IF open /\ rec.asg # req[r].asg
                           THEN [p EXCEPT !.at = "write", !.on = r, !.rows = {r}, !.work[r] = out]
                           ELSE p)
    BY <1>3 DEF RecheckNext
  <2> DEFINE rec == Cut(req, r, {proc[i].ta}, TRUE)
             out == IF Held(rec) = {} THEN Decided(rec, "rejected", "clash")
                                      ELSE Decided(rec, "approved", "")
             p   == [proc[i] EXCEPT !.todo = @ \ {r}]
             open == \/ req[r].status = "approved"
                     \/ req[r].status = "rejected" /\ req[r].why = "clash"
             q   == [p EXCEPT !.at = "write", !.on = r, !.rows = {r}, !.work[r] = out]
  <2>2. r \in Reqs /\ TablesKept
    BY <1>1 DEF Proc, RecheckNext
  <2>3. Become(i, p) \/ (open /\ Become(i, q))
    BY <2>1
  <2>4. /\ rec \in Row /\ rec.batch = req[r].batch /\ rec.told = req[r].told /\ Remembered(rec)
    BY <2>2, CallType, CutRow DEF ReqInv, CutsRemembered
  <2> HIDE DEF rec
  <2>5. out \in Row /\ out.batch = req[r].batch /\ out.told = req[r].told /\ Remembered(out)
    <3>1. {"rejected", "approved"} \subseteq Statuses
      BY DEF Statuses
    <3> QED
      BY <2>4, <3>1, DecidedRow
  <2> HIDE DEF out
  <2>6. open => Judging(out, req[r])
    BY <2>5 DEF Judging, Final
  <2> HIDE DEF open
  <2>7. /\ p \in Proc /\ p.work = NoWork /\ p.rows = {} /\ p.to = proc[i].to /\ p.at = "recheck"
    BY <1>1 DEF Proc
  <2> HIDE DEF p
  <2>8. /\ q \in Proc /\ q.at = "write" /\ q.on = r /\ q.rows = {r} /\ q.to = proc[i].to
        /\ q.work = [NoWork EXCEPT ![r] = out]
    BY <2>2, <2>5, <2>7, NoWorkRows DEF Proc, Stages
  <2> HIDE DEF q
  <2>9. CASE Become(i, p)
    BY <1>1, <2>2, <2>7, <2>9, QuietInv
  <2>10. CASE open /\ Become(i, q)
    BY <1>1, <2>1, <2>2, <2>5, <2>6, <2>8, <2>10, OpenInv
  <2> QED
    BY <2>3, <2>9, <2>10
<1> QED
  BY <1>2, <1>3

LEMMA WriteBegins ==
  ASSUME NEW r \in Reqs, NEW w \in Row
  PROVE  /\ Writing(r, w) \in Proc /\ Writing(r, w).at = "write" /\ Writing(r, w).on = r
         /\ Writing(r, w).rows = {r} /\ Writing(r, w).to = "idle"
         /\ Writing(r, w).work = [NoWork EXCEPT ![r] = w]
<1> DEFINE q == [Idle EXCEPT !.at = "write", !.on = r, !.rows = {r}, !.work[r] = w]
<1>1. /\ q \in Proc /\ q.at = "write" /\ q.on = r /\ q.rows = {r} /\ q.to = "idle"
      /\ q.work = [NoWork EXCEPT ![r] = w]
  BY IdleCall, NoWorkRows DEF Proc, Stages
<1> QED
  BY <1>1 DEF Writing

LEMMA CancelInv ==
  ASSUME ReqInv, NEW i \in Procs, CancelJudge(i)
  PROVE  ReqInv'
<1>1. PICK r \in Reqs :
        /\ RowFree(i, r) /\ req[r].status \in LiveStatus
        /\ Become(i, Writing(r, Cancelled(req[r])))
  BY DEF CancelJudge
<1> DEFINE w == Cancelled(req[r])
<1>2. w \in Row /\ w.batch = req[r].batch /\ w.told = req[r].told /\ Remembered(w)
  BY CallType, DecidedRow DEF Cancelled, Statuses, ReqInv, CutsRemembered
<1>3. Judging(w, req[r])
  BY <1>1, <1>2 DEF Judging, Final, LiveStatus
<1> HIDE DEF w
<1>4. Become(i, Writing(r, w)) /\ TablesKept
  BY <1>1 DEF CancelJudge, w
<1>5. /\ Writing(r, w) \in Proc /\ Writing(r, w).at = "write" /\ Writing(r, w).on = r
      /\ Writing(r, w).rows = {r} /\ Writing(r, w).to = "idle"
      /\ Writing(r, w).work = [NoWork EXCEPT ![r] = w]
  BY <1>2, WriteBegins
<1>6. RowFree(i, r)
  BY <1>1
<1> QED
  BY <1>2, <1>3, <1>4, <1>5, <1>6, OpenInv

LEMMA AddInv ==
  ASSUME ReqInv, NEW i \in Procs, AddSections(i)
  PROVE  ReqInv'
<1>1. PICK r \in Reqs, k \in Pairs :
        LET new == [req EXCEPT ![r].asg[k] = "active"]
        IN  /\ RowFree(i, r) /\ Addable(r, k)
            /\ Become(i, Writing(r, IF req[r].status = "approved" /\ Filed(new[r])
                                 THEN Cut(new, r, {k[1]}, TRUE) ELSE new[r]))
  BY DEF AddSections
<1> DEFINE new == [req EXCEPT ![r].asg[k] = "active"]
           w == IF req[r].status = "approved" /\ Filed(new[r])
                THEN Cut(new, r, {k[1]}, TRUE) ELSE new[r]
<1>2. /\ req \in [Reqs -> Row] /\ req[r] \in Row /\ Remembered(req[r])
      /\ req[r].status \in LiveStatus /\ req[r].asg[k] = "none"
  BY <1>1, CallType DEF ReqInv, CutsRemembered, Addable
<1>3. PICK x : x = [req[r] EXCEPT !.asg[k] = "active"]
  OBVIOUS
<1>4. /\ x \in Row /\ x.batch = req[r].batch /\ x.told = req[r].told
      /\ x.cut = req[r].cut /\ x.asg = [req[r].asg EXCEPT ![k] = "active"]
  BY <1>2, <1>3 DEF Row, AsgStates
<1>5. Remembered(x)
  <2>1. req[r].asg \in [Pairs -> AsgStates]
    BY <1>2 DEF Row
  <2>2. \A l \in Pairs : x.asg[l] \in {"trimmed", "dropped"}
                           <=> req[r].asg[l] \in {"trimmed", "dropped"}
    BY <1>2, <1>4, <2>1
  <2> QED
    BY <1>2, <1>4, <2>2 DEF Remembered
<1>6. new \in [Reqs -> Row] /\ new[r] = x
  BY <1>2, <1>3, <1>4
<1>7. PICK y : y = Cut(new, r, {k[1]}, TRUE)
  OBVIOUS
<1> HIDE DEF new
<1>8. y \in Row /\ y.batch = x.batch /\ y.told = x.told /\ Remembered(y)
  BY <1>5, <1>6, <1>7, CutRow
<1>9. w \in Row /\ w.batch = req[r].batch /\ w.told = req[r].told /\ Remembered(w)
  BY <1>4, <1>5, <1>6, <1>7, <1>8
<1> HIDE DEF w
<1>10. Judging(w, req[r])
  BY <1>2, <1>9 DEF Judging, Final, LiveStatus
<1>11. Become(i, Writing(r, w)) /\ TablesKept /\ RowFree(i, r)
  BY <1>1 DEF AddSections, w, new
<1>12. /\ Writing(r, w) \in Proc /\ Writing(r, w).at = "write" /\ Writing(r, w).on = r
      /\ Writing(r, w).rows = {r} /\ Writing(r, w).to = "idle"
      /\ Writing(r, w).work = [NoWork EXCEPT ![r] = w]
  BY <1>9, WriteBegins
<1> QED
  BY <1>9, <1>10, <1>11, <1>12, OpenInv

-----------------------------------------------------------------------------
(* A submission opens, and inserts its requests one by one.                  *)
LEMMA CreateInv ==
  ASSUME ReqInv, NEW i \in Procs, CreateCheck(i)
  PROVE  ReqInv'
<1>1. PICK T \in (SUBSET TAs) \ {{}}, c \in Courses :
        \E S \in (SUBSET {s \in Sections : CourseOf[s] = c}) \ {{}} :
          Become(i, [Idle EXCEPT !.at = "filing", !.left = T, !.course = c, !.secs = S])
  BY DEF CreateCheck
<1>2. PICK S \in SUBSET Sections :
        Become(i, [Idle EXCEPT !.at = "filing", !.left = T, !.course = c, !.secs = S])
  BY <1>1
<1> DEFINE p == [Idle EXCEPT !.at = "filing", !.left = T, !.course = c, !.secs = S]
<1>3. /\ p \in Proc /\ p.work = NoWork /\ p.rows = {} /\ p.to = "idle" /\ p.at = "filing"
      /\ p.left # {}
  BY <1>1, IdleCall DEF Proc, Stages
<1>4. Become(i, p)
  BY <1>2
<1> HIDE DEF p
<1>5. Wrote(p) = {} /\ Good(p, req)
  BY <1>3, NothingWrote DEF Good
<1> QED
  BY <1>3, <1>4, <1>5, MoveInv DEF CreateCheck

LEMMA FilingInv ==
  ASSUME ReqInv, NEW i \in Procs, NEW p \in Proc, Become(i, p), TablesKept,
         proc[i].at = "filing", NEW r \in Fresh, NEW w \in Row, w.status # "none",
         Remembered(w), p.at = "filing", p.rows = proc[i].rows, p.to = proc[i].to,
         p.work = [proc[i].work EXCEPT ![r] = w]
  PROVE  ReqInv'
<1>1. /\ Good(proc[i], req) /\ proc[i].work \in [Reqs -> Row]
      /\ r \in Reqs /\ req[r].status = "none"
      /\ \A j \in Procs : r \notin Wrote(proc[j])
  BY CallType DEF Fresh, Written, Wrote
<1>2. p.work[r] = w /\ \A q \in Reqs \ {r} : p.work[q] = proc[i].work[q]
  BY <1>1
<1>3. Wrote(p) = Wrote(proc[i]) \cup {r}
  BY <1>1, <1>2 DEF Wrote
<1>4. Good(p, req)
  BY <1>1, <1>2, <1>3 DEF Good
<1>5. \A j \in Procs \ {i} : p.rows \cap proc[j].rows = {} /\ Wrote(p) \cap Wrote(proc[j]) = {}
  BY <1>1, <1>3 DEF ReqInv, Separate
<1> QED
  BY <1>4, <1>5, MoveInv

LEMMA ViewRows ==
  ASSUME ReqInv, NEW i \in Procs
  PROVE  /\ View(i) \in [Reqs -> Row]
         /\ \A r \in Reqs : View(i)[r] = IF r \in Wrote(proc[i]) THEN proc[i].work[r] ELSE req[r]
         /\ \A r \in Reqs : Remembered(View(i)[r])
         /\ \A r \in Reqs : req[r].status # "none" => View(i)[r].status # "none"
         /\ \A j \in Procs \ {i} : \A r \in Wrote(proc[j]) : View(i)[r] = req[r]
<1>1. Good(proc[i], req) /\ proc[i].work \in [Reqs -> Row] /\ req \in [Reqs -> Row]
  BY CallType
<1>2. \A r \in Reqs : View(i)[r] = IF r \in Wrote(proc[i]) THEN proc[i].work[r] ELSE req[r]
  BY DEF View, Written, Wrote
<1>3. View(i) \in [Reqs -> Row]
  BY <1>1 DEF View
<1>4. \A r \in Reqs : Remembered(View(i)[r])
  BY <1>1, <1>2 DEF Good, ReqInv, CutsRemembered
<1>5. \A r \in Reqs : req[r].status # "none" => View(i)[r].status # "none"
  BY <1>2 DEF Wrote
<1>6. \A j \in Procs \ {i} : \A r \in Wrote(proc[j]) : View(i)[r] = req[r]
  <2>1. \A j \in Procs : Wrote(proc[j]) \subseteq Reqs
    BY DEF Wrote
  <2> QED
    BY <1>2, <2>1 DEF ReqInv, Separate
<1> QED
  BY <1>2, <1>3, <1>4, <1>5, <1>6

LEMMA FileInv ==
  ASSUME ReqInv, NEW i \in Procs, FileOne(i)
  PROVE  ReqInv'
<1> DEFINE t == Least(proc[i].left)
           r == Least(Fresh)
           b == Least(Written(i) \cup {r})
<1>1. /\ proc[i] \in Proc /\ proc[i].at = "filing" /\ proc[i].work \in [Reqs -> Row]
      /\ proc[i].left \in SUBSET TAs /\ proc[i].left # {} /\ TablesKept
  BY CallType DEF FileOne, Proc
<1>2. t \in TAs
  <2>1. proc[i].left \in SUBSET Nat
    BY <1>1, ConstantsAssumption
  <2> QED
    BY <1>1, <2>1, LeastIn
<1>3. r \in Fresh /\ r \in Reqs
  <2>1. Fresh \in SUBSET Nat /\ Fresh \subseteq Reqs /\ Fresh # {}
    BY ConstantsAssumption DEF Fresh, FileOne
  <2> QED
    BY <2>1, LeastIn
<1>4. b \in Reqs
  <2>1. Written(i) \cup {r} \subseteq Reqs
    BY <1>3 DEF Written
  <2>2. Written(i) \cup {r} \in SUBSET Nat
    BY <2>1, ConstantsAssumption
  <2> QED
    BY <2>1, <2>2, LeastIn
<1>5. PICK d \in Duties :
        LET new  == [Blank EXCEPT !.status = "submitted", !.course = proc[i].course,
                         !.batch = b, !.sound = d[1], !.off = d[2],
                         !.asg = [k \in Pairs |-> IF k[1] = t /\ k[2] \in proc[i].secs
                                                  THEN "active" ELSE "none"]]
            v    == [View(i) EXCEPT ![r] = new]
        IN  IF table[t] = Unfiled
            THEN Become(i, [proc[i] EXCEPT !.left = @ \ {t}, !.work[r] = new])
            ELSE /\ LocksFree(i, {t})
                 /\ Become(i, [proc[i] EXCEPT !.left = @ \ {t}, !.locks = @ \cup {t},
                                              !.work[r] = Verdict(v, r)])
  BY DEF FileOne
<1> HIDE DEF t, r, b
<1> DEFINE asg == [k \in Pairs |-> IF k[1] = t /\ k[2] \in proc[i].secs THEN "active" ELSE "none"]
           new == [Blank EXCEPT !.status = "submitted", !.course = proc[i].course,
                         !.batch = b, !.sound = d[1], !.off = d[2], !.asg = asg]
           v   == [View(i) EXCEPT ![r] = new]
           w   == Verdict(v, r)
           p   == [proc[i] EXCEPT !.left = @ \ {t}, !.work[r] = new]
           q   == [proc[i] EXCEPT !.left = @ \ {t}, !.locks = @ \cup {t}, !.work[r] = w]
<1>6. Become(i, p) \/ Become(i, q)
  BY <1>5
<1>7. asg \in [Pairs -> AsgStates] /\ \A k \in Pairs : asg[k] \notin {"trimmed", "dropped"}
  BY DEF AsgStates
<1>8. d[1] \in BOOLEAN /\ d[2] \in BOOLEAN /\ proc[i].course \in Courses \cup {Nobody}
  BY <1>1, ConstantsAssumption DEF Proc
<1> HIDE DEF asg
<1>9. /\ new \in Row /\ new.status = "submitted" /\ new.asg = asg /\ new.cut = {}
  BY <1>4, <1>7, <1>8, BlankRow DEF Blank, Row, Statuses
<1>10. Remembered(new)
  BY <1>7, <1>9 DEF Remembered
<1> HIDE DEF new
<1>11. v \in [Reqs -> Row] /\ v[r] = new
  BY <1>3, <1>9, ViewRows
<1> HIDE DEF v
<1>12. w \in Row /\ w.status # "none" /\ Remembered(w)
  BY <1>3, <1>10, <1>11, VerdictRow
<1> HIDE DEF w
<1>13. /\ p \in Proc /\ p.at = "filing" /\ p.rows = proc[i].rows /\ p.to = proc[i].to
       /\ p.work = [proc[i].work EXCEPT ![r] = new]
  BY <1>1, <1>3, <1>9 DEF Proc
<1>14. /\ q \in Proc /\ q.at = "filing" /\ q.rows = proc[i].rows /\ q.to = proc[i].to
       /\ q.work = [proc[i].work EXCEPT ![r] = w]
  BY <1>1, <1>2, <1>3, <1>12 DEF Proc
<1> HIDE DEF p, q
<1>15. CASE Become(i, p)
  BY <1>1, <1>3, <1>9, <1>10, <1>13, <1>15, FilingInv
<1>16. CASE Become(i, q)
  BY <1>1, <1>3, <1>12, <1>14, <1>16, FilingInv
<1> QED
  BY <1>6, <1>15, <1>16

-----------------------------------------------------------------------------
(* A digest locks the rows of its submission and finds which it must tell.   *)
LEMMA FlushInv ==
  ASSUME ReqInv, NEW i \in Procs, FlushRead(i)
  PROVE  ReqInv'
<1> DEFINE b == proc[i].on
<1>1. /\ proc[i] \in Proc /\ proc[i].to \in {"idle", "refiled", "recheck"}
      /\ TablesKept /\ req \in [Reqs -> Row]
  BY CallType DEF Good, FlushRead
<1>2. CASE Become(i, Done(i))
  BY <1>2, <1>1, DoneInv
<1>3. CASE ~Become(i, Done(i))
  <2> DEFINE work == [r \in Reqs |-> IF r \in Untold(b) THEN [req[r] EXCEPT !.told = TRUE] ELSE Blank]
             p == [proc[i] EXCEPT !.at = "mark", !.rows = Batch(b), !.work = work]
  <2>1. b # Nobody /\ BatchFree(i, b) /\ Become(i, p)
    BY <1>3 DEF FlushRead
  <2>2. /\ Untold(b) \subseteq Batch(b) /\ Batch(b) \in SUBSET Reqs
        /\ \A r \in Batch(b) : req[r].batch = b
        /\ \A r \in Untold(b) : req[r].status # "none" /\ ~req[r].told
    BY DEF Untold, Batch
  <2>3. ASSUME NEW r \in Untold(b)
        PROVE  /\ work[r] \in Row /\ Telling(work[r], req[r]) /\ Remembered(work[r])
               /\ work[r].status # "none"
    <3>1. r \in Reqs /\ req[r] \in Row /\ Remembered(req[r])
      BY <1>1, <2>2 DEF ReqInv, CutsRemembered
    <3>2. work[r] = [req[r] EXCEPT !.told = TRUE]
      BY <3>1
    <3> HIDE DEF work
    <3>3. /\ work[r] \in Row /\ work[r].told /\ work[r].status = req[r].status
          /\ work[r].batch = req[r].batch /\ work[r].asg = req[r].asg /\ work[r].cut = req[r].cut
      BY <3>1, <3>2 DEF Row
    <3>4. Telling(work[r], req[r])
      BY <2>1, <2>2, <3>3 DEF Telling
    <3> QED
      BY <2>2, <3>1, <3>3, <3>4 DEF Remembered
  <2>4. \A r \in Reqs \ Untold(b) : work[r] = Blank
    OBVIOUS
  <2>5. work \in [Reqs -> Row] /\ \A r \in Reqs : Remembered(work[r])
    <3>1. \A r \in Reqs : work[r] \in Row /\ Remembered(work[r])
      BY <2>3, <2>4, BlankRow
    <3> QED
      BY <3>1
  <2> HIDE DEF work, b
  <2>6. /\ p \in Proc /\ p.at = "mark" /\ p.rows = Batch(b) /\ p.work = work
        /\ p.to = proc[i].to
    BY <1>1, <2>2, <2>5 DEF Proc, Stages
  <2> HIDE DEF p
  <2>7. Wrote(p) \subseteq Untold(b)
    BY <2>4, <2>6, BlankRow DEF Wrote
  <2>8. Good(p, req)
    BY <1>1, <2>2, <2>3, <2>5, <2>6, <2>7 DEF Good
  <2>9. \A j \in Procs \ {i} : Batch(b) \cap proc[j].rows = {}
    BY <2>1 DEF BatchFree, RowFree
  <2>10. \A r \in Untold(b) : \A j \in Procs \ {i} : r \notin Wrote(proc[j])
    BY <2>1, <2>2, RowUnwritten DEF BatchFree
  <2> QED
    BY <1>1, <2>1, <2>6, <2>7, <2>8, <2>9, <2>10, MoveInv
<1> QED
  BY <1>2, <1>3

-----------------------------------------------------------------------------
(* What a step may not do to a final verdict.                                *)
Stands == \A r \in Reqs : Final(req[r]) => req'[r].status = req[r].status

(* A transaction commits the rows it has written.                            *)
LEMMA ViewInv ==
  ASSUME ReqInv, NEW i \in Procs, NEW p \in Proc, Become(i, p), req' = View(i),
         UNCHANGED <<cap, table, logged, issued, overdue>>, heard' \in [Reqs -> Nat], ToldOnes',
         p.work = NoWork, p.rows = {}, p.to \in {"idle", "refiled", "recheck"},
         p.at \in {"idle", "refiled", "recheck", "tell", "hush"},
         p.at = "hush" => p.on \in Reqs /\ View(i)[p.on].status # "none"
  PROVE  ReqInv' /\ Stands
<1>1. Wrote(p) = {} /\ Good(p, req')
  BY NothingWrote DEF Good
<1>2. Tables' /\ CutsRemembered' /\ Framed(i)
  BY ViewRows DEF ReqInv, Tables, CutsRemembered, Framed
<1>3. ReqInv'
  BY <1>1, <1>2, StepInv
<1>4. Stands
  <2> SUFFICES ASSUME NEW r \in Reqs, Final(req[r]) PROVE View(i)[r].status = req[r].status
    BY DEF Stands
  <2>1. Good(proc[i], req)
    BY CallType
  <2>2. r \in Wrote(proc[i]) => proc[i].at \in {"filing", "write", "mark"}
    BY <2>1, NothingWrote DEF Good
  <2>3. r \in Wrote(proc[i]) => proc[i].work[r].status = req[r].status
    BY <2>1, <2>2 DEF Good, Judging, Telling, Final
  <2> QED
    BY <2>3, ViewRows
<1> QED
  BY <1>3, <1>4

LEMMA CreateCommitInv ==
  ASSUME ReqInv, NEW i \in Procs, CreateCommit(i)
  PROVE  ReqInv' /\ Stands
<1> DEFINE b == Least(Written(i))
           p == [Idle EXCEPT !.at = "tell", !.on = b]
<1>1. Good(proc[i], req) /\ Written(i) = Wrote(proc[i]) /\ Written(i) # {}
  BY CallType DEF Good, CreateCommit, Written, Wrote
<1>2. b \in Reqs
  <2>1. Written(i) \in SUBSET Nat /\ Written(i) \subseteq Reqs
    BY ConstantsAssumption DEF Written
  <2> QED
    BY <1>1, <2>1, LeastIn
<1>3. Become(i, p) /\ req' = View(i) /\ UNCHANGED <<cap, table, logged, issued, overdue, heard>>
  BY DEF CreateCommit
<1> HIDE DEF b
<1>4. p \in Proc /\ p.work = NoWork /\ p.rows = {} /\ p.to = "idle" /\ p.at = "tell"
  BY <1>2, IdleCall DEF Proc, Stages
<1> HIDE DEF p
<1>5. heard \in [Reqs -> Nat] /\ ToldOnes'
  <2>1. \A r \in Wrote(proc[i]) : req[r].status = "none"
    BY <1>1 DEF Good, CreateCommit
  <2>2. \A r \in Reqs : heard[r] = 1 => View(i)[r] = req[r]
    BY <2>1, ViewRows DEF ReqInv, ToldOnes
  <2> QED
    BY <1>3, <2>2 DEF ReqInv, Tables, ToldOnes
<1> QED
  BY <1>3, <1>4, <1>5, ViewInv

LEMMA CommitInv ==
  ASSUME ReqInv, NEW i \in Procs, Commit(i)
  PROVE  ReqInv' /\ Stands
<1> DEFINE r == proc[i].on
           w == proc[i].work[r]
           same == w.status = req[r].status \/ w.status = "cancelled"
           held == proc[i].quiet /\ w.status # "approved"
           at == IF same THEN Done(i).at ELSE IF held THEN "hush" ELSE "tell"
           on == IF same THEN Done(i).on ELSE IF held THEN r ELSE w.batch
           p == [Released(i) EXCEPT !.at = at, !.on = on]
<1>1. /\ proc[i] \in Proc /\ Good(proc[i], req) /\ r \in Reqs /\ w \in Row
      /\ proc[i].at = "write" /\ proc[i].to \in {"idle", "refiled", "recheck"}
  BY CallType DEF Good, Commit
<1>2. Become(i, p) /\ req' = View(i) /\ UNCHANGED <<cap, table, logged, issued, overdue, heard>>
  BY DEF Commit
<1>3. /\ Released(i) \in Proc /\ Released(i).to = proc[i].to
      /\ Released(i).work = NoWork /\ Released(i).rows = {}
  BY <1>1, NoWorkRows DEF Released, Proc
<1>4. w.batch \in Reqs \cup {Nobody}
  BY <1>1 DEF Row
<1>5. Done(i).at \in {"idle", "refiled", "recheck"} /\ Done(i).on \in Reqs \cup {Nobody}
  BY DoneCall DEF Proc
<1>6. /\ at \in {"idle", "refiled", "recheck", "tell", "hush"}
      /\ on \in Reqs \cup {Nobody}
      /\ at = "hush" => ~same /\ on = r
  BY <1>1, <1>4, <1>5
<1>7. ~same => View(i)[r].status # "none"
  BY <1>1, ViewRows DEF Wrote
<1> HIDE DEF at, on, same
<1>8. /\ p \in Proc /\ p.work = NoWork /\ p.rows = {} /\ p.to = proc[i].to
      /\ p.at = at /\ p.on = on
  <2> HIDE DEF Released
  <2> QED
    BY <1>3, <1>6 DEF Proc, Stages
<1> HIDE DEF p, r
<1>9. p.at = "hush" => p.on \in Reqs /\ View(i)[p.on].status # "none"
  BY <1>1, <1>6, <1>7, <1>8
<1>10. heard' \in [Reqs -> Nat] /\ ToldOnes'
  <2>1. \A q \in Wrote(proc[i]) : /\ proc[i].work[q].batch = req[q].batch
                                  /\ proc[i].work[q].told = req[q].told
                                  /\ proc[i].work[q].status # "none"
    BY <1>1 DEF Good, Judging, Wrote
  <2>2. \A q \in Reqs : /\ View(i)[q].batch = req[q].batch /\ View(i)[q].told = req[q].told
                        /\ req[q].status # "none" => View(i)[q].status # "none"
    BY <2>1, ViewRows
  <2> QED
    BY <1>2, <2>2 DEF ReqInv, Tables, ToldOnes
<1> QED
  BY <1>1, <1>2, <1>6, <1>8, <1>9, <1>10, ViewInv

LEMMA MarkInv ==
  ASSUME ReqInv, NEW i \in Procs, FlushMark(i)
  PROVE  ReqInv' /\ Stands
<1>1. Good(proc[i], req) /\ proc[i].at = "mark" /\ Written(i) = Wrote(proc[i])
  BY CallType DEF FlushMark, Written, Wrote
<1>2. /\ req' = View(i) /\ Become(i, Done(i)) /\ UNCHANGED <<cap, table, logged, issued, overdue>>
      /\ heard' = [r \in Reqs |-> IF r \in Wrote(proc[i]) THEN heard[r] + 1 ELSE heard[r]]
  BY <1>1 DEF FlushMark
<1>3. heard \in [Reqs -> Nat] /\ heard' \in [Reqs -> Nat]
  BY <1>2 DEF ReqInv, Tables
<1>4. ASSUME NEW r \in Reqs
      PROVE  /\ heard'[r] \in {0, 1}
             /\ heard'[r] = 1 => /\ View(i)[r].told /\ View(i)[r].batch # Nobody
                                 /\ View(i)[r].status # "none"
  <2>1. /\ heard[r] \in {0, 1}
        /\ heard[r] = 1 => req[r].told /\ req[r].batch # Nobody /\ req[r].status # "none"
    BY DEF ReqInv, ToldOnes
  <2>2. CASE r \in Wrote(proc[i])
    <3>1. Telling(proc[i].work[r], req[r]) /\ View(i)[r] = proc[i].work[r]
      BY <1>1, <2>2, ViewRows DEF Good
    <3>2. heard[r] = 0 /\ heard'[r] = 1
      BY <1>2, <2>1, <2>2, <3>1 DEF Telling
    <3> QED
      BY <3>1, <3>2 DEF Telling
  <2>3. CASE r \notin Wrote(proc[i])
    BY <1>2, <2>1, <2>3, ViewRows
  <2> QED
    BY <2>2, <2>3
<1>5. ToldOnes'
  BY <1>2, <1>4 DEF ToldOnes
<1>6. PICK p : p = Done(i)
  OBVIOUS
<1> QED
  BY <1>2, <1>3, <1>5, <1>6, DoneCall, ViewInv

LEMMA HushInv ==
  ASSUME ReqInv, NEW i \in Procs, Hush(i)
  PROVE  ReqInv' /\ Stands
<1> DEFINE r == proc[i].on
           x == [req[r] EXCEPT !.told = TRUE]
<1>1. /\ r \in Reqs /\ req[r].status # "none" /\ RowFree(i, r)
      /\ req \in [Reqs -> Row] /\ Become(i, Done(i))
      /\ req' = [req EXCEPT ![r].told = TRUE]
      /\ UNCHANGED <<cap, table, logged, issued, overdue, heard>>
  BY CallType DEF Good, Hush
<1>2. /\ x \in Row /\ x.told /\ x.status = req[r].status /\ x.batch = req[r].batch
      /\ x.cut = req[r].cut /\ x.asg = req[r].asg
  <2>1. req[r] \in Row
    BY <1>1
  <2>2. PICK y : y = req[r]
    OBVIOUS
  <2>3. [y EXCEPT !.told = TRUE] \in Row
    BY <2>1, <2>2 DEF Row
  <2>4. LET z == [y EXCEPT !.told = TRUE]
        IN  /\ z.told /\ z.status = y.status /\ z.batch = y.batch
            /\ z.cut = y.cut /\ z.asg = y.asg
    BY <2>1, <2>2 DEF Row
  <2> QED
    BY <2>2, <2>3, <2>4
<1>3. req' = [req EXCEPT ![r] = x]
  BY <1>1
<1> HIDE DEF x
<1>4. /\ req' \in [Reqs -> Row] /\ req'[r] = x
      /\ \A q \in Reqs \ {r} : req'[q] = req[q]
  BY <1>1, <1>2, <1>3
<1>5. Tables'
  BY <1>1, <1>4 DEF ReqInv, Tables
<1>6. Remembered(x)
  BY <1>1, <1>2 DEF ReqInv, CutsRemembered, Remembered
<1>7. CutsRemembered'
  BY <1>4, <1>6 DEF ReqInv, CutsRemembered
<1>8. ToldOnes'
  BY <1>1, <1>2, <1>4 DEF ReqInv, ToldOnes
<1>9. Framed(i)
  <2>1. \A j \in Procs \ {i} : r \notin Wrote(proc[j])
    BY <1>1, RowUnwritten
  <2>2. \A j \in Procs : Wrote(proc[j]) \subseteq Reqs
    BY DEF Wrote
  <2> QED
    BY <1>2, <1>4, <2>1, <2>2 DEF Framed
<1>10. PICK p : p = Done(i)
  OBVIOUS
<1>11. Wrote(p) = {} /\ Good(p, req')
  BY <1>10, DoneCall, NothingWrote DEF Good
<1>12. ReqInv'
  BY <1>1, <1>5, <1>7, <1>8, <1>9, <1>10, <1>11, DoneCall, StepInv
<1> QED
  BY <1>2, <1>4, <1>12 DEF Stands

(* Steps that begin no transaction and finish none.                          *)
LEMMA TableInv ==
  ASSUME ReqInv, NEW i \in Procs, SaveTimetable(i)
  PROVE  ReqInv' /\ Stands
<1>1. PICK t \in TAs, tt \in Timetables \cup {Unfiled} :
        /\ table' = [table EXCEPT ![t] = tt]
        /\ Become(i, [Idle EXCEPT !.at = "listed", !.to = "refiled", !.ta = t])
  BY DEF SaveTimetable
<1> DEFINE p == [Idle EXCEPT !.at = "listed", !.to = "refiled", !.ta = t]
<1>2. p \in Proc /\ p.work = NoWork /\ p.rows = {} /\ p.to = "refiled" /\ p.at = "listed"
  BY IdleCall DEF Proc, Stages
<1>3. UNCHANGED <<req, cap, logged, issued, overdue, heard>>
  BY DEF SaveTimetable
<1>4. Become(i, p)
  BY <1>1
<1> HIDE DEF p
<1>5. Tables' /\ ToldOnes' /\ CutsRemembered' /\ Framed(i)
  BY <1>1, <1>3 DEF ReqInv, Tables, ToldOnes, CutsRemembered, Framed
<1>6. Wrote(p) = {} /\ Good(p, req')
  BY <1>2, NothingWrote DEF Good
<1>7. ReqInv'
  BY <1>2, <1>4, <1>5, <1>6, StepInv
<1> QED
  BY <1>3, <1>7 DEF Stands

LEMMA AroundInv ==
  ASSUME ReqInv, UNCHANGED proc, Tables', ToldOnes', CutsRemembered',
         \A r \in Reqs : req[r].status # "none" => req'[r].status # "none",
         \A j \in Procs : \A r \in Wrote(proc[j]) : req'[r] = req[r]
  PROVE  ReqInv'
<1>1. \A j \in Procs : Good(proc[j], req')
  BY GoodFrame DEF ReqInv, Calls
<1> QED
  BY <1>1 DEF ReqInv, Calls, Separate, Wrote

LEMMA DutiesInv ==
  ASSUME ReqInv, NEW r \in Reqs, SetDuties(r)
  PROVE  ReqInv' /\ Stands
<1> DEFINE x == [req[r] EXCEPT !.off = ~@]
<1>1. req \in [Reqs -> Row]
  BY DEF ReqInv, Tables
<1>2. /\ UNCHANGED <<cap, table, logged, issued, overdue, heard, proc>>
      /\ req' = [req EXCEPT ![r] = x] /\ \A j \in Procs : r \notin Wrote(proc[j])
  BY DEF SetDuties, Written, Wrote
<1>3. /\ x \in Row /\ x.told = req[r].told /\ x.status = req[r].status
      /\ x.batch = req[r].batch /\ x.cut = req[r].cut /\ x.asg = req[r].asg
  BY <1>1 DEF Row
<1> HIDE DEF x
<1>4. /\ req' \in [Reqs -> Row] /\ req'[r] = x
      /\ \A q \in Reqs \ {r} : req'[q] = req[q]
  BY <1>1, <1>2, <1>3
<1>5. Tables' /\ ToldOnes'
  BY <1>2, <1>3, <1>4 DEF ReqInv, Tables, ToldOnes
<1>6. Remembered(x)
  BY <1>3 DEF ReqInv, CutsRemembered, Remembered
<1>7. CutsRemembered'
  BY <1>4, <1>6 DEF ReqInv, CutsRemembered
<1>8. \A j \in Procs : Wrote(proc[j]) \subseteq Reqs
  BY DEF Wrote
<1>9. /\ \A q \in Reqs : req[q].status # "none" => req'[q].status # "none"
      /\ \A j \in Procs : \A q \in Wrote(proc[j]) : req'[q] = req[q]
  BY <1>2, <1>3, <1>4, <1>8
<1>10. ReqInv'
  BY <1>2, <1>5, <1>7, <1>9, AroundInv
<1> QED
  BY <1>3, <1>4, <1>10 DEF Stands

LEMMA OutsideInv ==
  ASSUME ReqInv,
         \/ \E r \in Reqs, k \in Pairs : LogWork(r, k)
         \/ \E t \in TAs, c \in Courses, p \in Papers : Issue(t, c, p)
         \/ \E b \in Reqs : Day(b)
  PROVE  ReqInv' /\ Stands
<1>1. UNCHANGED <<req, cap, table, heard, proc>>
  BY DEF LogWork, Issue, Day
<1>2. /\ logged' \subseteq Reqs \X Pairs
      /\ issued' \subseteq TAs \X Courses \X Papers /\ overdue' \subseteq Reqs
  BY DEF LogWork, Issue, Day, ReqInv, Tables
<1>3. Tables' /\ ToldOnes' /\ CutsRemembered'
  BY <1>1, <1>2 DEF ReqInv, Tables, ToldOnes, CutsRemembered
<1>4. ReqInv'
  BY <1>1, <1>3, AroundInv
<1> QED
  BY <1>1, <1>4 DEF Stands

LEMMA PartRow ==
  ASSUME NEW old \in Row, Remembered(old), NEW r \in Reqs, NEW t
  PROVE  /\ Part(old, r, t) \in Row /\ Remembered(Part(old, r, t))
         /\ Part(old, r, t).status # "none"
<1> DEFINE asg == [k \in Pairs |-> IF k[1] = t THEN old.asg[k] ELSE "none"]
           cut == {k \in old.cut : k[1] = t}
           x   == [old EXCEPT !.status = "submitted", !.why = "", !.batch = r, !.told = FALSE,
                              !.asg = asg, !.cut = cut]
<1>1. old.asg \in [Pairs -> AsgStates] /\ old.cut \subseteq Pairs
  BY DEF Row
<1>2. asg \in [Pairs -> AsgStates] /\ cut \in SUBSET Pairs
  BY <1>1 DEF AsgStates
<1>3. cut = {k \in Pairs : asg[k] \in {"trimmed", "dropped"}}
  BY <1>1 DEF Remembered
<1> HIDE DEF asg, cut
<1>4. x \in Row /\ x.asg = asg /\ x.cut = cut /\ x.status = "submitted"
  BY <1>2 DEF Row, Statuses
<1>5. x = Part(old, r, t)
  BY DEF Part, asg, cut
<1> HIDE DEF x
<1> QED
  BY <1>3, <1>4, <1>5 DEF Remembered

LEMMA SplitInv ==
  ASSUME ReqInv, NEW i \in Procs, SplitLegacy(i)
  PROVE  ReqInv' /\ Stands
<1>1. PICK r \in Reqs :
        /\ RowFree(i, r) /\ Splittable(r)
        /\ LET rest == Staff(req[r]) \ {Least(Staff(req[r]))} IN
           \E ids \in [rest -> Fresh] :
              /\ req' = [q \in Reqs |->
                           IF q = r THEN Part(req[r], r, Least(Staff(req[r])))
                           ELSE IF \E t \in rest : ids[t] = q
                           THEN Part(req[r], r, CHOOSE t \in rest : ids[t] = q)
                           ELSE req[q]]
              /\ Become(i, [Idle EXCEPT !.at = "refiled", !.quiet = TRUE,
                              !.todo = {r} \cup {ids[t] : t \in rest}])
  BY DEF SplitLegacy
<1> DEFINE rest == Staff(req[r]) \ {Least(Staff(req[r]))}
<1>2. PICK ids \in [rest -> Fresh] :
        /\ req' = [q \in Reqs |->
                     IF q = r THEN Part(req[r], r, Least(Staff(req[r])))
                     ELSE IF \E t \in rest : ids[t] = q
                     THEN Part(req[r], r, CHOOSE t \in rest : ids[t] = q)
                     ELSE req[q]]
        /\ Become(i, [Idle EXCEPT !.at = "refiled", !.quiet = TRUE,
                        !.todo = {r} \cup {ids[t] : t \in rest}])
  BY <1>1
<1> DEFINE new  == {ids[t] : t \in rest}
           todo == {r} \cup new
           p    == [Idle EXCEPT !.at = "refiled", !.quiet = TRUE, !.todo = todo]
<1>3. /\ UNCHANGED <<cap, table, logged, issued, overdue, heard>>
      /\ req \in [Reqs -> Row] /\ Remembered(req[r]) /\ Become(i, p)
  BY <1>2, CallType DEF SplitLegacy, ReqInv, CutsRemembered
<1>4. /\ new \subseteq Fresh /\ new \subseteq Reqs
      /\ \A q \in new : req[q].status = "none" /\ \A j \in Procs : q \notin Wrote(proc[j])
  BY <1>2 DEF Fresh, Written, Wrote
<1>5. /\ \A t : /\ Part(req[r], r, t) \in Row /\ Remembered(Part(req[r], r, t))
                /\ Part(req[r], r, t).status # "none"
  BY <1>3, PartRow
<1>6. /\ req' \in [Reqs -> Row]
      /\ \A q \in Reqs : Remembered(req'[q])
      /\ \A q \in todo : req'[q].status # "none"
      /\ \A q \in Reqs \ todo : req'[q] = req[q]
  <2>1. \A q \in Reqs : \/ q \in todo /\ \E t : req'[q] = Part(req[r], r, t)
                        \/ q \notin todo /\ req'[q] = req[q]
    BY <1>2
  <2>2. req' = [q \in Reqs |-> req'[q]]
    BY <1>2
  <2> HIDE DEF todo, rest
  <2>3. \A q \in Reqs : req'[q] \in Row /\ Remembered(req'[q])
    BY <1>3, <1>5, <2>1 DEF ReqInv, CutsRemembered
  <2>4. todo \subseteq Reqs
    BY <1>4 DEF todo
  <2>5. \A q \in todo : req'[q].status # "none"
    BY <1>5, <2>1, <2>4
  <2>6. req' \in [Reqs -> Row]
    BY <2>2, <2>3
  <2> QED
    BY <2>1, <2>3, <2>5, <2>6
<1> HIDE DEF new
<1>7. p \in Proc /\ p.work = NoWork /\ p.rows = {} /\ p.to = "idle" /\ p.at = "refiled"
  BY <1>4, IdleCall DEF Proc, Stages
<1> HIDE DEF p, rest
<1>8. /\ req[r].status \in {"submitted", "rejected"} /\ req[r].batch = Nobody
  BY <1>1 DEF Splittable
<1>9. \A q \in todo : q \in Reqs /\ ~Final(req[q]) /\ heard[q] = 0
  <2>1. \A q \in todo : q \in Reqs /\ ~Final(req[q])
    BY <1>4, <1>8 DEF Final
  <2>2. \A q \in todo : heard[q] = 0
    BY <1>4, <1>8 DEF ReqInv, ToldOnes
  <2> QED
    BY <2>1, <2>2
<1>10. \A j \in Procs \ {i} : \A q \in todo : q \notin Wrote(proc[j])
  BY <1>1, <1>4, <1>8, RowUnwritten
<1> HIDE DEF todo
<1>11. Tables' /\ CutsRemembered'
  BY <1>3, <1>6 DEF ReqInv, Tables, CutsRemembered
<1>12. ToldOnes'
  BY <1>3, <1>6, <1>9 DEF ReqInv, ToldOnes
<1>13. Framed(i)
  <2>1. \A j \in Procs : Wrote(proc[j]) \subseteq Reqs
    BY DEF Wrote
  <2> QED
    BY <1>6, <1>10, <2>1 DEF Framed
<1>14. Wrote(p) = {} /\ Good(p, req')
  BY <1>7, NothingWrote DEF Good
<1>15. ReqInv'
  BY <1>3, <1>7, <1>11, <1>12, <1>13, <1>14, StepInv
<1> QED
  BY <1>6, <1>9, <1>15 DEF Stands

-----------------------------------------------------------------------------
LEMMA InitInv == Init => ReqInv
<1> SUFFICES ASSUME Init PROVE ReqInv
  OBVIOUS
<1>1. PICK rec \in Legacy : req = [r \in Reqs |-> IF r = Least(Reqs) THEN rec ELSE Blank]
  BY DEF Init
<1>2. rec \in Row /\ Remembered(rec)
  BY ConstantsAssumption
<1>3. req \in [Reqs -> Row] /\ \A r \in Reqs : Remembered(req[r])
  BY <1>1, <1>2, BlankRow
<1>4. Tables /\ ToldOnes /\ CutsRemembered
  BY <1>3 DEF Init, Tables, ToldOnes, CutsRemembered
<1>5. Wrote(Idle) = {} /\ Good(Idle, req)
  BY IdleCall, NothingWrote DEF Good
<1>6. \A j \in Procs : proc[j] = Idle
  BY DEF Init
<1>7. Calls
  BY <1>5, <1>6, IdleCall DEF Init, Calls
<1>8. Separate
  BY <1>5, <1>6, IdleCall DEF Separate
<1> QED
  BY <1>4, <1>7, <1>8 DEF ReqInv

LEMMA KeptStands ==
  ASSUME TablesKept
  PROVE  Stands
  BY DEF TablesKept, Stands

LEMMA NextInv == ReqInv /\ [Next]_vars => ReqInv' /\ Stands
<1> SUFFICES ASSUME ReqInv, [Next]_vars PROVE ReqInv' /\ Stands
  OBVIOUS
<1>1. CASE UNCHANGED vars
  <2>1. Tables' /\ ToldOnes' /\ CutsRemembered' /\ UNCHANGED <<proc, req>>
    BY <1>1 DEF vars, ReqInv, Tables, ToldOnes, CutsRemembered
  <2> QED
    BY <2>1, AroundInv DEF Stands
<1>2. CASE \E i \in Procs : Begin(i)
  <2>1. PICK i \in Procs : Begin(i)
    BY <1>2
  <2>2. CASE CreateCheck(i)
    BY <2>2, CreateInv, KeptStands DEF CreateCheck
  <2>3. CASE SaveTimetable(i)
    BY <2>3, TableInv
  <2>4. CASE CancelJudge(i)
    BY <2>4, CancelInv, KeptStands DEF CancelJudge
  <2>5. CASE AddSections(i)
    BY <2>5, AddInv, KeptStands DEF AddSections
  <2>6. CASE SweepFinalize(i)
    BY <2>6, BeginInv, KeptStands DEF SweepFinalize
  <2>7. CASE SweepDigest(i)
    BY <2>7, BeginInv, KeptStands DEF SweepDigest
  <2>8. CASE SplitLegacy(i)
    BY <2>8, SplitInv
  <2> QED
    BY <2>1, <2>2, <2>3, <2>4, <2>5, <2>6, <2>7, <2>8 DEF Begin
<1>3. CASE \E i \in Procs : Proceed(i)
  <2>1. PICK i \in Procs : Proceed(i)
    BY <1>3
  <2>2. CASE FileOne(i)
    BY <2>2, FileInv, KeptStands DEF FileOne
  <2>3. CASE CreateCommit(i)
    BY <2>3, CreateCommitInv
  <2>4. CASE ListedFinalize(i) \/ ListSubmitted(i) \/ ListDecided(i)
    BY <2>4, ListInv, KeptStands DEF ListedFinalize, ListSubmitted, ListDecided
  <2>5. CASE FinalizeJudge(i)
    BY <2>5, JudgeInv, KeptStands DEF FinalizeJudge
  <2>6. CASE Commit(i)
    BY <2>6, CommitInv
  <2>7. CASE Hush(i)
    BY <2>7, HushInv
  <2>8. CASE FlushRead(i)
    BY <2>8, FlushInv, KeptStands DEF FlushRead
  <2>9. CASE FlushMark(i)
    BY <2>9, MarkInv
  <2>10. CASE RecheckNext(i)
    BY <2>10, RecheckInv, KeptStands DEF RecheckNext
  <2> QED
    BY <2>1, <2>2, <2>3, <2>4, <2>5, <2>6, <2>7, <2>8, <2>9, <2>10 DEF Proceed
<1>4. CASE Around
  <2>1. CASE \E r \in Reqs : SetDuties(r)
    BY <2>1, DutiesInv
  <2>2. CASE \E i \in Procs : Crash(i)
    <3>1. PICK i \in Procs : Crash(i)
      BY <2>2
    <3> QED
      BY <3>1, BeginInv, KeptStands DEF Crash
  <2>3. CASE ~(\E r \in Reqs : SetDuties(r)) /\ ~(\E i \in Procs : Crash(i))
    BY <1>4, <2>3, OutsideInv DEF Around
  <2> QED
    BY <2>1, <2>2, <2>3
<1> QED
  BY <1>1, <1>2, <1>3, <1>4 DEF Next

LEMMA InvAlways == Spec => []ReqInv
  BY InitInv, NextInv, PTL DEF Spec

(* The rows, the calls and what the calls hold keep their types.             *)
THEOREM RequestsTyped == Spec => []TypeOK
<1>1. ReqInv => TypeOK
  BY DEF ReqInv, Tables, Calls, TypeOK
<1> QED
  BY <1>1, InvAlways, PTL

(* What a clash took from an assignment can always be given back.            *)
THEOREM CutsAreRemembered == Spec => []CutsRemembered
<1>1. ReqInv => CutsRemembered
  BY DEF ReqInv
<1> QED
  BY <1>1, InvAlways, PTL

(* No verdict is told in two digests, whatever flushes a submission at once. *)
THEOREM VerdictsToldOnce == Spec => []ToldOnce
<1>1. ReqInv => ToldOnce
  BY DEF ReqInv, ToldOnes, ToldOnce
<1> QED
  BY <1>1, InvAlways, PTL

(* A cancelled request stays cancelled, a rejection for the rules is final.  *)
THEOREM FinalVerdictsStand == Spec => VerdictsStand
<1>1. ReqInv /\ [Next]_vars =>
        [\A r \in Reqs :
           (\/ req[r].status = "cancelled"
            \/ req[r].status = "rejected" /\ req[r].why = "rules" /\ req[r].batch # Nobody)
              => req'[r].status = req[r].status]_vars
  BY NextInv DEF Stands, Final
<1> QED
  BY <1>1, InvAlways, PTL DEF Spec, VerdictsStand
=============================================================================
