------------------------ MODULE TAAppointmentsProofs ------------------------
(***************************************************************************)
(* What the verdicts promise about the appointments of a term: no TA on    *)
(* more courses than the cap, none twice on a course, none in two places   *)
(* at once, however many requests are decided at the same time.            *)
(*                                                                         *)
(* A verdict compares a request with the others as its transaction sees    *)
(* them, and commits later.  It stays right because a call that approves   *)
(* holds the advisory locks of the TAs it approves (LocksApart), so what   *)
(* others commit meanwhile is about other TAs (Apt).                       *)
(*                                                                         *)
(* The locks are those of verdicts.  Giving a section back to a TA, and    *)
(* adding one to a request, take none: Steady leaves out what needs them.  *)
(***************************************************************************)
EXTENDS TARequestsProofs, FiniteSetTheorems

(* No timetable takes a whole section away, so none is ever given back;      *)
(* sections are not added; the old requests are undecided or were rejected   *)
(* for the rules; and meeting together is symmetric.                         *)
Steady ==
    /\ \A tt \in Timetables, s \in Sections : tt[s] # "all"
    /\ "add" \notin Ops
    /\ \A rec \in Legacy : /\ rec.status # "approved" /\ rec.why # "clash"
                           /\ \A k \in Pairs : rec.asg[k] # "dropped"
    /\ \A s, u \in Sections : <<s, u>> \in Overlaps => <<u, s>> \in Overlaps

-----------------------------------------------------------------------------
(* A row that lost nothing, and is rejected for a clash only if it is empty. *)
Kept(rec)  == \A k \in Pairs : rec.asg[k] # "dropped"
Whole(rec) == Kept(rec) /\ (rec.status = "rejected" /\ rec.why = "clash" => OnIt(rec) = {})

(* The same appointment, whatever else of the row has changed.               *)
Alike(a, b) == /\ a.status = "approved" /\ b.status = "approved"
               /\ a.course = b.course /\ OnIt(a) = OnIt(b)

(* Two appointments that may stand side by side.                             *)
Distant(a, b) ==
    \A k \in OnIt(a), l \in OnIt(b) :
        k[1] = l[1] => /\ a.course # b.course
                       /\ <<k[2], l[2]>> \notin Overlaps /\ <<l[2], k[2]>> \notin Overlaps

Approved(v) == {r \in Reqs : v[r].status = "approved"}
Taken(v, t) == {c \in Courses : \E r \in Approved(v) : v[r].course = c /\ t \in Staff(v[r])}

Fits(v, r, n) ==
    /\ \A q \in Approved(v) \ {r} : Distant(v[r], v[q])
    /\ \A t \in Staff(v[r]) : Cardinality(Taken(v, t)) <= n

Booked(v, n) == \A r \in Approved(v) : Fits(v, r, n)

(* The rows as the transaction of a call sees them.                          *)
Sees(p, rq) == [r \in Reqs |-> IF r \in Wrote(p) THEN p.work[r] ELSE rq[r]]

(* An approval under way is of an appointment that stands already, or fits   *)
(* among the others and is of TAs the call has locked.                       *)
Claims(p, rq, n, r) ==
    \/ Alike(p.work[r], rq[r])
    \/ Staff(p.work[r]) \subseteq p.locks /\ Fits(Sees(p, rq), r, n)

Apt(p, rq, n) ==
    /\ \A r \in Wrote(p) : /\ Whole(p.work[r])
                           /\ p.work[r].status = "approved" => Claims(p, rq, n, r)
    /\ p.at = "filing" => \A r \in Wrote(p) : Staff(p.work[r]) \cap p.left = {}

LocksApart == \A i \in Procs : \A j \in Procs \ {i} : proc[i].locks \cap proc[j].locks = {}

AptInv ==
    /\ LocksApart
    /\ Booked(req, cap)
    /\ \A r \in Reqs : Whole(req[r])
    /\ \A i \in Procs : Apt(proc[i], req, cap)

-----------------------------------------------------------------------------
(* The courses of a TA.                                                      *)
LEMMA CoursesFinite ==
  ASSUME NEW v, NEW C, \A c \in C : \E r \in Reqs : v[r].course = c
  PROVE  IsFiniteSet(C) /\ Cardinality(C) \in Nat
<1> DEFINE Q == {r \in Reqs : v[r].course \in C}
           f == [r \in Q |-> v[r].course]
<1>1. IsFiniteSet(Q)
  BY ConstantsAssumption, FS_Subset
<1>2. f \in [Q -> C] /\ \A c \in C : \E r \in Q : f[r] = c
  OBVIOUS
<1> HIDE DEF f, Q
<1>3. f \in Surjection(Q, C)
  BY <1>2 DEF Surjection
<1> QED
  BY <1>1, <1>3, FS_Surjection, FS_CardinalityType

LEMMA TakenFinite ==
  ASSUME NEW v, NEW t
  PROVE  IsFiniteSet(Taken(v, t)) /\ Cardinality(Taken(v, t)) \in Nat
  BY CoursesFinite DEF Taken, Approved

LEMMA FewerTaken ==
  ASSUME NEW v, NEW w, NEW t, NEW n \in Nat,
         Taken(w, t) \subseteq Taken(v, t), Cardinality(Taken(v, t)) <= n
  PROVE  Cardinality(Taken(w, t)) <= n
<1>1. Cardinality(Taken(w, t)) <= Cardinality(Taken(v, t))
  BY TakenFinite, FS_Subset
<1> QED
  BY <1>1, TakenFinite

LEMMA DistantBoth ==
  ASSUME NEW a, NEW b, Distant(a, b)
  PROVE  Distant(b, a)
  BY DEF Distant

(* What an appointment is compared with may shrink, and may change for       *)
(* others than its own TAs.                                                  *)
LEMMA FitsFrame ==
  ASSUME NEW v, NEW w, NEW r \in Reqs, NEW n \in Nat, Fits(v, r, n), w[r] = v[r],
         \A q \in Approved(w) \ {r} :
            \/ Staff(w[q]) \cap Staff(w[r]) = {}
            \/ Alike(w[q], v[q])
  PROVE  Fits(w, r, n)
<1>1. \A q \in Approved(w) \ {r} : Distant(w[r], w[q])
  <2> SUFFICES ASSUME NEW q \in Approved(w) \ {r} PROVE Distant(w[r], w[q])
    OBVIOUS
  <2>1. CASE Staff(w[q]) \cap Staff(w[r]) = {}
    BY <2>1 DEF Distant, Staff
  <2>2. CASE Alike(w[q], v[q])
    <3>1. q \in Approved(v) \ {r}
      BY <2>2 DEF Alike, Approved
    <3>2. Distant(v[r], v[q])
      BY <3>1 DEF Fits
    <3> QED
      BY <2>2, <3>2 DEF Alike, Distant
  <2> QED
    BY <2>1, <2>2
<1>2. ASSUME NEW t \in Staff(w[r])
      PROVE  Cardinality(Taken(w, t)) <= n
  <2>1. Taken(w, t) \subseteq Taken(v, t)
    <3> SUFFICES ASSUME NEW q \in Approved(w), t \in Staff(w[q])
                 PROVE  q \in Approved(v) /\ v[q].course = w[q].course /\ t \in Staff(v[q])
      BY DEF Taken
    <3>1. CASE q = r
      BY <3>1 DEF Approved
    <3>2. CASE q # r
      <4>1. Alike(w[q], v[q])
        BY <3>2
      <4> QED
        BY <4>1 DEF Alike, Approved, Staff
    <3> QED
      BY <3>1, <3>2
  <2>2. Cardinality(Taken(v, t)) <= n
    BY DEF Fits
  <2> QED
    BY <2>1, <2>2, FewerTaken
<1> QED
  BY <1>1, <1>2 DEF Fits

(* A transaction that commits leaves appointments that all fit.              *)
LEMMA BookedCommit ==
  ASSUME NEW p, NEW rq, NEW n \in Nat, Booked(rq, n), Apt(p, rq, n)
  PROVE  /\ Booked(Sees(p, rq), n)
         /\ \A q \in Approved(Sees(p, rq)) :
               Alike(Sees(p, rq)[q], rq[q]) \/ Staff(Sees(p, rq)[q]) \subseteq p.locks
<1> DEFINE v == Sees(p, rq)
<1>1. \A r \in Reqs : v[r] = IF r \in Wrote(p) THEN p.work[r] ELSE rq[r]
  BY DEF Sees
<1>2. \A r \in Approved(v) : \/ Alike(v[r], rq[r])
                             \/ Staff(v[r]) \subseteq p.locks /\ Fits(v, r, n)
  <2> SUFFICES ASSUME NEW r \in Approved(v)
               PROVE  \/ Alike(v[r], rq[r])
                      \/ Staff(v[r]) \subseteq p.locks /\ Fits(v, r, n)
    OBVIOUS
  <2>1. r \in Reqs /\ v[r].status = "approved"
    BY DEF Approved
  <2>2. CASE r \in Wrote(p)
    <3>1. v[r] = p.work[r]
      BY <1>1, <2>1, <2>2
    <3>2. Claims(p, rq, n, r)
      BY <2>1, <2>2, <3>1 DEF Apt
    <3> QED
      BY <3>1, <3>2 DEF Claims
  <2>3. CASE r \notin Wrote(p)
    BY <1>1, <2>1, <2>3 DEF Alike
  <2> QED
    BY <2>2, <2>3
<1> HIDE DEF v
<1>3. ASSUME NEW r \in Approved(v)
      PROVE  Fits(v, r, n)
  <2>1. CASE Fits(v, r, n)
    BY <2>1
  <2>2. CASE Alike(v[r], rq[r])
    <3>1. r \in Approved(rq) /\ Fits(rq, r, n)
      BY <2>2 DEF Alike, Approved, Booked
    <3>2. ASSUME NEW q \in Approved(v) \ {r}
          PROVE  Distant(v[r], v[q])
      <4>1. CASE Fits(v, q, n)
        BY <4>1, DistantBoth DEF Fits
      <4>2. CASE Alike(v[q], rq[q])
        <5>1. q \in Approved(rq) \ {r}
          BY <4>2 DEF Alike, Approved
        <5>2. Distant(rq[r], rq[q])
          BY <3>1, <5>1 DEF Fits
        <5> QED
          BY <2>2, <4>2, <5>2 DEF Alike, Distant
      <4> QED
        BY <1>2, <4>1, <4>2
    <3>3. ASSUME NEW t \in Staff(v[r])
          PROVE  Cardinality(Taken(v, t)) <= n
      <4>1. CASE \E q \in Approved(v) : t \in Staff(v[q]) /\ Fits(v, q, n)
        BY <4>1 DEF Fits
      <4>2. CASE \A q \in Approved(v) : t \in Staff(v[q]) => Alike(v[q], rq[q])
        <5>1. Taken(v, t) \subseteq Taken(rq, t)
          BY <4>2 DEF Taken, Alike, Approved, Staff
        <5>2. t \in Staff(rq[r])
          BY <2>2 DEF Alike, Staff
        <5>3. Cardinality(Taken(rq, t)) <= n
          BY <3>1, <5>2 DEF Fits
        <5> QED
          BY <5>1, <5>3, FewerTaken
      <4> QED
        BY <1>2, <4>1, <4>2
    <3> QED
      BY <3>2, <3>3 DEF Fits
  <2> QED
    BY <1>2, <2>1, <2>2
<1> QED
  BY <1>2, <1>3 DEF Booked, v

(* What a call claims outlives a step that approves none of its own TAs.     *)
LEMMA AptFrame ==
  ASSUME NEW p, NEW rq, NEW rs, NEW n \in Nat, Apt(p, rq, n),
         \A r \in Wrote(p) : rs[r] = rq[r],
         \A q \in Approved(rs) : Alike(rs[q], rq[q]) \/ Staff(rs[q]) \cap p.locks = {}
  PROVE  Apt(p, rs, n)
<1> DEFINE v == Sees(p, rq)
           w == Sees(p, rs)
<1>1. \A q \in Reqs : /\ v[q] = IF q \in Wrote(p) THEN p.work[q] ELSE rq[q]
                      /\ w[q] = IF q \in Wrote(p) THEN p.work[q] ELSE rs[q]
  BY DEF Sees
<1>2. Wrote(p) \subseteq Reqs
  BY DEF Wrote
<1> HIDE DEF v, w
<1>3. ASSUME NEW r \in Wrote(p), Claims(p, rq, n, r)
      PROVE  Claims(p, rs, n, r)
  <2>1. CASE Alike(p.work[r], rq[r])
    BY <2>1 DEF Claims
  <2>2. CASE Staff(p.work[r]) \subseteq p.locks /\ Fits(v, r, n)
    <3>1. r \in Reqs /\ w[r] = v[r] /\ w[r] = p.work[r]
      BY <1>1, <1>2
    <3>2. ASSUME NEW q \in Approved(w) \ {r}
          PROVE  Staff(w[q]) \cap Staff(w[r]) = {} \/ Alike(w[q], v[q])
      <4>1. q \in Reqs /\ w[q].status = "approved"
        BY DEF Approved
      <4>2. CASE q \in Wrote(p)
        BY <1>1, <4>1, <4>2 DEF Alike
      <4>3. CASE q \notin Wrote(p)
        <5>1. w[q] = rs[q] /\ v[q] = rq[q] /\ q \in Approved(rs)
          BY <1>1, <4>1, <4>3 DEF Approved
        <5> QED
          BY <2>2, <3>1, <5>1
      <4> QED
        BY <4>2, <4>3
    <3>3. Fits(w, r, n)
      BY <2>2, <3>1, <3>2, FitsFrame
    <3> QED
      BY <2>2, <3>3 DEF Claims, w
  <2> QED
    BY <1>3, <2>1, <2>2 DEF Claims, v
<1> QED
  BY <1>3 DEF Apt

LEMMA NothingClaimed ==
  ASSUME NEW p, NEW rq, NEW n, p.work = NoWork
  PROVE  Apt(p, rq, n)
  BY NothingWrote DEF Apt

-----------------------------------------------------------------------------
(* Steps.                                                                    *)
LEMMA CapNat == ReqInv => cap \in Nat
  BY ConstantsAssumption DEF ReqInv, Tables

LEMMA StepApt ==
  ASSUME ReqInv, AptInv, NEW i \in Procs, NEW p, Become(i, p), cap' = cap, Framed(i),
         Apt(p, req', cap), \A j \in Procs \ {i} : p.locks \cap proc[j].locks = {},
         \A r \in Reqs : Whole(req'[r]), Booked(req', cap),
         \A q \in Approved(req') : Alike(req'[q], req[q]) \/ Staff(req'[q]) \subseteq proc[i].locks
  PROVE  AptInv'
<1>1. /\ proc'[i] = p /\ \A j \in Procs \ {i} : proc'[j] = proc[j]
  BY DEF ReqInv, Calls, Become
<1>2. ASSUME NEW j \in Procs \ {i}
      PROVE  Apt(proc[j], req', cap)
  <2>1. Apt(proc[j], req, cap) /\ proc[j].locks \cap proc[i].locks = {}
    BY DEF AptInv, LocksApart
  <2>2. \A r \in Wrote(proc[j]) : req'[r] = req[r]
    BY DEF Framed
  <2>3. \A q \in Approved(req') : \/ Alike(req'[q], req[q])
                                  \/ Staff(req'[q]) \cap proc[j].locks = {}
    BY <2>1
  <2> QED
    BY <2>1, <2>2, <2>3, CapNat, AptFrame
<1>3. \A j \in Procs : Apt(proc'[j], req', cap')
  BY <1>1, <1>2
<1>4. LocksApart'
  <2> SUFFICES ASSUME NEW j \in Procs, NEW k \in Procs \ {j}
               PROVE  proc'[j].locks \cap proc'[k].locks = {}
    BY DEF LocksApart
  <2>1. CASE j # i /\ k # i
    BY <1>1, <2>1 DEF AptInv, LocksApart
  <2>2. CASE j = i \/ k = i
    BY <1>1, <2>2
  <2> QED
    BY <2>1, <2>2
<1> QED
  BY <1>3, <1>4 DEF AptInv

(* A step of one call that commits nothing.                                  *)
LEMMA MoveApt ==
  ASSUME ReqInv, AptInv, NEW i \in Procs, NEW p, Become(i, p), UNCHANGED <<req, cap>>,
         Apt(p, req, cap), \A j \in Procs \ {i} : p.locks \cap proc[j].locks = {}
  PROVE  AptInv'
<1>1. Framed(i) /\ Apt(p, req', cap)
  BY DEF Framed
<1>2. (\A r \in Reqs : Whole(req'[r])) /\ Booked(req', cap)
  BY DEF AptInv
<1>3. \A q \in Approved(req') : Alike(req'[q], req[q])
  BY DEF Alike, Approved
<1> QED
  BY <1>1, <1>2, <1>3, StepApt

LEMMA QuietApt ==
  ASSUME ReqInv, AptInv, NEW i \in Procs, NEW p, Become(i, p), UNCHANGED <<req, cap>>,
         p.work = NoWork, p.locks \subseteq proc[i].locks
  PROVE  AptInv'
<1>1. \A j \in Procs \ {i} : p.locks \cap proc[j].locks = {}
  BY DEF AptInv, LocksApart
<1> QED
  BY <1>1, NothingClaimed, MoveApt

(* A transaction commits and lets its locks go.                              *)
LEMMA CommitApt ==
  ASSUME ReqInv, AptInv, NEW i \in Procs, NEW p, Become(i, p), req' = View(i), cap' = cap,
         p.work = NoWork, p.locks = {}
  PROVE  AptInv'
<1>1. Sees(proc[i], req) = View(i)
  BY DEF Sees, View, Written, Wrote
<1>2. Apt(proc[i], req, cap) /\ Booked(req, cap)
  BY DEF AptInv
<1>3. /\ Booked(View(i), cap)
      /\ \A q \in Approved(View(i)) :
            Alike(View(i)[q], req[q]) \/ Staff(View(i)[q]) \subseteq proc[i].locks
  BY <1>1, <1>2, CapNat, BookedCommit
<1>4. Framed(i)
  BY ViewRows DEF Framed
<1>5. \A r \in Reqs : Whole(View(i)[r])
  BY <1>2, ViewRows DEF AptInv, Apt
<1>6. Apt(p, req', cap)
  BY NothingClaimed
<1> QED
  BY <1>3, <1>4, <1>5, <1>6, StepApt

(* Rows change, and no appointment comes of it.                              *)
LEMMA BookedStays ==
  ASSUME NEW rq, NEW rs, NEW n \in Nat, Booked(rq, n),
         \A q \in Approved(rs) : Alike(rs[q], rq[q])
  PROVE  Booked(rs, n)
<1> SUFFICES ASSUME NEW r \in Approved(rs) PROVE Fits(rs, r, n)
  BY DEF Booked
<1>1. Alike(rs[r], rq[r]) /\ r \in Approved(rq) /\ Fits(rq, r, n)
  BY DEF Alike, Approved, Booked
<1>2. ASSUME NEW q \in Approved(rs) \ {r} PROVE Distant(rs[r], rs[q])
  <2>1. Alike(rs[q], rq[q]) /\ q \in Approved(rq) \ {r}
    BY DEF Alike, Approved
  <2> QED
    BY <1>1, <2>1 DEF Fits, Alike, Distant
<1>3. ASSUME NEW t \in Staff(rs[r]) PROVE Cardinality(Taken(rs, t)) <= n
  <2>1. Taken(rs, t) \subseteq Taken(rq, t)
    BY DEF Taken, Alike, Approved, Staff
  <2>2. Cardinality(Taken(rq, t)) <= n
    BY <1>1 DEF Fits, Alike, Staff
  <2> QED
    BY <2>1, <2>2, FewerTaken
<1> QED
  BY <1>2, <1>3 DEF Fits

-----------------------------------------------------------------------------
(* The clash rule takes nothing away.                                        *)
LEMMA CutKept ==
  ASSUME Steady, ReqInv, NEW v \in [Reqs -> Row], NEW r \in Reqs, NEW T, NEW again \in BOOLEAN,
         Kept(v[r])
  PROVE  LET c == Cut(v, r, T, again)
         IN  /\ Kept(c) /\ OnIt(c) = OnIt(v[r]) /\ Held(c) = OnIt(v[r])
             /\ c.course = v[r].course /\ c.status = v[r].status
<1> DEFINE rec  == v[r]
           hit  == {k \in Judged(rec, T, again) : Clash(k) # "none"}
           back == IF again THEN Restored(v, r, T) ELSE {}
           asg  == [k \in Pairs |->
                      IF k \in hit
                      THEN IF Lost(rec, r, k, again) THEN "dropped" ELSE "trimmed"
                      ELSE IF k \in back THEN "active" ELSE rec.asg[k]]
           cut  == (rec.cut \cup hit) \ back
           c    == Cut(v, r, T, again)
<1>1. rec \in Row /\ rec.asg \in [Pairs -> AsgStates]
  BY DEF Row
<1>2. c = [rec EXCEPT !.asg = asg, !.cut = cut]
  BY DEF Cut
<1>3. hit \subseteq OnIt(rec) /\ back \subseteq OnIt(rec)
  BY DEF Judged, Restored
<1>4. \A k \in Pairs : ~Lost(rec, r, k, again)
  <2> SUFFICES ASSUME NEW k \in Pairs PROVE Clash(k) # "all"
    BY DEF Lost
  <2>1. k[1] \in TAs /\ k[2] \in Sections
    BY DEF Pairs
  <2>2. table[k[1]] # Unfiled => table[k[1]] \in Timetables
    BY <2>1 DEF ReqInv, Tables
  <2> QED
    BY <2>1, <2>2 DEF Clash, Steady
<1>5. \A k \in Pairs : asg[k] = IF k \in hit THEN "trimmed"
                                ELSE IF k \in back THEN "active" ELSE rec.asg[k]
  BY <1>4
<1> HIDE DEF hit, back, asg, cut, rec
<1>6. c.asg = asg /\ c.course = rec.course /\ c.status = rec.status
  BY <1>1, <1>2 DEF Row
<1> HIDE DEF c
<1>7. \A k \in Pairs : /\ asg[k] # "dropped" /\ asg[k] \in AsgStates
                       /\ asg[k] # "none" <=> rec.asg[k] # "none"
  BY <1>1, <1>3, <1>5 DEF OnIt, Kept, AsgStates, rec
<1>8. /\ Kept(c) /\ OnIt(c) = OnIt(rec)
  BY <1>6, <1>7 DEF Kept, OnIt
<1>9. Held(c) = OnIt(c)
  BY <1>6, <1>7 DEF Held, OnIt, AsgStates
<1> QED
  BY <1>6, <1>8, <1>9 DEF c, rec

LEMMA KeptHeld ==
  ASSUME NEW rec \in Row, Kept(rec)
  PROVE  Held(rec) = OnIt(rec)
  BY DEF Kept, Held, OnIt, Row, AsgStates

(* A request that passes the rules fits among the others.                    *)
LEMMA PassesFits ==
  ASSUME Steady, NEW n \in Nat, n = cap, NEW v \in [Reqs -> Row], NEW r \in Reqs,
         \A q \in Reqs : Kept(v[q]), Passes(v, r),
         NEW w, \A q \in Reqs \ {r} : w[q] = v[q],
         w[r].course = v[r].course, OnIt(w[r]) = OnIt(v[r])
  PROVE  Fits(w, r, n)
<1>1. \A q \in Reqs : Held(v[q]) = OnIt(v[q])
  BY KeptHeld
<1>2. Staff(w[r]) = Staff(v[r])
  BY DEF Staff
<1>3. \A t \in Staff(v[r]) : TAPasses(v, r, t)
  BY DEF Passes
<1>4. \A k \in OnIt(v[r]) : ~CrossConflict(v, r, k[1], k[2])
  BY DEF Passes
<1>5. ASSUME NEW q \in Approved(w) \ {r}
      PROVE  Distant(w[r], w[q])
  <2>1. q \in Reqs \ {r} /\ w[q] = v[q] /\ v[q].status = "approved"
    BY DEF Approved
  <2> SUFFICES ASSUME NEW k \in OnIt(v[r]), NEW l \in OnIt(v[q]), k[1] = l[1]
               PROVE  /\ v[r].course # v[q].course
                      /\ <<k[2], l[2]>> \notin Overlaps /\ <<l[2], k[2]>> \notin Overlaps
    BY <2>1 DEF Distant
  <2>2. k[1] \in Staff(v[r]) /\ k[2] \in Sections /\ l[2] \in Sections
    BY DEF Staff, OnIt, Pairs
  <2>3. Holds(v[q], k[1])
    BY <1>1, <2>1 DEF Holds
  <2>4. v[r].course # v[q].course
    BY <1>3, <2>1, <2>2, <2>3 DEF TAPasses, LiveStatus
  <2>5. <<k[2], l[2]>> \notin Overlaps
    BY <1>4, <2>1, <2>4 DEF CrossConflict
  <2> QED
    BY <2>2, <2>4, <2>5 DEF Steady
<1>6. ASSUME NEW t \in Staff(v[r])
      PROVE  Cardinality(Taken(w, t)) <= n
  <2> DEFINE c == v[r].course
             R == Reserved(v, t, c)
  <2>1. Taken(w, t) \subseteq R \cup {c}
    <3> SUFFICES ASSUME NEW d \in Courses, NEW q \in Approved(w), w[q].course = d,
                        t \in Staff(w[q]), d # c
                 PROVE  d \in R
      BY DEF Taken
    <3>1. q \in Reqs \ {r} /\ w[q] = v[q] /\ v[q].status = "approved"
      BY DEF Approved
    <3>2. Holds(v[q], t)
      BY <1>1, <3>1 DEF Holds, Staff
    <3> QED
      BY <3>1, <3>2 DEF Reserved, LiveStatus
  <2>2. IsFiniteSet(R) /\ Cardinality(R) \in Nat
    BY CoursesFinite DEF Reserved
  <2>3. Cardinality(R) < n
    BY <1>3 DEF TAPasses, UnderCap
  <2> HIDE DEF R, c
  <2>4. /\ IsFiniteSet(R \cup {c})
        /\ Cardinality(R \cup {c}) <= Cardinality(R) + 1
    BY <2>2, FS_AddElement
  <2>5. Cardinality(Taken(w, t)) <= Cardinality(R \cup {c})
    BY <2>1, <2>4, FS_Subset
  <2>6. Cardinality(R \cup {c}) \in Nat
    BY <2>4, FS_CardinalityType
  <2> QED
    BY <2>2, <2>3, <2>4, <2>5, <2>6, TakenFinite
<1> QED
  BY <1>2, <1>5, <1>6 DEF Fits

LEMMA VerdictFits ==
  ASSUME Steady, ReqInv, NEW v \in [Reqs -> Row], NEW r \in Reqs,
         \A q \in Reqs : Kept(v[q])
  PROVE  LET x == Verdict(v, r)
         IN  /\ Whole(x) /\ OnIt(x) = OnIt(v[r])
             /\ x.status = "approved" =>
                   \A w : w[r] = x /\ (\A q \in Reqs \ {r} : w[q] = v[q])
                       => Fits(w, r, cap)
<1>1. PICK c : c = Cut(v, r, TAs, FALSE)
  OBVIOUS
<1>2. /\ c \in Row /\ Kept(c) /\ OnIt(c) = OnIt(v[r]) /\ Held(c) = OnIt(v[r])
      /\ c.course = v[r].course
  BY <1>1, CutKept, CutRow
<1> DEFINE u == [v EXCEPT ![r] = c]
           x == Verdict(v, r)
<1>3. x = IF Held(c) = {} THEN Decided(c, "rejected", "clash")
          ELSE IF Passes(u, r) THEN Decided(c, "approved", "")
          ELSE Decided(c, "rejected", "rules")
  BY <1>1 DEF Verdict
<1>4. \A st \in {"rejected", "approved"}, why \in {"clash", "rules", ""} :
         LET d == Decided(c, st, why)
         IN  d.asg = c.asg /\ d.course = c.course /\ d.status = st /\ d.why = why
  BY <1>2 DEF Decided, Row
<1>5. /\ x.asg = c.asg /\ x.course = c.course
      /\ x.status = "rejected" /\ x.why = "clash" => Held(c) = {}
      /\ x.status = "approved" => Passes(u, r)
  <2>1. CASE Held(c) = {}
    BY <1>3, <1>4, <2>1
  <2>2. CASE Held(c) # {} /\ Passes(u, r)
    BY <1>3, <1>4, <2>2
  <2>3. CASE Held(c) # {} /\ ~Passes(u, r)
    BY <1>3, <1>4, <2>3
  <2> QED
    BY <2>1, <2>2, <2>3
<1>6. OnIt(x) = OnIt(c) /\ Whole(x)
  BY <1>2, <1>5 DEF OnIt, Whole, Kept
<1>7. /\ u \in [Reqs -> Row] /\ u[r] = c /\ \A q \in Reqs \ {r} : u[q] = v[q]
      /\ \A q \in Reqs : Kept(u[q])
  BY <1>2
<1> HIDE DEF u, x
<1>8. ASSUME x.status = "approved", NEW w, w[r] = x, \A q \in Reqs \ {r} : w[q] = v[q]
      PROVE  Fits(w, r, cap)
  BY <1>2, <1>5, <1>6, <1>7, <1>8, CapNat, PassesFits
<1> QED
  BY <1>2, <1>6, <1>8 DEF x

-----------------------------------------------------------------------------
(* A transaction that has written one row.                                   *)
LEMMA OpenApt ==
  ASSUME ReqInv, AptInv, NEW i \in Procs, NEW p, Become(i, p), UNCHANGED <<req, cap>>,
         NEW r \in Reqs, NEW w, p.work = [NoWork EXCEPT ![r] = w], p.at = "write", Whole(w),
         w.status = "approved" =>
            \/ Alike(w, req[r])
            \/ /\ Staff(w) \subseteq p.locks
               /\ \A v : v[r] = w /\ (\A q \in Reqs \ {r} : v[q] = req[q]) => Fits(v, r, cap),
         \A j \in Procs \ {i} : p.locks \cap proc[j].locks = {}
  PROVE  AptInv'
<1>1. p.work[r] = w /\ \A q \in Reqs \ {r} : p.work[q] = NoWork[q]
  BY NoWorkRows
<1>2. Wrote(p) \subseteq {r}
  BY <1>1, NoWorkRows DEF Wrote
<1>3. ASSUME r \in Wrote(p), w.status = "approved"
      PROVE  Claims(p, req, cap, r)
  <2>1. /\ Sees(p, req)[r] = w
        /\ \A q \in Reqs \ {r} : Sees(p, req)[q] = req[q]
    BY <1>1, <1>2, <1>3 DEF Sees
  <2> QED
    BY <1>1, <1>3, <2>1 DEF Claims
<1>4. Apt(p, req, cap)
  BY <1>1, <1>2, <1>3 DEF Apt
<1> QED
  BY <1>4, MoveApt

LEMMA LocksKept ==
  ASSUME AptInv, NEW i \in Procs, NEW L, L \subseteq proc[i].locks
  PROVE  \A j \in Procs \ {i} : L \cap proc[j].locks = {}
  BY DEF AptInv, LocksApart

LEMMA JudgeApt ==
  ASSUME Steady, ReqInv, AptInv, NEW i \in Procs, FinalizeJudge(i)
  PROVE  AptInv'
<1> DEFINE r == proc[i].on
<1>1. /\ proc[i] \in Proc /\ proc[i].work = NoWork /\ r \in Reqs
      /\ req \in [Reqs -> Row] /\ UNCHANGED <<req, cap>>
  BY CallType DEF Good, FinalizeJudge, TablesKept
<1>2. CASE Become(i, Done(i))
  <2>1. PICK p : p = Done(i)
    OBVIOUS
  <2>2. p.locks \subseteq proc[i].locks
    BY <1>1, <2>1 DEF Done, Idle, Released, Proc
  <2> QED
    BY <1>1, <1>2, <2>1, <2>2, DoneCall, QuietApt
<1>3. CASE ~Become(i, Done(i))
  <2> DEFINE w == Verdict(req, r)
             p == [proc[i] EXCEPT !.at = "write", !.rows = {r}, !.locks = Staff(req[r]),
                                  !.work[r] = w]
  <2>1. Become(i, p) /\ LocksFree(i, Staff(req[r]))
    BY <1>3 DEF FinalizeJudge, Open
  <2>2. \A q \in Reqs : Kept(req[q])
    BY DEF AptInv, Whole
  <2>3. /\ Whole(w) /\ OnIt(w) = OnIt(req[r])
        /\ w.status = "approved" =>
              \A v : v[r] = w /\ (\A q \in Reqs \ {r} : v[q] = req[q]) => Fits(v, r, cap)
    BY <1>1, <2>2, VerdictFits
  <2> HIDE DEF w, r
  <2>4. /\ p.at = "write" /\ p.locks = Staff(req[r])
        /\ p.work = [NoWork EXCEPT ![r] = w]
    BY <1>1 DEF Proc
  <2>5. Staff(w) \subseteq p.locks
    BY <2>3, <2>4 DEF Staff
  <2>6. \A j \in Procs \ {i} : p.locks \cap proc[j].locks = {}
    BY <2>1, <2>4 DEF LocksFree
  <2> HIDE DEF p
  <2> QED
    BY <1>1, <2>1, <2>3, <2>4, <2>5, <2>6, OpenApt
<1> QED
  BY <1>2, <1>3

(* A recheck changes no appointment: what it can trim is still held.         *)
LEMMA RecheckApt ==
  ASSUME Steady, ReqInv, AptInv, NEW i \in Procs, RecheckNext(i)
  PROVE  AptInv'
<1>1. /\ proc[i] \in Proc /\ proc[i].work = NoWork /\ req \in [Reqs -> Row]
      /\ UNCHANGED <<req, cap>>
  BY CallType DEF RecheckNext, TablesKept
<1>2. CASE Become(i, Idle)
  BY <1>1, <1>2, IdleCall, QuietApt DEF Idle
<1>3. CASE ~Become(i, Idle)
  <2>1. PICK r \in proc[i].todo :
          LET rec == Cut(req, r, {proc[i].ta}, TRUE)
              out == IF Held(rec) = {} THEN Decided(rec, "rejected", "clash")
                                       ELSE Decided(rec, "approved", "")
              p   == [proc[i] EXCEPT !.todo = @ \ {r}]
              open == \/ req[r].status = "approved"
                      \/ req[r].status = "rejected" /\ req[r].why = "clash"
          IN  Become(i, IF open /\ rec.asg # req[r].asg
                        THEN [p EXCEPT !.at = "write", !.on = r, !.rows = {r}, !.work[r] = out]
                        ELSE p)
    BY <1>3 DEF RecheckNext
  <2> DEFINE rec == Cut(req, r, {proc[i].ta}, TRUE)
             out == IF Held(rec) = {} THEN Decided(rec, "rejected", "clash")
                                      ELSE Decided(rec, "approved", "")
             p   == [proc[i] EXCEPT !.todo = @ \ {r}]
             open == \/ req[r].status = "approved"
                     \/ req[r].status = "rejected" /\ req[r].why = "clash"
             q   == [p EXCEPT !.at = "write", !.on = r, !.rows = {r}, !.work[r] = out]
  <2>2. r \in Reqs
    BY <1>1 DEF Proc
  <2>3. Become(i, p) \/ (open /\ rec.asg # req[r].asg /\ Become(i, q))
    BY <2>1
  <2>4. Whole(req[r])
    BY <2>2 DEF AptInv
  <2>5. /\ rec \in Row /\ Kept(rec) /\ OnIt(rec) = OnIt(req[r]) /\ Held(rec) = OnIt(req[r])
        /\ rec.course = req[r].course
    <3>1. PICK T : T = {proc[i].ta}
      OBVIOUS
    <3>2. Kept(req[r])
      BY <2>4 DEF Whole
    <3>3. LET c == Cut(req, r, T, TRUE)
          IN  /\ Kept(c) /\ OnIt(c) = OnIt(req[r]) /\ Held(c) = OnIt(req[r])
              /\ c.course = req[r].course /\ c.status = req[r].status
      BY <1>1, <2>2, <3>2, CutKept
    <3>4. Cut(req, r, T, TRUE) \in Row
      BY <1>1, <2>2, CutRow
    <3> QED
      BY <3>1, <3>3, <3>4
  <2> HIDE DEF rec
  <2>6. /\ out.asg = rec.asg /\ out.course = rec.course
        /\ \/ Held(rec) = {} /\ out.status = "rejected"
           \/ Held(rec) # {} /\ out.status = "approved"
    BY <2>5 DEF Decided, Row
  <2> HIDE DEF out
  <2>7. OnIt(out) = OnIt(req[r]) /\ Whole(out)
    BY <2>5, <2>6 DEF OnIt, Whole, Kept
  <2>8. open /\ out.status = "approved" => Alike(out, req[r])
    BY <2>4, <2>5, <2>6, <2>7 DEF Whole, Alike
  <2> HIDE DEF open
  <2>9. p.work = NoWork /\ p.locks = proc[i].locks /\ p \in Proc
    BY <1>1 DEF Proc
  <2> HIDE DEF p
  <2>10. q.at = "write" /\ q.locks = proc[i].locks /\ q.work = [NoWork EXCEPT ![r] = out]
    BY <2>9 DEF Proc
  <2> HIDE DEF q
  <2>11. CASE Become(i, p)
    BY <1>1, <2>9, <2>11, QuietApt
  <2>12. CASE open /\ Become(i, q)
    <3>1. \A j \in Procs \ {i} : q.locks \cap proc[j].locks = {}
      BY <2>10, LocksKept
    <3> QED
      BY <1>1, <2>2, <2>7, <2>8, <2>10, <2>12, <3>1, OpenApt
  <2> QED
    BY <2>3, <2>11, <2>12
<1> QED
  BY <1>2, <1>3

LEMMA CancelApt ==
  ASSUME ReqInv, AptInv, NEW i \in Procs, CancelJudge(i)
  PROVE  AptInv'
<1>1. PICK r \in Reqs : Become(i, Writing(r, Cancelled(req[r])))
  BY DEF CancelJudge
<1>2. req[r] \in Row /\ Whole(req[r]) /\ UNCHANGED <<req, cap>>
  BY CallType DEF AptInv, CancelJudge, TablesKept
<1>3. PICK w : w = Cancelled(req[r])
  OBVIOUS
<1>4. w.status = "cancelled" /\ Whole(w)
  BY <1>2, <1>3 DEF Cancelled, Decided, Row, Whole, Kept
<1>5. w \in Row
  BY <1>2, <1>3, DecidedRow DEF Cancelled, Statuses
<1>6. Writing(r, w).at = "write" /\ Writing(r, w).work = [NoWork EXCEPT ![r] = w]
  BY <1>5, WriteBegins
<1>7. Writing(r, w).locks = {}
  BY DEF Writing, Idle
<1> HIDE DEF Writing
<1>8. PICK p : p = Writing(r, w)
  OBVIOUS
<1> QED
  BY <1>1, <1>2, <1>3, <1>4, <1>6, <1>7, <1>8, OpenApt

(* Marking verdicts told changes no appointment.                             *)
LEMMA FlushApt ==
  ASSUME ReqInv, AptInv, NEW i \in Procs, FlushRead(i)
  PROVE  AptInv'
<1> DEFINE b == proc[i].on
<1>1. /\ proc[i] \in Proc /\ req \in [Reqs -> Row] /\ UNCHANGED <<req, cap>>
  BY CallType DEF FlushRead, TablesKept
<1>2. CASE Become(i, Done(i))
  <2>1. PICK p : p = Done(i)
    OBVIOUS
  <2>2. p.locks \subseteq proc[i].locks
    BY <1>1, <2>1 DEF Done, Idle, Released, Proc
  <2> QED
    BY <1>1, <1>2, <2>1, <2>2, DoneCall, QuietApt
<1>3. CASE ~Become(i, Done(i))
  <2> DEFINE work == [r \in Reqs |-> IF r \in Untold(b) THEN [req[r] EXCEPT !.told = TRUE] ELSE Blank]
             p == [proc[i] EXCEPT !.at = "mark", !.rows = Batch(b), !.work = work]
  <2>1. Become(i, p)
    BY <1>3 DEF FlushRead
  <2>2. ASSUME NEW r \in Reqs, work[r].status # "none"
        PROVE  /\ Whole(work[r])
               /\ work[r].status = "approved" => Alike(work[r], req[r])
    <3>1. req[r] \in Row /\ Whole(req[r])
      BY <1>1 DEF AptInv
    <3>2. work[r] = [req[r] EXCEPT !.told = TRUE]
      BY <2>2, BlankRow
    <3> HIDE DEF work
    <3>3. /\ work[r].asg = req[r].asg /\ work[r].course = req[r].course
          /\ work[r].status = req[r].status /\ work[r].why = req[r].why
      BY <3>1, <3>2 DEF Row
    <3> QED
      BY <3>1, <3>3 DEF Whole, Kept, Alike, OnIt
  <2> HIDE DEF work, b
  <2>3. p.at = "mark" /\ p.work = work /\ p.locks = proc[i].locks
    BY <1>1 DEF Proc
  <2> HIDE DEF p
  <2>4. Apt(p, req, cap)
    BY <2>2, <2>3 DEF Apt, Claims, Wrote
  <2>5. \A j \in Procs \ {i} : p.locks \cap proc[j].locks = {}
    BY <2>3, LocksKept
  <2> QED
    BY <1>1, <2>1, <2>4, <2>5, MoveApt
<1> QED
  BY <1>2, <1>3

-----------------------------------------------------------------------------
(* A submission takes the lock of each TA it judges, and judges it against   *)
(* what it has inserted already.                                             *)
LEMMA FilingApt ==
  ASSUME ReqInv, AptInv, NEW i \in Procs, NEW p, Become(i, p), UNCHANGED <<req, cap>>,
         proc[i].at = "filing", NEW t \in proc[i].left, p.left = proc[i].left \ {t},
         NEW r \in Fresh, NEW w, w.status # "none", Whole(w), Staff(w) \subseteq {t},
         p.work = [proc[i].work EXCEPT ![r] = w], p.at = "filing",
         proc[i].locks \subseteq p.locks,
         w.status = "approved" =>
            /\ t \in p.locks
            /\ \A v : v[r] = w /\ (\A q \in Reqs \ {r} : v[q] = View(i)[q])
                       => Fits(v, r, cap),
         \A j \in Procs \ {i} : p.locks \cap proc[j].locks = {}
  PROVE  AptInv'
<1>1. /\ proc[i].work \in [Reqs -> Row] /\ r \in Reqs /\ r \notin Wrote(proc[i])
      /\ Apt(proc[i], req, cap)
  BY CallType DEF Fresh, Written, Wrote, AptInv
<1>2. p.work[r] = w /\ \A q \in Reqs \ {r} : p.work[q] = proc[i].work[q]
  BY <1>1
<1>3. Wrote(p) = Wrote(proc[i]) \cup {r}
  BY <1>1, <1>2 DEF Wrote
<1> DEFINE v == Sees(proc[i], req)
           x == Sees(p, req)
<1>4. /\ x[r] = w /\ \A q \in Reqs \ {r} : x[q] = v[q] /\ v[q] = View(i)[q]
  BY <1>1, <1>2, <1>3 DEF Sees, View, Written, Wrote
<1>5. \A q \in Wrote(proc[i]) : q \in Reqs \ {r} /\ x[q] = proc[i].work[q]
  BY <1>1, <1>2, <1>3 DEF Sees, Wrote
<1> HIDE DEF v, x
<1>6. \A q \in Wrote(p) : Whole(p.work[q])
  BY <1>1, <1>2, <1>3, <1>5 DEF Apt
<1>7. \A q \in Wrote(p) : Staff(p.work[q]) \cap p.left = {}
  BY <1>1, <1>2, <1>3, <1>5 DEF Apt
<1>8. ASSUME w.status = "approved"
      PROVE  Claims(p, req, cap, r)
  <2>1. Fits(x, r, cap)
    BY <1>4, <1>8
  <2> QED
    BY <1>2, <1>8, <2>1 DEF Claims, x
<1>9. ASSUME NEW q \in Wrote(proc[i]), proc[i].work[q].status = "approved"
      PROVE  Claims(p, req, cap, q)
  <2>1. Claims(proc[i], req, cap, q) /\ p.work[q] = proc[i].work[q] /\ q \in Reqs \ {r}
    BY <1>1, <1>2, <1>5, <1>9 DEF Apt
  <2>2. CASE Alike(proc[i].work[q], req[q])
    BY <2>1, <2>2 DEF Claims
  <2>3. CASE Staff(proc[i].work[q]) \subseteq proc[i].locks /\ Fits(v, q, cap)
    <3>1. Staff(w) \cap Staff(x[q]) = {}
      BY <1>1, <1>5 DEF Apt
    <3>2. \A u \in Approved(x) \ {q} : \/ Staff(x[u]) \cap Staff(x[q]) = {}
                                       \/ Alike(x[u], v[u])
      <4> SUFFICES ASSUME NEW u \in Approved(x) \ {q}, u # r
                   PROVE  Alike(x[u], v[u])
        BY <1>4, <3>1
      <4>1. u \in Reqs /\ x[u].status = "approved"
        BY DEF Approved
      <4> QED
        BY <1>4, <4>1 DEF Alike
    <3>3. x[q] = v[q] /\ q \in Reqs
      BY <1>4, <2>1
    <3>4. Fits(x, q, cap)
      BY <2>3, <3>2, <3>3, CapNat, FitsFrame
    <3> QED
      BY <2>1, <2>3, <3>4 DEF Claims, x
  <2> QED
    BY <2>1, <2>2, <2>3 DEF Claims, v
<1>10. \A q \in Wrote(p) : p.work[q].status = "approved" => Claims(p, req, cap, q)
  BY <1>2, <1>3, <1>5, <1>8, <1>9
<1>11. Apt(p, req, cap)
  BY <1>6, <1>7, <1>10 DEF Apt
<1> QED
  BY <1>11, MoveApt

LEMMA FileApt ==
  ASSUME Steady, ReqInv, AptInv, NEW i \in Procs, FileOne(i)
  PROVE  AptInv'
<1> DEFINE t == Least(proc[i].left)
           r == Least(Fresh)
           b == Least(Written(i) \cup {r})
<1>1. /\ proc[i] \in Proc /\ proc[i].at = "filing" /\ proc[i].work \in [Reqs -> Row]
      /\ proc[i].left \in SUBSET TAs /\ proc[i].left # {} /\ UNCHANGED <<req, cap>>
  BY CallType DEF FileOne, Proc, TablesKept
<1>2. t \in proc[i].left /\ t \in TAs
  <2>1. proc[i].left \in SUBSET Nat
    BY <1>1, ConstantsAssumption
  <2> QED
    BY <1>1, <2>1, LeastIn
<1>3. r \in Fresh /\ r \in Reqs
  <2>1. Fresh \in SUBSET Nat /\ Fresh \subseteq Reqs /\ Fresh # {}
    BY ConstantsAssumption DEF Fresh, FileOne
  <2> QED
    BY <2>1, LeastIn
<1>4. b \in Reqs
  <2>1. Written(i) \cup {r} \subseteq Reqs
    BY <1>3 DEF Written
  <2>2. Written(i) \cup {r} \in SUBSET Nat
    BY <2>1, ConstantsAssumption
  <2> QED
    BY <2>1, <2>2, LeastIn
<1>5. PICK d \in Duties :
        LET new  == [Blank EXCEPT !.status = "submitted", !.course = proc[i].course,
                         !.batch = b, !.sound = d[1], !.off = d[2],
                         !.asg = [k \in Pairs |-> IF k[1] = t /\ k[2] \in proc[i].secs
                                                  THEN "active" ELSE "none"]]
            v    == [View(i) EXCEPT ![r] = new]
        IN  IF table[t] = Unfiled
            THEN Become(i, [proc[i] EXCEPT !.left = @ \ {t}, !.work[r] = new])
            ELSE /\ LocksFree(i, {t})
                 /\ Become(i, [proc[i] EXCEPT !.left = @ \ {t}, !.locks = @ \cup {t},
                                              !.work[r] = Verdict(v, r)])
  BY DEF FileOne
<1> HIDE DEF t, r, b
<1> DEFINE asg == [k \in Pairs |-> IF k[1] = t /\ k[2] \in proc[i].secs THEN "active" ELSE "none"]
           new == [Blank EXCEPT !.status = "submitted", !.course = proc[i].course,
                         !.batch = b, !.sound = d[1], !.off = d[2], !.asg = asg]
           v   == [View(i) EXCEPT ![r] = new]
           w   == Verdict(v, r)
           p   == [proc[i] EXCEPT !.left = @ \ {t}, !.work[r] = new]
           q   == [proc[i] EXCEPT !.left = @ \ {t}, !.locks = @ \cup {t}, !.work[r] = w]
<1>6. Become(i, p) \/ (LocksFree(i, {t}) /\ Become(i, q))
  BY <1>5
<1>7. /\ asg \in [Pairs -> AsgStates]
      /\ \A k \in Pairs : asg[k] # "dropped" /\ (asg[k] # "none" => k[1] = t)
  BY DEF AsgStates
<1>8. d[1] \in BOOLEAN /\ d[2] \in BOOLEAN /\ proc[i].course \in Courses \cup {Nobody}
  BY <1>1, ConstantsAssumption DEF Proc
<1> HIDE DEF asg
<1>9. new \in Row /\ new.status = "submitted" /\ new.asg = asg
  BY <1>4, <1>7, <1>8, BlankRow DEF Blank, Row, Statuses
<1> HIDE DEF new
<1>10. Whole(new) /\ Staff(new) \subseteq {t}
  BY <1>7, <1>9 DEF Whole, Kept, Staff, OnIt
<1>11. /\ v \in [Reqs -> Row] /\ v[r] = new
       /\ \A u \in Reqs \ {r} : v[u] = View(i)[u]
  BY <1>3, <1>9, ViewRows
<1> HIDE DEF v
<1>12. \A u \in Reqs : Kept(v[u])
  <2>1. \A u \in Reqs : Kept(View(i)[u])
    BY ViewRows DEF AptInv, Apt, Whole
  <2> QED
    BY <1>10, <1>11, <2>1 DEF Whole
<1>13. /\ Whole(w) /\ OnIt(w) = OnIt(new)
       /\ w.status = "approved" =>
             \A y : y[r] = w /\ (\A u \in Reqs \ {r} : y[u] = v[u]) => Fits(y, r, cap)
  BY <1>3, <1>11, <1>12, VerdictFits
<1>14. w.status # "none"
  BY <1>3, <1>11, VerdictRow
<1> HIDE DEF w
<1>15. Staff(w) \subseteq {t}
  BY <1>10, <1>13 DEF Staff
<1>16. /\ p.at = "filing" /\ p.left = proc[i].left \ {t} /\ p.locks = proc[i].locks
       /\ p.work = [proc[i].work EXCEPT ![r] = new]
  BY <1>1 DEF Proc
<1>17. /\ q.at = "filing" /\ q.left = proc[i].left \ {t} /\ q.locks = proc[i].locks \cup {t}
       /\ q.work = [proc[i].work EXCEPT ![r] = w]
  BY <1>1 DEF Proc
<1> HIDE DEF p, q
<1>18. CASE Become(i, p)
  <2>1. \A j \in Procs \ {i} : p.locks \cap proc[j].locks = {}
    BY <1>16, LocksKept
  <2> QED
    BY <1>1, <1>2, <1>3, <1>9, <1>10, <1>16, <1>18, <2>1, FilingApt
<1>19. CASE LocksFree(i, {t}) /\ Become(i, q)
  <2>1. \A j \in Procs \ {i} : q.locks \cap proc[j].locks = {}
    BY <1>17, <1>19 DEF LocksFree, AptInv, LocksApart
  <2>2. w.status = "approved" =>
          /\ t \in q.locks
          /\ \A y : y[r] = w /\ (\A u \in Reqs \ {r} : y[u] = View(i)[u])
                       => Fits(y, r, cap)
    BY <1>11, <1>13, <1>17
  <2>3. proc[i].locks \subseteq q.locks
    BY <1>17
  <2> QED
    BY <1>1, <1>2, <1>3, <1>13, <1>14, <1>15, <1>17, <1>19, <2>1, <2>2, <2>3, FilingApt
<1> QED
  BY <1>6, <1>18, <1>19

-----------------------------------------------------------------------------
(* The steps that only list, begin or give up.                               *)
LEMMA BeginApt ==
  ASSUME ReqInv, AptInv, NEW i \in Procs,
         CreateCheck(i) \/ SweepFinalize(i) \/ SweepDigest(i) \/ SaveTimetable(i) \/ Crash(i)
  PROVE  AptInv'
<1>1. UNCHANGED <<req, cap>>
  BY DEF CreateCheck, SweepFinalize, SweepDigest, SaveTimetable, Crash, TablesKept
<1>2. \E p : Become(i, p) /\ p.work = NoWork /\ p.locks = {}
  <2>1. Idle.work = NoWork /\ Idle.locks = {}
    BY DEF Idle
  <2>2. CASE CreateCheck(i)
    <3>1. PICK T, c, S : Become(i, [Idle EXCEPT !.at = "filing", !.left = T, !.course = c, !.secs = S])
      BY <2>2 DEF CreateCheck
    <3> DEFINE p == [Idle EXCEPT !.at = "filing", !.left = T, !.course = c, !.secs = S]
    <3>2. p.work = NoWork /\ p.locks = {}
      BY DEF Idle
    <3> QED
      BY <3>1, <3>2
  <2>3. CASE SweepFinalize(i)
    <3>1. PICK r : Become(i, [Idle EXCEPT !.at = "decide", !.on = r])
      BY <2>3 DEF SweepFinalize
    <3> DEFINE p == [Idle EXCEPT !.at = "decide", !.on = r]
    <3>2. p.work = NoWork /\ p.locks = {}
      BY DEF Idle
    <3> QED
      BY <3>1, <3>2
  <2>4. CASE SweepDigest(i)
    <3>1. PICK b : Become(i, [Idle EXCEPT !.at = "tell", !.on = b])
      BY <2>4 DEF SweepDigest
    <3> DEFINE p == [Idle EXCEPT !.at = "tell", !.on = b]
    <3>2. p.work = NoWork /\ p.locks = {}
      BY DEF Idle
    <3> QED
      BY <3>1, <3>2
  <2>5. CASE SaveTimetable(i)
    <3>1. PICK t : Become(i, [Idle EXCEPT !.at = "listed", !.to = "refiled", !.ta = t])
      BY <2>5 DEF SaveTimetable
    <3> DEFINE p == [Idle EXCEPT !.at = "listed", !.to = "refiled", !.ta = t]
    <3>2. p.work = NoWork /\ p.locks = {}
      BY DEF Idle
    <3> QED
      BY <3>1, <3>2
  <2>6. CASE Crash(i)
    BY <2>1, <2>6 DEF Crash
  <2> QED
    BY <2>2, <2>3, <2>4, <2>5, <2>6
<1> QED
  BY <1>1, <1>2, QuietApt

LEMMA ListApt ==
  ASSUME ReqInv, AptInv, NEW i \in Procs, ListedFinalize(i) \/ ListSubmitted(i) \/ ListDecided(i)
  PROVE  AptInv'
<1>1. proc[i] \in Proc /\ proc[i].work = NoWork /\ UNCHANGED <<req, cap>>
  BY CallType DEF ListedFinalize, ListSubmitted, ListDecided, TablesKept
<1>2. \E p : Become(i, p) /\ p.work = NoWork /\ p.locks \subseteq proc[i].locks
  <2>1. CASE ListedFinalize(i)
    <3>1. PICK r : LET p == [proc[i] EXCEPT !.todo = @ \ {r}]
                   IN  Become(i, IF Filed(req[r])
                                 THEN [p EXCEPT !.at = "decide", !.to = "refiled", !.on = r] ELSE p)
      BY <2>1 DEF ListedFinalize
    <3> DEFINE p == [proc[i] EXCEPT !.todo = @ \ {r}]
               q == [p EXCEPT !.at = "decide", !.to = "refiled", !.on = r]
    <3>2. /\ p.work = NoWork /\ p.locks = proc[i].locks
          /\ q.work = NoWork /\ q.locks = proc[i].locks
      BY <1>1 DEF Proc
    <3>3. Become(i, p) \/ Become(i, q)
      BY <3>1
    <3> HIDE DEF p, q
    <3> QED
      BY <3>2, <3>3
  <2>2. CASE ListSubmitted(i)
    <3> DEFINE p == [proc[i] EXCEPT !.at = "refiled",
                       !.todo = {r \in Reqs : /\ req[r].status = "submitted"
                                              /\ proc[i].ta \in Staff(req[r])}]
    <3>1. Become(i, p)
      BY <2>2 DEF ListSubmitted
    <3>2. p.work = NoWork /\ p.locks = proc[i].locks
      BY <1>1 DEF Proc
    <3> QED
      BY <3>1, <3>2
  <2>3. CASE ListDecided(i)
    <3>1. PICK S : Become(i, Idle) \/ Become(i, [proc[i] EXCEPT !.at = "recheck", !.to = "recheck",
                                                               !.todo = S])
      BY <2>3 DEF ListDecided
    <3> DEFINE p == [proc[i] EXCEPT !.at = "recheck", !.to = "recheck", !.todo = S]
    <3>2. p.work = NoWork /\ p.locks = proc[i].locks /\ Idle.work = NoWork /\ Idle.locks = {}
      BY <1>1 DEF Proc, Idle
    <3> HIDE DEF p
    <3> QED
      BY <3>1, <3>2 DEF p
  <2> QED
    BY <2>1, <2>2, <2>3
<1> QED
  BY <1>1, <1>2, QuietApt

(* The commits of a submission, of a verdict and of the marks.               *)
LEMMA CommitsApt ==
  ASSUME ReqInv, AptInv, NEW i \in Procs, CreateCommit(i) \/ Commit(i) \/ FlushMark(i)
  PROVE  AptInv'
<1>1. req' = View(i) /\ cap' = cap /\ proc[i] \in Proc
  BY CallType DEF CreateCommit, Commit, FlushMark
<1>2. Idle.work = NoWork /\ Idle.locks = {}
  BY DEF Idle
<1>3. Released(i).work = NoWork /\ Released(i).locks = {}
  BY <1>1 DEF Released, Proc
<1>4. \E p : Become(i, p) /\ p.work = NoWork /\ p.locks = {}
  <2>1. CASE CreateCommit(i)
    <3>1. PICK b : Become(i, [Idle EXCEPT !.at = "tell", !.on = b])
      BY <2>1 DEF CreateCommit
    <3> DEFINE p == [Idle EXCEPT !.at = "tell", !.on = b]
    <3>2. p.work = NoWork /\ p.locks = {}
      BY DEF Idle
    <3> QED
      BY <3>1, <3>2
  <2>2. CASE Commit(i)
    <3>1. PICK a, b : Become(i, [Released(i) EXCEPT !.at = a, !.on = b])
      BY <2>2 DEF Commit
    <3> DEFINE p == [Released(i) EXCEPT !.at = a, !.on = b]
    <3>2. p.work = NoWork /\ p.locks = {}
      BY <1>1 DEF Released, Proc
    <3> QED
      BY <3>1, <3>2
  <2>3. CASE FlushMark(i)
    <3>1. Done(i).work = NoWork /\ Done(i).locks = {}
      BY <1>1, <1>2 DEF Done, Released, Proc
    <3> QED
      BY <2>3, <3>1 DEF FlushMark
  <2> QED
    BY <2>1, <2>2, <2>3
<1> QED
  BY <1>1, <1>4, CommitApt

-----------------------------------------------------------------------------
(* The steps that write rows directly.                                       *)
LEMMA TouchApt ==
  ASSUME ReqInv, AptInv, NEW i \in Procs, NEW p, Become(i, p), cap' = cap, p.work = NoWork,
         p.locks = {}, Framed(i), \A r \in Reqs : Whole(req'[r]),
         \A q \in Approved(req') : Alike(req'[q], req[q])
  PROVE  AptInv'
<1>1. Booked(req', cap)
  BY CapNat, BookedStays DEF AptInv
<1>2. Apt(p, req', cap)
  BY NothingClaimed
<1> QED
  BY <1>1, <1>2, StepApt

LEMMA HushApt ==
  ASSUME ReqInv, AptInv, NEW i \in Procs, Hush(i)
  PROVE  AptInv'
<1> DEFINE r == proc[i].on
           x == [req[r] EXCEPT !.told = TRUE]
<1>1. /\ r \in Reqs /\ req[r].status # "none" /\ RowFree(i, r) /\ proc[i] \in Proc
      /\ req \in [Reqs -> Row] /\ Become(i, Done(i)) /\ cap' = cap
      /\ req' = [req EXCEPT ![r] = x]
  BY CallType DEF Good, Hush
<1>2. req[r] \in Row /\ Whole(req[r])
  BY <1>1 DEF AptInv
<1>3. /\ x.status = req[r].status /\ x.why = req[r].why /\ x.course = req[r].course
      /\ x.asg = req[r].asg
  BY <1>2 DEF Row
<1> HIDE DEF x, r
<1>4. Whole(x) /\ OnIt(x) = OnIt(req[r])
  BY <1>2, <1>3 DEF Whole, Kept, OnIt
<1>5. req'[r] = x /\ \A q \in Reqs \ {r} : req'[q] = req[q]
  BY <1>1
<1>6. \A q \in Reqs : Whole(req'[q])
  BY <1>4, <1>5 DEF AptInv
<1>7. \A q \in Approved(req') : Alike(req'[q], req[q])
  BY <1>3, <1>4, <1>5 DEF Approved, Alike
<1>8. Framed(i)
  <2>1. \A j \in Procs \ {i} : r \notin Wrote(proc[j])
    BY <1>1, RowUnwritten
  <2>2. \A j \in Procs : Wrote(proc[j]) \subseteq Reqs
    BY DEF Wrote
  <2> QED
    BY <1>1, <1>3, <1>5, <2>1, <2>2 DEF Framed
<1>9. Done(i).work = NoWork /\ Done(i).locks = {}
  BY <1>1, DoneCall DEF Done, Idle, Released, Proc
<1>10. PICK p : p = Done(i)
  OBVIOUS
<1> QED
  BY <1>1, <1>6, <1>7, <1>8, <1>9, <1>10, TouchApt

LEMMA PartKept ==
  ASSUME NEW old \in Row, Kept(old), NEW r, NEW t
  PROVE  Whole(Part(old, r, t)) /\ Part(old, r, t).status = "submitted"
  BY DEF Part, Row, Whole, Kept

LEMMA SplitApt ==
  ASSUME ReqInv, AptInv, NEW i \in Procs, SplitLegacy(i)
  PROVE  AptInv'
<1>1. PICK r \in Reqs :
        /\ RowFree(i, r) /\ Splittable(r)
        /\ LET rest == Staff(req[r]) \ {Least(Staff(req[r]))} IN
           \E ids \in [rest -> Fresh] :
              /\ req' = [q \in Reqs |->
                           IF q = r THEN Part(req[r], r, Least(Staff(req[r])))
                           ELSE IF \E t \in rest : ids[t] = q
                           THEN Part(req[r], r, CHOOSE t \in rest : ids[t] = q)
                           ELSE req[q]]
              /\ Become(i, [Idle EXCEPT !.at = "refiled", !.quiet = TRUE,
                              !.todo = {r} \cup {ids[t] : t \in rest}])
  BY DEF SplitLegacy
<1> DEFINE rest == Staff(req[r]) \ {Least(Staff(req[r]))}
<1>2. PICK ids \in [rest -> Fresh] :
        /\ req' = [q \in Reqs |->
                     IF q = r THEN Part(req[r], r, Least(Staff(req[r])))
                     ELSE IF \E t \in rest : ids[t] = q
                     THEN Part(req[r], r, CHOOSE t \in rest : ids[t] = q)
                     ELSE req[q]]
        /\ Become(i, [Idle EXCEPT !.at = "refiled", !.quiet = TRUE,
                        !.todo = {r} \cup {ids[t] : t \in rest}])
  BY <1>1
<1> DEFINE new == {ids[t] : t \in rest}
           p   == [Idle EXCEPT !.at = "refiled", !.quiet = TRUE, !.todo = {r} \cup new]
<1>3. /\ cap' = cap /\ Become(i, p) /\ req[r] \in Row /\ Kept(req[r])
      /\ req[r].status \in {"submitted", "rejected"}
  BY <1>1, <1>2, CallType DEF SplitLegacy, AptInv, Whole, Splittable
<1>4. \A q \in new : q \in Reqs /\ req[q].status = "none" /\ \A j \in Procs : q \notin Wrote(proc[j])
  BY <1>2 DEF Fresh, Written, Wrote
<1>5. \A q \in Reqs : \/ q \in {r} \cup new /\ \E t : req'[q] = Part(req[r], r, t)
                      \/ q \notin {r} \cup new /\ req'[q] = req[q]
  BY <1>2
<1>6. p.work = NoWork /\ p.locks = {}
  BY DEF Idle
<1> HIDE DEF p, rest, new
<1>7. \A q \in Reqs : \/ req'[q] = req[q] /\ q \notin {r} \cup new
                      \/ Whole(req'[q]) /\ req'[q].status = "submitted" /\ q \in {r} \cup new
  BY <1>3, <1>5, PartKept
<1>8. \A q \in Reqs : Whole(req'[q])
  BY <1>7 DEF AptInv
<1>9. \A q \in Approved(req') : Alike(req'[q], req[q])
  BY <1>7 DEF Approved, Alike
<1>10. Framed(i)
  <2>1. \A j \in Procs \ {i} : r \notin Wrote(proc[j])
    BY <1>1, <1>3, RowUnwritten
  <2>2. \A j \in Procs : Wrote(proc[j]) \subseteq Reqs
    BY DEF Wrote
  <2> QED
    BY <1>4, <1>7, <2>1, <2>2 DEF Framed
<1> QED
  BY <1>3, <1>6, <1>8, <1>9, <1>10, TouchApt

(* Steps of no call.                                                         *)
LEMMA AroundApt ==
  ASSUME ReqInv, AptInv, UNCHANGED <<cap, proc>>, \A r \in Reqs : Whole(req'[r]),
         \A j \in Procs : \A r \in Wrote(proc[j]) : req'[r] = req[r],
         \A q \in Approved(req') : Alike(req'[q], req[q])
  PROVE  AptInv'
<1>1. Booked(req', cap)
  BY CapNat, BookedStays DEF AptInv
<1>2. \A j \in Procs : Apt(proc[j], req', cap)
  BY CapNat, AptFrame DEF AptInv
<1> QED
  BY <1>1, <1>2 DEF AptInv, LocksApart

LEMMA DutiesApt ==
  ASSUME ReqInv, AptInv, NEW r \in Reqs, SetDuties(r)
  PROVE  AptInv'
<1> DEFINE x == [req[r] EXCEPT !.off = ~@]
<1>1. /\ req \in [Reqs -> Row] /\ UNCHANGED <<cap, proc>> /\ req' = [req EXCEPT ![r] = x]
      /\ \A j \in Procs : r \notin Wrote(proc[j])
  BY DEF SetDuties, Written, Wrote, ReqInv, Tables
<1>2. /\ x.status = req[r].status /\ x.why = req[r].why /\ x.course = req[r].course
      /\ x.asg = req[r].asg /\ Whole(req[r])
  BY <1>1 DEF Row, AptInv
<1> HIDE DEF x
<1>3. Whole(x) /\ OnIt(x) = OnIt(req[r])
  BY <1>2 DEF Whole, Kept, OnIt
<1>4. req'[r] = x /\ \A q \in Reqs \ {r} : req'[q] = req[q]
  BY <1>1
<1>5. \A q \in Reqs : Whole(req'[q])
  BY <1>3, <1>4 DEF AptInv
<1>6. \A q \in Approved(req') : Alike(req'[q], req[q])
  BY <1>2, <1>3, <1>4 DEF Approved, Alike
<1>7. \A j \in Procs : \A q \in Wrote(proc[j]) : req'[q] = req[q]
  BY <1>1, <1>4 DEF Wrote
<1> QED
  BY <1>1, <1>5, <1>6, <1>7, AroundApt

LEMMA OutsideApt ==
  ASSUME ReqInv, AptInv, UNCHANGED <<req, cap, proc>>
  PROVE  AptInv'
<1>1. \A q \in Approved(req') : Alike(req'[q], req[q])
  BY DEF Approved, Alike
<1>2. \A r \in Reqs : Whole(req'[r])
  BY DEF AptInv
<1> QED
  BY <1>1, <1>2, AroundApt

-----------------------------------------------------------------------------
LEMMA InitApt ==
  ASSUME Steady, Init
  PROVE  AptInv
<1>1. PICK rec \in Legacy : req = [r \in Reqs |-> IF r = Least(Reqs) THEN rec ELSE Blank]
  BY DEF Init
<1>2. Whole(rec) /\ rec.status # "approved" /\ Whole(Blank) /\ Blank.status = "none"
  BY DEF Steady, Whole, Kept, Blank
<1>3. /\ \A r \in Reqs : Whole(req[r]) /\ req[r].status # "approved"
  BY <1>1, <1>2
<1>4. Booked(req, cap)
  BY <1>3 DEF Booked, Approved
<1>5. \A j \in Procs : Apt(proc[j], req, cap) /\ proc[j].locks = {}
  BY NothingClaimed, IdleCall DEF Init, Idle
<1>6. LocksApart
  BY <1>5 DEF LocksApart
<1> QED
  BY <1>3, <1>4, <1>5, <1>6 DEF AptInv

LEMMA NextApt ==
  ASSUME Steady, ReqInv, AptInv, [Next]_vars
  PROVE  AptInv'
<1>1. CASE UNCHANGED vars
  BY <1>1, OutsideApt DEF vars
<1>2. CASE \E i \in Procs : Begin(i)
  <2>1. PICK i \in Procs : Begin(i)
    BY <1>2
  <2>2. CASE CreateCheck(i) \/ SaveTimetable(i) \/ SweepFinalize(i) \/ SweepDigest(i)
    BY <2>2, BeginApt
  <2>3. CASE CancelJudge(i)
    BY <2>3, CancelApt
  <2>4. ~AddSections(i)
    BY DEF Steady, AddSections
  <2>5. CASE SplitLegacy(i)
    BY <2>5, SplitApt
  <2> QED
    BY <2>1, <2>2, <2>3, <2>4, <2>5 DEF Begin
<1>3. CASE \E i \in Procs : Proceed(i)
  <2>1. PICK i \in Procs : Proceed(i)
    BY <1>3
  <2>2. CASE FileOne(i)
    BY <2>2, FileApt
  <2>3. CASE CreateCommit(i) \/ Commit(i) \/ FlushMark(i)
    BY <2>3, CommitsApt
  <2>4. CASE ListedFinalize(i) \/ ListSubmitted(i) \/ ListDecided(i)
    BY <2>4, ListApt
  <2>5. CASE FinalizeJudge(i)
    BY <2>5, JudgeApt
  <2>6. CASE Hush(i)
    BY <2>6, HushApt
  <2>7. CASE FlushRead(i)
    BY <2>7, FlushApt
  <2>8. CASE RecheckNext(i)
    BY <2>8, RecheckApt
  <2> QED
    BY <2>1, <2>2, <2>3, <2>4, <2>5, <2>6, <2>7, <2>8 DEF Proceed
<1>4. CASE Around
  <2>1. CASE \E r \in Reqs : SetDuties(r)
    BY <2>1, DutiesApt
  <2>2. CASE \E i \in Procs : Crash(i)
    BY <2>2, BeginApt
  <2>3. CASE ~(\E r \in Reqs : SetDuties(r)) /\ ~(\E i \in Procs : Crash(i))
    <3>1. UNCHANGED <<req, cap, proc>>
      BY <1>4, <2>3 DEF Around, LogWork, Issue, Day
    <3> QED
      BY <3>1, OutsideApt
  <2> QED
    BY <2>1, <2>2, <2>3
<1> QED
  BY <1>1, <1>2, <1>3, <1>4 DEF Next

LEMMA AptAlways ==
  ASSUME Steady
  PROVE  Spec => []AptInv
<1>1. Init => AptInv
  BY InitApt
<1>2. ReqInv /\ AptInv /\ [Next]_vars => AptInv'
  BY NextApt
<1> QED
  BY <1>1, <1>2, InvAlways, PTL DEF Spec

(* No TA is approved on more courses than the cap, whatever requests for     *)
(* them are decided at once, as long as no section has to be given back.     *)
THEOREM CapIsHeld ==
  ASSUME Steady
  PROVE  Spec => []CapHolds
<1>1. ReqInv /\ AptInv => CapHolds
  <2> SUFFICES ASSUME ReqInv, AptInv, NEW t \in TAs
               PROVE  Cardinality({c \in Courses : \E r \in Reqs :
                         req[r].status = "approved" /\ req[r].course = c /\ Holds(req[r], t)}) <= cap
    BY DEF CapHolds
  <2> DEFINE C == {c \in Courses : \E r \in Reqs :
                     req[r].status = "approved" /\ req[r].course = c /\ Holds(req[r], t)}
  <2>1. C \subseteq Taken(req, t)
    BY DEF Taken, Approved, Holds, Held, Staff, OnIt
  <2>2. CASE C = {}
    BY <2>2, CapNat, FS_EmptySet
  <2>3. CASE C # {}
    <3>1. Cardinality(Taken(req, t)) <= cap
      BY <2>1, <2>3 DEF AptInv, Booked, Fits, Taken
    <3>2. Cardinality(C) <= Cardinality(Taken(req, t)) /\ Cardinality(C) \in Nat
      BY <2>1, TakenFinite, FS_Subset, FS_CardinalityType
    <3> QED
      BY <3>1, <3>2, CapNat, TakenFinite
  <2> QED
    BY <2>2, <2>3
<1> QED
  BY <1>1, AptAlways, InvAlways, PTL

(* No TA is approved twice on one course.                                    *)
THEOREM NobodyTwiceOnACourse ==
  ASSUME Steady
  PROVE  Spec => []OneApprovedPerCourse
<1>1. AptInv => OneApprovedPerCourse
  <2> SUFFICES ASSUME AptInv, NEW q \in Reqs, NEW r \in Reqs \ {q}, NEW t \in TAs,
                      req[q].status = "approved", req[r].status = "approved",
                      Holds(req[q], t), Holds(req[r], t)
               PROVE  req[q].course # req[r].course
    BY DEF OneApprovedPerCourse
  <2>1. Distant(req[q], req[r])
    BY DEF AptInv, Booked, Fits, Approved
  <2> QED
    BY <2>1 DEF Distant, Holds, Held, OnIt
<1> QED
  BY <1>1, AptAlways, PTL

(* No TA is appointed to two places at once.                                 *)
THEOREM NobodyInTwoPlaces ==
  ASSUME Steady
  PROVE  Spec => []NoDoubleBooking
<1>1. AptInv => NoDoubleBooking
  <2> SUFFICES ASSUME AptInv, NEW q \in Reqs, NEW r \in Reqs,
                      req[q].status = "approved", req[r].status = "approved",
                      req[q].course # req[r].course,
                      NEW k \in Held(req[q]), NEW l \in Held(req[r]), k[1] = l[1]
               PROVE  <<k[2], l[2]>> \notin Overlaps
    BY DEF NoDoubleBooking
  <2>1. Distant(req[q], req[r])
    BY DEF AptInv, Booked, Fits, Approved
  <2> QED
    BY <2>1 DEF Distant, Held, OnIt
<1> QED
  BY <1>1, AptAlways, PTL
=============================================================================
