--------------------------- MODULE CoursesProofs ---------------------------
(***************************************************************************)
(* What the lock of a course row is worth, proved for every set of         *)
(* courses, sections, codes and calls: the roster of an exported course    *)
(* stands, a lecturer fills a blank, what a request names is there.  At    *)
(* the end, the types and the head counts (CountInv): every operation, on  *)
(* the image it will store, keeps the columns the sums of the sections.    *)
(***************************************************************************)
EXTENDS Courses, Sums

Fields == {"no", "code", "track", "n", "times", "spent"}

(* The part of IsCourse that the arguments below use. *)
Shaped(r) == /\ {"code", "alts", "cols", "hrs", "exported", "secs"} = DOMAIN r
             /\ r.exported \in BOOLEAN
             /\ DOMAIN r.secs \subseteq SecIds
             /\ \A s \in DOMAIN r.secs : DOMAIN r.secs[s] = Fields

Shapes ==
    /\ Open \subseteq Ids /\ \A k \in Open : Shaped(courses[k])
    /\ DOMAIN call = Calls /\ \A i \in Calls : DOMAIN call[i] = DOMAIN Idle
    /\ wanted \in [Ids -> SUBSET SecIds]
    /\ hours \in [Ids -> [SecIds -> [Sittings -> {"none", "sent", "approved"}]]]
    /\ due \subseteq Ids /\ month \in [Ids -> {"none", "exported", "finance_sent"}]
    /\ \A i \in Calls : call[i].at = "held" => Shaped(call[i].image)

(* Two calls never hold one course. *)
Alone == \A i, j \in Calls :
    call[i].at = "held" /\ call[j].at = "held" /\ call[i].k = call[j].k => i = j

(* What a call has decided is still right, for its commit to write. *)
Untouched == {"numbers", "info", "delete"}
After(i)  == IF call[i].op = "fold" /\ call[i].from \in wanted[call[i].k]
             THEN (wanted[call[i].k] \ {call[i].from}) \cup {call[i].into}
             ELSE wanted[call[i].k]
Blank(r, s) == s \in DOMAIN r.secs /\ r.secs[s].times = "none" /\ ~r.secs[s].spent
StillRight(i) == call[i].at = "held" =>
    /\ call[i].k \in Open
    /\ call[i].op \notin Untouched => ~courses[call[i].k].exported
    /\ call[i].op = "delete" => wanted[call[i].k] = {}
    /\ call[i].op # "delete" =>
           /\ call[i].op \in Untouched => Roster(call[i].image) = Roster(courses[call[i].k])
           /\ After(i) \subseteq DOMAIN call[i].image.secs
    /\ call[i].op = "fold" =>
           /\ call[i].from \in SecIds /\ call[i].into \in SecIds \ {call[i].from}
           /\ call[i].into \in DOMAIN call[i].image.secs
    /\ call[i].op = "times" /\ call[i].lecturer => Blank(courses[call[i].k], call[i].into)

(* A month is exported, or a course flagged, only with a TA on a section.   *)
Grounded == \A k \in Ids :
    k \in due \/ month[k] # "none" \/ (k \in Open /\ courses[k].exported) => wanted[k] # {}

CoursesInv == Shapes /\ Alone /\ Grounded /\ WantedKept /\ \A i \in Calls : StillRight(i)

-----------------------------------------------------------------------------
(* What the helpers keep of a course.                                      *)
LEMMA RecomputedKeeps ==
    ASSUME NEW r, Shaped(r)
    PROVE  /\ Shaped(Recomputed(r)) /\ Recomputed(r).secs = r.secs
           /\ Recomputed(r).exported = r.exported
  BY DEF Recomputed, Shaped

LEMMA WithSectionKeeps ==
    ASSUME NEW r, Shaped(r), NEW s \in SecIds, NEW no, NEW c, NEW t, NEW n, NEW w
    PROVE  LET q == WithSection(r, s, NewRow(no, c, t, n, w))
           IN  Shaped(q) /\ DOMAIN q.secs = DOMAIN r.secs \cup {s}
  <1> DEFINE row == NewRow(no, c, t, n, w)
             q   == WithSection(r, s, row)
  <1>1. DOMAIN row = Fields
    BY DEF NewRow, Fields
  <1> HIDE DEF row
  <1>2. q.secs = [x \in DOMAIN r.secs \cup {s} |-> IF x = s THEN row ELSE r.secs[x]]
    BY DEF WithSection, Shaped
  <1>3. DOMAIN q = DOMAIN r /\ q.exported = r.exported
    BY DEF WithSection, Shaped
  <1> HIDE DEF q
  <1>4. DOMAIN q.secs = DOMAIN r.secs \cup {s}
    BY <1>2
  <1>5. \A x \in DOMAIN q.secs : DOMAIN q.secs[x] = Fields
    BY <1>1, <1>2, <1>4 DEF Shaped
  <1>6. Shaped(q)
    BY <1>3, <1>4, <1>5 DEF Shaped
  <1> QED
    BY <1>4, <1>6 DEF q, row

LEMMA WithoutSectionKeeps ==
    ASSUME NEW r, Shaped(r), NEW s
    PROVE  /\ Shaped(WithoutSection(r, s))
           /\ DOMAIN WithoutSection(r, s).secs = DOMAIN r.secs \ {s}
  BY DEF WithoutSection, Shaped

LEMMA PromotedKeeps ==
    ASSUME NEW r, Shaped(r), NEW q \in Promoted(r)
    PROVE  Shaped(q) /\ q.secs = r.secs /\ q.exported = r.exported
  BY DEF Promoted, Shaped

LEMMA SizedKeeps ==
    ASSUME NEW r, Shaped(r), NEW f, NEW g
    PROVE  /\ Shaped(Sized(r, f, g)) /\ Roster(Sized(r, f, g)) = Roster(r)
           /\ DOMAIN Sized(r, f, g).secs = DOMAIN r.secs
  <1> DEFINE q == Sized(r, f, g)
             n(s) == IF s \in DOMAIN f THEN f[s] ELSE g[s]
  <1>1. q.secs = [s \in DOMAIN r.secs |-> [r.secs[s] EXCEPT !.n = n(s)]]
    BY DEF Sized, Shaped
  <1>2. Shaped(q)
    BY <1>1 DEF Sized, Shaped, Fields
  <1>3. ASSUME NEW s \in DOMAIN r.secs
        PROVE  [q.secs[s] EXCEPT !.n = 0, !.spent = FALSE] =
                   [r.secs[s] EXCEPT !.n = 0, !.spent = FALSE]
    <2>1. q.secs[s] = [r.secs[s] EXCEPT !.n = n(s)]
      BY <1>1
    <2>2. DOMAIN r.secs[s] = Fields
      BY DEF Shaped
    <2> QED
      BY <2>1, <2>2 DEF Fields
  <1>4. DOMAIN q.secs = DOMAIN r.secs
    BY <1>1
  <1> QED
    BY <1>2, <1>3, <1>4 DEF Roster

LEMMA SyncedKeeps ==
    ASSUME NEW r, Shaped(r), NEW cols, NEW q \in Synced(r, cols)
    PROVE  Shaped(q) /\ Roster(q) = Roster(r) /\ DOMAIN q.secs = DOMAIN r.secs
  <1>1. \E f, g : q = Sized(r, f, g)
    BY DEF Synced, FromRegistrar
  <1> QED
    BY <1>1, SizedKeeps

LEMMA ColsKeep ==
    ASSUME NEW r, Shaped(r), NEW c
    PROVE  /\ Shaped([r EXCEPT !.cols = c]) /\ [r EXCEPT !.cols = c].secs = r.secs
           /\ Roster([r EXCEPT !.cols = c]) = Roster(r)
  BY DEF Shaped, Roster

-----------------------------------------------------------------------------
(* Steps of a call that change no table.                                   *)

(* A call that holds nothing after its step disturbs nothing. *)
LEMMA LetGo ==
    ASSUME CoursesInv, NEW i \in Calls, NEW c, DOMAIN c = DOMAIN Idle, c.at # "held",
           call' = [call EXCEPT ![i] = c], UNCHANGED <<courses, underneath>>
    PROVE  CoursesInv'
  <1> USE DEF CoursesInv, underneath
  <1>1. \A j \in Calls : j # i => call'[j] = call[j]
    BY DEF Shapes
  <1>2. call'[i] = c /\ DOMAIN call' = Calls
    BY DEF Shapes
  <1>3. Shapes'
    BY <1>1, <1>2 DEF Shapes, Open, Idle
  <1>4. Alone'
    BY <1>1, <1>2 DEF Alone
  <1>5. \A j \in Calls : StillRight(j)'
    <2> SUFFICES ASSUME NEW j \in Calls, j # i PROVE StillRight(j)'
      BY <1>2 DEF StillRight
    <2>1. call'[j] = call[j] /\ courses' = courses /\ wanted' = wanted
      BY <1>1
    <2>2. After(j)' = After(j) /\ Open' = Open
      BY <2>1 DEF After, Open
    <2>3. StillRight(j)
      OBVIOUS
    <2> QED
      BY <2>1, <2>2, <2>3 DEF StillRight
  <1> QED
    BY <1>3, <1>4, <1>5 DEF Grounded, WantedKept, Open, Logged

(* A call that takes the lock of a free course, with an image that is right. *)
LEMMA TakesHold ==
    ASSUME CoursesInv, NEW i \in Calls, NEW c, DOMAIN c = DOMAIN Idle, CourseFree(c.k),
           call' = [call EXCEPT ![i] = c], UNCHANGED <<courses, underneath>>,
           Shaped(c.image), StillRight(i)'
    PROVE  CoursesInv'
  <1> USE DEF CoursesInv, underneath
  <1>1. \A j \in Calls : j # i => call'[j] = call[j]
    BY DEF Shapes
  <1>2. call'[i] = c /\ DOMAIN call' = Calls
    BY DEF Shapes
  <1>3. Shapes'
    BY <1>1, <1>2 DEF Shapes, Open, Idle
  <1>4. Alone'
    BY <1>1, <1>2 DEF Alone, CourseFree
  <1>5. \A j \in Calls : StillRight(j)'
    <2> SUFFICES ASSUME NEW j \in Calls, j # i PROVE StillRight(j)'
      BY <1>2 DEF StillRight
    <2>1. call'[j] = call[j] /\ courses' = courses /\ wanted' = wanted
      BY <1>1
    <2>2. After(j)' = After(j) /\ Open' = Open
      BY <2>1 DEF After, Open
    <2>3. StillRight(j)
      OBVIOUS
    <2> QED
      BY <2>1, <2>2, <2>3 DEF StillRight
  <1> QED
    BY <1>3, <1>4, <1>5 DEF Grounded, WantedKept, Open, Logged

(* The same for an edit that began inside its transaction. *)
LEMMA EditHolds ==
    ASSUME CoursesInv, NEW i \in Calls, NEW op, NEW k \in Open, NEW r, Editing(i, op, k),
           op \notin Untouched \cup {"fold"}, Edit(i, op, k, r), Shaped(r),
           wanted[k] \subseteq DOMAIN r.secs, UNCHANGED <<courses, underneath>>
    PROVE  CoursesInv'
  <1> DEFINE c == [Idle EXCEPT !.op = op, !.k = k, !.at = "held", !.image = r]
  <1>1. /\ DOMAIN c = DOMAIN Idle /\ c.k = k /\ c.at = "held" /\ c.image = r /\ c.op = op
        /\ c.lecturer = FALSE
    BY DEF Idle
  <1>2. call' = [call EXCEPT ![i] = c]
    BY DEF Edit, Hold, To, Idle
  <1>3. call'[i] = c
    BY <1>2 DEF CoursesInv, Shapes
  <1>4. After(i)' = wanted[k]
    BY <1>1, <1>3 DEF After, underneath
  <1>5. StillRight(i)'
    BY <1>1, <1>3, <1>4 DEF StillRight, Editing, underneath, Open, Untouched
  <1> QED
    BY <1>1, <1>2, <1>5, TakesHold DEF Editing

LEMMA LettingGo ==
    ASSUME CoursesInv, NEW i \in Calls,
           NumbersRead(i) \/ InfoRead(i) \/ CreateCheck(i) \/ DeleteCheck(i) \/ GiveUp(i)
    PROVE  CoursesInv'
  <1>1. UNCHANGED <<courses, underneath>>
    BY DEF NumbersRead, InfoRead, CreateCheck, DeleteCheck, GiveUp
  <1>2. ASSUME NEW c, DOMAIN c = DOMAIN Idle, c.at # "held", To(i, c)
        PROVE  CoursesInv'
    BY <1>1, <1>2, LetGo DEF To
  <1>3. CASE NumbersRead(i)
    <2>1. PICK k \in Open, sent \in SUBSET Tracks, v \in [Tracks -> Numbers] :
             LET cols == [t \in Tracks |-> IF t \in sent THEN v[t] ELSE courses[k].cols[t]]
             IN  To(i, [Idle EXCEPT !.at = "asked", !.op = "numbers", !.k = k,
                                    !.sent = sent, !.cols = cols])
      BY <1>3, Zenon DEF NumbersRead
    <2> DEFINE cols == [t \in Tracks |-> IF t \in sent THEN v[t] ELSE courses[k].cols[t]]
               c == [Idle EXCEPT !.at = "asked", !.op = "numbers", !.k = k,
                                 !.sent = sent, !.cols = cols]
    <2>2. To(i, c)
      BY <2>1
    <2> HIDE DEF cols
    <2>3. DOMAIN c = DOMAIN Idle /\ c.at # "held"
      BY DEF Idle
    <2> QED
      BY <1>2, <2>2, <2>3
  <1>4. CASE InfoRead(i)
    <2>1. PICK k \in Open :
             \/ \E c \in Codes : To(i, [Idle EXCEPT !.at = "asked", !.op = "info", !.k = k,
                                                    !.code = c, !.hrs = courses[k].hrs])
             \/ \E h \in {0, 1} : To(i, [Idle EXCEPT !.at = "asked", !.op = "info", !.k = k,
                                                     !.hrs = h])
      BY <1>4, Zenon DEF InfoRead
    <2>2. ASSUME NEW x, NEW h
          PROVE  LET c == [Idle EXCEPT !.at = "asked", !.op = "info", !.k = k, !.code = x,
                                       !.hrs = h]
                     d == [Idle EXCEPT !.at = "asked", !.op = "info", !.k = k, !.hrs = h]
                 IN  /\ DOMAIN c = DOMAIN Idle /\ c.at # "held"
                     /\ DOMAIN d = DOMAIN Idle /\ d.at # "held"
      BY DEF Idle
    <2>3. CASE \E c \in Codes : To(i, [Idle EXCEPT !.at = "asked", !.op = "info", !.k = k,
                                                   !.code = c, !.hrs = courses[k].hrs])
      BY <1>2, <2>2, <2>3
    <2> QED
      BY <1>2, <2>1, <2>2, <2>3
  <1>5. CASE CreateCheck(i)
    <2>1. PICK k \in Ids \ Open, x \in Codes :
             To(i, [Idle EXCEPT !.at = "asked", !.op = "create", !.k = k, !.code = x])
      BY <1>5, Zenon DEF CreateCheck
    <2> DEFINE c == [Idle EXCEPT !.at = "asked", !.op = "create", !.k = k, !.code = x]
    <2>2. DOMAIN c = DOMAIN Idle /\ c.at # "held"
      BY DEF Idle
    <2> QED
      BY <1>2, <2>1, <2>2
  <1>6. CASE DeleteCheck(i)
    <2>1. PICK k \in Open : To(i, [Idle EXCEPT !.at = "asked", !.op = "delete", !.k = k])
      BY <1>6, Zenon DEF DeleteCheck
    <2> DEFINE c == [Idle EXCEPT !.at = "asked", !.op = "delete", !.k = k]
    <2>2. DOMAIN c = DOMAIN Idle /\ c.at # "held"
      BY DEF Idle
    <2> QED
      BY <1>2, <2>1, <2>2
  <1>7. CASE GiveUp(i)
    <2>1. Idle.at # "held"
      BY DEF Idle
    <2> QED
      BY <1>2, <1>7, <2>1 DEF GiveUp
  <1> QED
    BY <1>3, <1>4, <1>5, <1>6, <1>7

(* Writers that looked before they had the lock. *)
LEMMA AskedHolds ==
    ASSUME CoursesInv, NEW i \in Calls, NEW r, call[i].k \in Open, CourseFree(call[i].k),
           call[i].op \in Untouched, Hold(i, call[i], r),
           Shaped(r), Roster(r) = Roster(courses[call[i].k]),
           wanted[call[i].k] \subseteq DOMAIN r.secs,
           call[i].op = "delete" => wanted[call[i].k] = {},
           UNCHANGED <<courses, underneath>>
    PROVE  CoursesInv'
  <1> DEFINE c == [call[i] EXCEPT !.at = "held", !.image = r]
  <1>1. DOMAIN call[i] = DOMAIN Idle
    BY DEF CoursesInv, Shapes
  <1>2. /\ DOMAIN c = DOMAIN Idle /\ c.k = call[i].k /\ c.at = "held" /\ c.image = r
        /\ c.op = call[i].op /\ c.lecturer = call[i].lecturer
    BY <1>1 DEF Idle
  <1>3. call' = [call EXCEPT ![i] = c]
    BY DEF Hold, To
  <1>4. call'[i] = c
    BY <1>3 DEF CoursesInv, Shapes
  <1>5. After(i)' = wanted[call[i].k]
    BY <1>2, <1>4 DEF After, Untouched, underneath
  <1>6. StillRight(i)'
    BY <1>2, <1>4, <1>5 DEF StillRight, Untouched, underneath, Open
  <1> QED
    BY <1>2, <1>3, <1>6, TakesHold

LEMMA AskedWrites ==
    ASSUME CoursesInv, NEW i \in Calls, NumbersWrite(i) \/ InfoWrite(i) \/ DeleteWrite(i)
    PROVE  CoursesInv'
  <1> DEFINE k == call[i].k
             r == courses[k]
  <1>1. k \in Open /\ CourseFree(k) /\ UNCHANGED <<courses, underneath>>
    BY DEF NumbersWrite, InfoWrite, DeleteWrite
  <1>2. Shaped(r) /\ wanted[k] \subseteq DOMAIN r.secs /\ wanted[k] \subseteq SecIds
    BY <1>1 DEF CoursesInv, Shapes, WantedKept
  <1>3. CASE NumbersWrite(i)
    <2>1. PICK q \in Synced(r, call[i].cols) : Hold(i, call[i], [q EXCEPT !.cols = call[i].cols])
      BY <1>3, Zenon DEF NumbersWrite
    <2> DEFINE z == [q EXCEPT !.cols = call[i].cols]
    <2>2. Shaped(q) /\ Roster(q) = Roster(r) /\ DOMAIN q.secs = DOMAIN r.secs
      BY <1>2, SyncedKeeps
    <2>3. Shaped(z) /\ Roster(z) = Roster(r) /\ DOMAIN z.secs = DOMAIN r.secs
      BY <2>2, ColsKeep
    <2>4. call[i].op \in Untouched \ {"delete"}
      BY <1>3 DEF NumbersWrite, Untouched
    <2> QED
      BY <1>1, <1>2, <2>1, <2>3, <2>4, AskedHolds
  <1>4. CASE InfoWrite(i)
    <2> DEFINE z == IF call[i].code = None THEN [r EXCEPT !.hrs = call[i].hrs]
                                           ELSE [r EXCEPT !.code = call[i].code]
    <2>1. Hold(i, call[i], z) /\ call[i].op \in Untouched \ {"delete"}
      BY <1>4 DEF InfoWrite, Untouched
    <2>2. Shaped(z) /\ z.secs = r.secs
      BY <1>2 DEF Shaped
    <2>3. Roster(z) = Roster(r) /\ wanted[k] \subseteq DOMAIN z.secs
      BY <1>2, <2>2 DEF Roster
    <2> HIDE DEF z
    <2> QED
      BY <1>1, <2>1, <2>2, <2>3, AskedHolds
  <1>5. CASE DeleteWrite(i)
    <2>1. wanted[k] = {}
      BY <1>2, <1>5 DEF DeleteWrite, Unwanted
    <2>2. Hold(i, call[i], r) /\ call[i].op = "delete"
      BY <1>5 DEF DeleteWrite
    <2> QED
      BY <1>1, <1>2, <2>1, <2>2, AskedHolds DEF Untouched
  <1> QED
    BY <1>3, <1>4, <1>5

-----------------------------------------------------------------------------
(* Edits that begin inside their transaction.                              *)
LEMMA AddHolds ==
    ASSUME CoursesInv, NEW i \in Calls, SectionAdd(i)
    PROVE  CoursesInv'
  <1>1. PICK k \in Open, no \in Nos, t \in Tracks, n \in Numbers, w \in {"none", "staff"} :
          \E s \in NewSection(courses[k]) :
          LET r == Recomputed(WithSection(courses[k], s, NewRow(no, None, t, n, w)))
          IN  Editing(i, "add", k) /\ Edit(i, "add", k, r)
    BY DEF SectionAdd
  <1>2. PICK s \in NewSection(courses[k]) :
          LET r == Recomputed(WithSection(courses[k], s, NewRow(no, None, t, n, w)))
          IN  Editing(i, "add", k) /\ Edit(i, "add", k, r)
    BY <1>1
  <1> DEFINE r == courses[k]
             q == WithSection(r, s, NewRow(no, None, t, n, w))
  <1>3. Shaped(r) /\ wanted[k] \subseteq DOMAIN r.secs /\ s \in SecIds
    BY DEF CoursesInv, Shapes, WantedKept, NewSection
  <1>4. Shaped(q) /\ DOMAIN r.secs \subseteq DOMAIN q.secs
    BY <1>3, WithSectionKeeps
  <1>5. Shaped(Recomputed(q)) /\ wanted[k] \subseteq DOMAIN Recomputed(q).secs
    BY <1>3, <1>4, RecomputedKeeps
  <1>6. UNCHANGED <<courses, underneath>>
    BY DEF SectionAdd
  <1> QED
    BY <1>2, <1>5, <1>6, EditHolds DEF Untouched

LEMMA ResizeHolds ==
    ASSUME CoursesInv, NEW i \in Calls, SectionUpdate(i)
    PROVE  CoursesInv'
  <1>1. PICK k \in Open : Editing(i, "resize", k) /\ \E s \in DOMAIN courses[k].secs :
           \/ \E no \in Nos : Edit(i, "resize", k, [courses[k] EXCEPT !.secs[s].no = no])
           \/ \E n \in Numbers :
                 Edit(i, "resize", k, Recomputed([courses[k] EXCEPT !.secs[s].n = n]))
    BY DEF SectionUpdate
  <1> DEFINE r == courses[k]
  <1>2. Shaped(r) /\ wanted[k] \subseteq DOMAIN r.secs
    BY DEF CoursesInv, Shapes, WantedKept
  <1>3. ASSUME NEW s \in DOMAIN r.secs, NEW v
        PROVE  LET p == [r EXCEPT !.secs[s].no = v]
                   q == [r EXCEPT !.secs[s].n = v]
               IN  /\ Shaped(p) /\ DOMAIN p.secs = DOMAIN r.secs
                   /\ Shaped(q) /\ DOMAIN q.secs = DOMAIN r.secs
    BY <1>2 DEF Shaped, Fields
  <1>4. PICK s \in DOMAIN r.secs :
           \/ \E no \in Nos : Edit(i, "resize", k, [r EXCEPT !.secs[s].no = no])
           \/ \E n \in Numbers : Edit(i, "resize", k, Recomputed([r EXCEPT !.secs[s].n = n]))
    BY <1>1
  <1>5. UNCHANGED <<courses, underneath>> /\ "resize" \notin Untouched \cup {"fold"}
    BY DEF SectionUpdate, Untouched
  <1>6. ASSUME NEW no \in Nos, Edit(i, "resize", k, [r EXCEPT !.secs[s].no = no])
        PROVE  CoursesInv'
    <2> DEFINE q == [r EXCEPT !.secs[s].no = no]
    <2>1. Shaped(q) /\ wanted[k] \subseteq DOMAIN q.secs
      BY <1>2, <1>3
    <2> HIDE DEF q
    <2> QED
      BY <1>1, <1>5, <1>6, <2>1, EditHolds DEF q
  <1>7. ASSUME NEW n \in Numbers, Edit(i, "resize", k, Recomputed([r EXCEPT !.secs[s].n = n]))
        PROVE  CoursesInv'
    <2> DEFINE q == [r EXCEPT !.secs[s].n = n]
    <2>1. Shaped(q) /\ wanted[k] \subseteq DOMAIN q.secs
      BY <1>2, <1>3
    <2>2. Edit(i, "resize", k, Recomputed(q))
      BY <1>7
    <2> HIDE DEF q
    <2>3. Shaped(Recomputed(q)) /\ wanted[k] \subseteq DOMAIN Recomputed(q).secs
      BY <2>1, RecomputedKeeps
    <2> QED
      BY <1>1, <1>5, <2>2, <2>3, EditHolds
  <1> QED
    BY <1>4, <1>6, <1>7

LEMMA DropHolds ==
    ASSUME CoursesInv, NEW i \in Calls, SectionDelete(i)
    PROVE  CoursesInv'
  <1>1. PICK k \in Open : Editing(i, "drop", k) /\ \E s \in DOMAIN courses[k].secs :
          /\ Unwanted(k, s) /\ Edit(i, "drop", k, Recomputed(WithoutSection(courses[k], s)))
    BY DEF SectionDelete
  <1>2. PICK s \in DOMAIN courses[k].secs :
          /\ Unwanted(k, s) /\ Edit(i, "drop", k, Recomputed(WithoutSection(courses[k], s)))
    BY <1>1
  <1> DEFINE r == courses[k]
             q == WithoutSection(r, s)
  <1>3. Shaped(r) /\ wanted[k] \subseteq DOMAIN r.secs
    BY DEF CoursesInv, Shapes, WantedKept
  <1>4. Shaped(q) /\ wanted[k] \subseteq DOMAIN q.secs
    BY <1>2, <1>3, WithoutSectionKeeps DEF Unwanted
  <1>5. Shaped(Recomputed(q)) /\ wanted[k] \subseteq DOMAIN Recomputed(q).secs
    BY <1>4, RecomputedKeeps
  <1>6. UNCHANGED <<courses, underneath>> /\ "drop" \notin Untouched \cup {"fold"}
    BY DEF SectionDelete, Untouched
  <1> QED
    BY <1>1, <1>2, <1>5, <1>6, EditHolds

LEMMA TimesHolds ==
    ASSUME CoursesInv, NEW i \in Calls, TimetableSave(i)
    PROVE  CoursesInv'
  <1>1. PICK k \in Open : Editing(i, "times", k) /\ \E s \in DOMAIN courses[k].secs :
           \/ \E w \in {"none", "staff"} :
                 Edit(i, "times", k, [courses[k] EXCEPT !.secs[s].times = w])
           \/ /\ Blank(courses[k], s)
              /\ Hold(i, [Idle EXCEPT !.op = "times", !.k = k, !.into = s, !.lecturer = TRUE],
                      [courses[k] EXCEPT !.secs[s].times = "lecturer", !.secs[s].spent = TRUE])
    BY DEF TimetableSave, Blank
  <1> DEFINE r == courses[k]
  <1>2. Shaped(r) /\ wanted[k] \subseteq DOMAIN r.secs
    BY DEF CoursesInv, Shapes, WantedKept
  <1>3. PICK s \in DOMAIN r.secs :
           \/ \E w \in {"none", "staff"} : Edit(i, "times", k, [r EXCEPT !.secs[s].times = w])
           \/ /\ Blank(r, s)
              /\ Hold(i, [Idle EXCEPT !.op = "times", !.k = k, !.into = s, !.lecturer = TRUE],
                      [r EXCEPT !.secs[s].times = "lecturer", !.secs[s].spent = TRUE])
    BY <1>1
  <1>4. UNCHANGED <<courses, underneath>> /\ "times" \notin Untouched \cup {"fold"}
    BY DEF TimetableSave, Untouched
  <1>5. ASSUME NEW w, Edit(i, "times", k, [r EXCEPT !.secs[s].times = w])
        PROVE  CoursesInv'
    <2> DEFINE q == [r EXCEPT !.secs[s].times = w]
    <2>1. Shaped(q) /\ wanted[k] \subseteq DOMAIN q.secs
      BY <1>2 DEF Shaped, Fields
    <2> HIDE DEF q
    <2> QED
      BY <1>1, <1>4, <1>5, <2>1, EditHolds DEF q
  <1>6. ASSUME Blank(r, s),
               Hold(i, [Idle EXCEPT !.op = "times", !.k = k, !.into = s, !.lecturer = TRUE],
                      [r EXCEPT !.secs[s].times = "lecturer", !.secs[s].spent = TRUE])
        PROVE  CoursesInv'
    <2> DEFINE q == [r EXCEPT !.secs[s].times = "lecturer", !.secs[s].spent = TRUE]
               c == [Idle EXCEPT !.op = "times", !.k = k, !.into = s, !.lecturer = TRUE,
                                 !.at = "held", !.image = q]
    <2>1. Shaped(q) /\ wanted[k] \subseteq DOMAIN q.secs
      BY <1>2 DEF Shaped, Fields
    <2>2. call' = [call EXCEPT ![i] = c]
      BY <1>6 DEF Hold, To, Idle
    <2> HIDE DEF q
    <2>3. /\ DOMAIN c = DOMAIN Idle /\ c.k = k /\ c.at = "held" /\ c.image = q /\ c.op = "times"
          /\ c.into = s
      BY DEF Idle
    <2> HIDE DEF c
    <2>4. call'[i] = c
      BY <2>2 DEF CoursesInv, Shapes
    <2>5. After(i)' = wanted[k]
      BY <1>4, <2>3, <2>4 DEF After, underneath
    <2>6. StillRight(i)'
      BY <1>1, <1>4, <1>6, <2>1, <2>3, <2>4, <2>5
      DEF StillRight, Editing, underneath, Open, Untouched
    <2> QED
      BY <1>1, <1>4, <2>1, <2>2, <2>3, <2>6, TakesHold DEF Editing
  <1> QED
    BY <1>3, <1>5, <1>6

LEMMA MergeHolds ==
    ASSUME CoursesInv, NEW i \in Calls, CodeMerge(i)
    PROVE  CoursesInv' /\ UNCHANGED <<courses, hours>>
  <1>1. PICK k \in Open, c \in Codes, no \in Nos, t \in Tracks, n \in Numbers :
        /\ Editing(i, "merge", k) /\ ~CodeTaken(c, k) /\ c \notin CodesOf(courses[k])
        /\ LET r == [courses[k] EXCEPT !.alts = @ \cup {c}]
           IN  \/ \E p \in Partner(r, no, t) : \E q \in Promoted([r EXCEPT !.secs[p].n = @ + n]) :
                     Edit(i, "merge", k, Recomputed(q))
               \/ /\ Partner(r, no, t) = {}
                  /\ \E s \in NewSection(r) :
                     \E q \in Promoted(WithSection(r, s, NewRow(no, c, t, n, "staff"))) :
                        Edit(i, "merge", k, Recomputed(q))
        /\ UNCHANGED <<courses, underneath>>
    BY DEF CodeMerge
  <1> DEFINE old == courses[k]
             r   == [old EXCEPT !.alts = @ \cup {c}]
  <1>2. Shaped(old) /\ wanted[k] \subseteq DOMAIN old.secs
    BY DEF CoursesInv, Shapes, WantedKept
  <1>3. Shaped(r) /\ r.secs = old.secs
    BY <1>2 DEF Shaped
  <1>4. UNCHANGED <<courses, underneath>> /\ "merge" \notin Untouched \cup {"fold"}
    BY <1>1 DEF Untouched
  <1> HIDE DEF r
  <1>5. ASSUME NEW z, Shaped(z), wanted[k] \subseteq DOMAIN z.secs,
               NEW q \in Promoted(z), Edit(i, "merge", k, Recomputed(q))
        PROVE  CoursesInv'
    <2>1. Shaped(q) /\ q.secs = z.secs
      BY <1>5, PromotedKeeps
    <2>2. Shaped(Recomputed(q)) /\ Recomputed(q).secs = z.secs
      BY <2>1, RecomputedKeeps
    <2> QED
      BY <1>1, <1>4, <1>5, <2>2, EditHolds
  <1>6. ASSUME NEW p \in Partner(r, no, t)
        PROVE  LET z == [r EXCEPT !.secs[p].n = @ + n]
               IN  Shaped(z) /\ DOMAIN z.secs = DOMAIN r.secs
    <2>1. p \in DOMAIN r.secs
      BY DEF Partner, Own, Class
    <2> QED
      BY <1>3, <2>1 DEF Shaped, Fields
  <1>7. ASSUME NEW s \in NewSection(r)
        PROVE  LET z == WithSection(r, s, NewRow(no, c, t, n, "staff"))
               IN  Shaped(z) /\ wanted[k] \subseteq DOMAIN z.secs
    <2>1. s \in SecIds
      BY DEF NewSection
    <2> QED
      BY <1>2, <1>3, <2>1, WithSectionKeeps
  <1>8. CASE \E p \in Partner(r, no, t) : \E q \in Promoted([r EXCEPT !.secs[p].n = @ + n]) :
                Edit(i, "merge", k, Recomputed(q))
    <2>1. CoursesInv'
      BY <1>2, <1>3, <1>5, <1>6, <1>8
    <2> QED
      BY <1>4, <2>1 DEF underneath
  <1>9. CASE \E s \in NewSection(r) :
             \E q \in Promoted(WithSection(r, s, NewRow(no, c, t, n, "staff"))) :
                Edit(i, "merge", k, Recomputed(q))
    <2>1. CoursesInv'
      BY <1>5, <1>7, <1>9
    <2> QED
      BY <1>4, <2>1 DEF underneath
  <1> QED
    BY <1>1, <1>4, <1>8, <1>9 DEF r, underneath

LEMMA FoldHolds ==
    ASSUME CoursesInv, NEW i \in Calls, SectionFold(i)
    PROVE  CoursesInv'
  <1>1. PICK k \in Open : Editing(i, "fold", k) /\
           \E s, p \in DOMAIN courses[k].secs : s # p /\
              LET r == [courses[k] EXCEPT !.secs[p].n = @ + courses[k].secs[s].n]
              IN  Hold(i, [Idle EXCEPT !.op = "fold", !.k = k, !.from = s, !.into = p],
                       Recomputed(WithoutSection(r, s)))
    BY Zenon DEF SectionFold
  <1>2. PICK s \in DOMAIN courses[k].secs, p \in DOMAIN courses[k].secs : s # p /\
              LET r == [courses[k] EXCEPT !.secs[p].n = @ + courses[k].secs[s].n]
              IN  Hold(i, [Idle EXCEPT !.op = "fold", !.k = k, !.from = s, !.into = p],
                       Recomputed(WithoutSection(r, s)))
    BY <1>1
  <1> DEFINE old == courses[k]
             r   == [old EXCEPT !.secs[p].n = @ + old.secs[s].n]
             q   == Recomputed(WithoutSection(r, s))
             c   == [Idle EXCEPT !.op = "fold", !.k = k, !.from = s, !.into = p,
                                 !.at = "held", !.image = q]
  <1>3. /\ Shaped(old) /\ wanted[k] \subseteq DOMAIN old.secs
        /\ s \in SecIds /\ p \in SecIds \ {s}
    BY <1>2 DEF CoursesInv, Shapes, WantedKept, Shaped
  <1>4. Shaped(r) /\ DOMAIN r.secs = DOMAIN old.secs
    BY <1>3 DEF Shaped, Fields
  <1>5. Hold(i, [Idle EXCEPT !.op = "fold", !.k = k, !.from = s, !.into = p], q)
    BY <1>2
  <1>6. call' = [call EXCEPT ![i] = c]
    BY <1>5 DEF Hold, To, Idle
  <1> HIDE DEF r
  <1>7. Shaped(q) /\ DOMAIN q.secs = DOMAIN old.secs \ {s}
    BY <1>4, WithoutSectionKeeps, RecomputedKeeps
  <1> HIDE DEF q
  <1>8. /\ DOMAIN c = DOMAIN Idle /\ c.k = k /\ c.at = "held" /\ c.image = q /\ c.op = "fold"
        /\ c.from = s /\ c.into = p
    BY DEF Idle
  <1> HIDE DEF c
  <1>9. call'[i] = c /\ UNCHANGED <<courses, underneath>>
    BY <1>6 DEF CoursesInv, Shapes, SectionFold
  <1>10. After(i)' \subseteq DOMAIN q.secs
    BY <1>3, <1>7, <1>8, <1>9, <1>2 DEF After, underneath
  <1>11. StillRight(i)'
    BY <1>1, <1>2, <1>3, <1>7, <1>8, <1>9, <1>10
    DEF StillRight, Editing, underneath, Open, Untouched
  <1> QED
    BY <1>1, <1>6, <1>7, <1>8, <1>9, <1>11, TakesHold DEF Editing

-----------------------------------------------------------------------------
(* Steps that write the tables.                                            *)

(* A course opens: nobody holds its name, nothing stands on it yet.         *)
LEMMA CreateHolds ==
    ASSUME CoursesAssumption, CoursesInv, NEW i \in Calls, CreateInsert(i)
    PROVE  CoursesInv'
  <1> DEFINE k == call[i].k
  <1>1. PICK no \in Nos, t \in Tracks, n \in Numbers :
          LET s   == CHOOSE x \in SecIds : TRUE
              sec == NewRow(no, None, t, n, "staff")
              r == Recomputed([code |-> call[i].code, alts |-> {}, hrs |-> 1,
                               exported |-> FALSE, cols |-> [x \in Tracks |-> 0],
                               secs |-> [x \in {s} |-> sec]])
          IN  courses' = [x \in Open \cup {k} |-> IF x = k THEN r ELSE courses[x]]
    BY DEF CreateInsert
  <1> DEFINE s == CHOOSE x \in SecIds : TRUE
             z == [code |-> call[i].code, alts |-> {}, hrs |-> 1, exported |-> FALSE,
                   cols |-> [x \in Tracks |-> 0],
                   secs |-> [x \in {s} |-> NewRow(no, None, t, n, "staff")]]
             r == Recomputed(z)
  <1>2. s \in SecIds
    BY DEF CoursesAssumption
  <1>3. Shaped(z) /\ z.exported = FALSE
    BY <1>2 DEF Shaped, NewRow, Fields
  <1>4. courses' = [x \in Open \cup {k} |-> IF x = k THEN r ELSE courses[x]]
    BY <1>1
  <1> HIDE DEF z
  <1>5. Shaped(r) /\ r.exported = FALSE
    BY <1>3, RecomputedKeeps
  <1> HIDE DEF r
  <1>6. /\ k \in Ids \ Open /\ call' = [call EXCEPT ![i] = Idle]
        /\ UNCHANGED <<wanted, hours, approved, month, due, cap, ops>>
    BY DEF CreateInsert, To, underneath
  <1>7. Open' = Open \cup {k} /\ courses'[k] = r /\ \A x \in Open : courses'[x] = courses[x]
    BY <1>4, <1>6 DEF Open
  <1>8. call'[i] = Idle /\ \A j \in Calls : j # i => call'[j] = call[j]
    BY <1>6 DEF CoursesInv, Shapes
  <1>9. Idle.at = "idle"
    BY DEF Idle
  <1>10. Shapes'
    BY <1>5, <1>6, <1>7, <1>8, <1>9 DEF CoursesInv, Shapes
  <1>11. Alone'
    BY <1>8, <1>9 DEF CoursesInv, Alone
  <1>12. \A j \in Calls : StillRight(j)'
    <2> SUFFICES ASSUME NEW j \in Calls, j # i PROVE StillRight(j)'
      BY <1>8, <1>9 DEF StillRight
    <2>1. call'[j] = call[j] /\ After(j)' = After(j) /\ StillRight(j) /\ wanted' = wanted
      BY <1>6, <1>8 DEF After, CoursesInv
    <2> SUFFICES ASSUME call[j].at = "held" PROVE StillRight(j)'
      BY <2>1 DEF StillRight
    <2>2. call[j].k \in Open' /\ courses'[call[j].k] = courses[call[j].k]
      BY <1>7, <2>1 DEF StillRight
    <2> QED
      BY <2>1, <2>2 DEF StillRight
  <1>13. Grounded'
    BY <1>5, <1>6, <1>7 DEF CoursesInv, Grounded
  <1>14. WantedKept'
    BY <1>6, <1>7 DEF CoursesInv, WantedKept, Logged
  <1> QED
    BY <1>10, <1>11, <1>12, <1>13, <1>14 DEF CoursesInv

(* What a commit leaves of the course it held. *)
LEMMA CommitWrites ==
    ASSUME CoursesInv, NEW i \in Calls, Commit(i)
    PROVE  LET k == call[i].k
           IN  /\ k \in Open /\ UNCHANGED <<month, due>>
               /\ call'[i] = Idle /\ DOMAIN call' = Calls
               /\ \A j \in Calls : j # i => call'[j] = call[j]
               /\ \A x \in Open \ {k} : x \in Open' /\ courses'[x] = courses[x]
               /\ \A x \in Ids \ {k} : wanted'[x] = wanted[x] /\ hours'[x] = hours[x]
               /\ call[i].op = "delete" => Open' = Open \ {k}
               /\ call[i].op # "delete" =>
                     /\ Open' = Open /\ Shaped(courses'[k])
                     /\ courses'[k].secs = call[i].image.secs
                     /\ courses'[k].exported = courses[k].exported
               /\ wanted' \in [Ids -> SUBSET SecIds] /\ wanted'[k] = After(i)
               /\ hours' \in [Ids -> [SecIds -> [Sittings -> {"none", "sent", "approved"}]]]
               /\ hours'[k] = IF call[i].op = "fold"
                              THEN MovedHours(hours[k], call[i].from, call[i].into)
                              ELSE hours[k]
  <1> DEFINE c == call[i]
             k == call[i].k
  <1>1. StillRight(i) /\ c.at = "held"
    BY DEF CoursesInv, Commit
  <1>2. k \in Open /\ k \in Ids /\ Shaped(c.image) /\ Shaped(courses[k])
    BY <1>1 DEF StillRight, CoursesInv, Shapes
  <1>3. /\ call'[i] = Idle /\ DOMAIN call' = Calls
        /\ \A j \in Calls : j # i => call'[j] = call[j]
    BY DEF CoursesInv, Shapes, Commit, To
  <1>4. c.op = "delete" => Open' = Open \ {k} /\ \A x \in Open \ {k} : courses'[x] = courses[x]
    BY DEF Commit, Open
  <1>5. ASSUME c.op # "delete"
        PROVE  /\ Open' = Open /\ \A x \in Open \ {k} : courses'[x] = courses[x]
               /\ courses'[k] = [c.image EXCEPT !.exported = courses[k].exported]
    BY <1>2, <1>5 DEF Commit, Open
  <1>6. ASSUME NEW b \in BOOLEAN
        PROVE  LET q == [c.image EXCEPT !.exported = b]
               IN  Shaped(q) /\ q.secs = c.image.secs /\ q.exported = b
    BY <1>2 DEF Shaped
  <1>7. courses[k].exported \in BOOLEAN
    BY <1>2 DEF Shaped
  <1>8. /\ wanted \in [Ids -> SUBSET SecIds]
        /\ hours \in [Ids -> [SecIds -> [Sittings -> {"none", "sent", "approved"}]]]
    BY DEF CoursesInv, Shapes
  <1>9. CASE c.op = "fold"
    <2>1. c.from \in SecIds /\ c.into \in SecIds /\ c.from # c.into
      BY <1>1, <1>9 DEF StillRight
    <2>2. hours' = [hours EXCEPT ![k] = MovedHours(hours[k], c.from, c.into)]
      BY <1>2, <1>8, <1>9 DEF Commit
    <2>3. wanted' = [wanted EXCEPT ![k] = After(i)]
      BY <1>2, <1>8, <1>9 DEF Commit, After
    <2>4. MovedHours(hours[k], c.from, c.into) \in
             [SecIds -> [Sittings -> {"none", "sent", "approved"}]]
      <3> DEFINE h == hours[k]
                 f == [x \in Sittings |-> IF h[c.into][x] # "none" THEN h[c.into][x]
                                          ELSE h[c.from][x]]
                 g == [x \in Sittings |-> "none"]
                 V == {"none", "sent", "approved"}
      <3>1. h \in [SecIds -> [Sittings -> V]]
        BY <1>2, <1>8
      <3>2. f \in [Sittings -> V] /\ g \in [Sittings -> V]
        BY <2>1, <3>1
      <3>3. MovedHours(h, c.from, c.into) = [h EXCEPT ![c.into] = f, ![c.from] = g]
        BY DEF MovedHours
      <3> HIDE DEF h, f, g, V
      <3>4. [h EXCEPT ![c.into] = f, ![c.from] = g] \in [SecIds -> [Sittings -> V]]
        BY <2>1, <3>1, <3>2
      <3> QED
        BY <3>3, <3>4 DEF h, V
    <2>5. After(i) \in SUBSET SecIds
      BY <1>2, <1>8, <2>1 DEF After
    <2> QED
      BY <1>2, <1>3, <1>4, <1>5, <1>6, <1>7, <1>8, <1>9, <2>2, <2>3, <2>4, <2>5 DEF Commit
  <1>10. CASE c.op # "fold"
    <2>1. UNCHANGED <<hours, wanted>> /\ After(i) = wanted[k]
      BY <1>10 DEF Commit, After
    <2> QED
      BY <1>2, <1>3, <1>4, <1>5, <1>6, <1>7, <1>8, <1>10, <2>1 DEF Commit
  <1> QED
    BY <1>9, <1>10

LEMMA CommitHolds ==
    ASSUME CoursesInv, NEW i \in Calls, Commit(i)
    PROVE  CoursesInv'
  <1> DEFINE c == call[i]
             k == call[i].k
  <1>1. StillRight(i) /\ c.at = "held"
    BY DEF CoursesInv, Commit
  <1>2. /\ k \in Open /\ k \in Ids /\ UNCHANGED <<month, due>>
        /\ call'[i] = Idle /\ DOMAIN call' = Calls
        /\ \A j \in Calls : j # i => call'[j] = call[j]
        /\ \A x \in Open \ {k} : x \in Open' /\ courses'[x] = courses[x]
        /\ \A x \in Ids \ {k} : wanted'[x] = wanted[x] /\ hours'[x] = hours[x]
        /\ wanted' \in [Ids -> SUBSET SecIds] /\ wanted'[k] = After(i)
        /\ hours' \in [Ids -> [SecIds -> [Sittings -> {"none", "sent", "approved"}]]]
    BY CommitWrites DEF CoursesInv, Shapes
  <1>3. c.op = "delete" => Open' = Open \ {k}
    BY CommitWrites
  <1>4. c.op # "delete" => /\ Open' = Open /\ Shaped(courses'[k])
                           /\ courses'[k].secs = c.image.secs
                           /\ courses'[k].exported = courses[k].exported
    BY CommitWrites
  <1>5. hours'[k] = IF c.op = "fold" THEN MovedHours(hours[k], c.from, c.into) ELSE hours[k]
    BY CommitWrites
  <1>6. Idle.at = "idle"
    BY DEF Idle
  <1>7. Shapes'
    <2>1. Open' \subseteq Open /\ \A x \in Open' : Shaped(courses'[x])
      BY <1>2, <1>3, <1>4 DEF CoursesInv, Shapes
    <2>2. \A j \in Calls : /\ DOMAIN call'[j] = DOMAIN Idle
                           /\ call'[j].at = "held" => Shaped(call'[j].image)
      BY <1>2, <1>6 DEF CoursesInv, Shapes
    <2> QED
      BY <1>2, <2>1, <2>2 DEF CoursesInv, Shapes
  <1>8. Alone'
    BY <1>2, <1>6 DEF CoursesInv, Alone
  <1>9. \A j \in Calls : StillRight(j)'
    <2> SUFFICES ASSUME NEW j \in Calls, j # i, call[j].at = "held" PROVE StillRight(j)'
      BY <1>2, <1>6 DEF StillRight
    <2>1. call'[j] = call[j] /\ StillRight(j) /\ call[j].k # k
      BY <1>1, <1>2 DEF CoursesInv, Alone
    <2>2. call[j].k \in Open' /\ call[j].k \in Ids /\ courses'[call[j].k] = courses[call[j].k]
      BY <1>2, <2>1 DEF StillRight, CoursesInv, Shapes
    <2>3. wanted'[call[j].k] = wanted[call[j].k]
      BY <1>2, <2>1, <2>2
    <2>4. After(j)' = After(j)
      BY <2>1, <2>3 DEF After
    <2> QED
      BY <2>1, <2>2, <2>3, <2>4 DEF StillRight
  <1>10. wanted'[k] # {} <=> wanted[k] # {}
    BY <1>2 DEF After
  <1>11. Grounded'
    <2> SUFFICES ASSUME NEW x \in Ids,
                        x \in due \/ month[x] # "none" \/ (x \in Open' /\ courses'[x].exported)
                 PROVE  wanted'[x] # {}
      BY <1>2 DEF Grounded
    <2>1. x \in Open' => x \in Open /\ courses'[x].exported = courses[x].exported
      BY <1>2, <1>3, <1>4
    <2> QED
      BY <1>2, <1>10, <2>1 DEF CoursesInv, Grounded
  <1>12. WantedKept'
    <2>1. ASSUME wanted'[k] # {}
          PROVE  k \in Open' /\ wanted'[k] \subseteq DOMAIN courses'[k].secs
      <3>1. c.op # "delete"
        BY <1>1, <1>10, <2>1 DEF StillRight
      <3> QED
        BY <1>1, <1>2, <1>4, <3>1 DEF StillRight
    <2>2. ASSUME NEW s \in SecIds, \E x \in Sittings : hours'[k][s][x] # "none"
          PROVE  s \in wanted'[k]
      <3>1. \A p \in SecIds : (\E x \in Sittings : hours[k][p][x] # "none") => p \in wanted[k]
        BY <1>2 DEF CoursesInv, WantedKept, Logged
      <3>2. CASE c.op # "fold"
        BY <1>2, <1>5, <2>2, <3>1, <3>2 DEF After
      <3>3. CASE c.op = "fold"
        <4> DEFINE h == hours[k]
        <4>1. c.from \in SecIds /\ c.into \in SecIds \ {c.from}
          BY <1>1, <3>3 DEF StillRight
        <4>2. h \in [SecIds -> [Sittings -> {"none", "sent", "approved"}]]
          BY <1>2 DEF CoursesInv, Shapes
        <4>3. hours'[k] = MovedHours(h, c.from, c.into)
          BY <1>5, <3>3
        <4> HIDE DEF h
        <4>4. /\ \A x \in Sittings : hours'[k][c.from][x] = "none"
              /\ \A x \in Sittings : hours'[k][c.into][x] =
                    IF h[c.into][x] # "none" THEN h[c.into][x] ELSE h[c.from][x]
              /\ \A p \in SecIds \ {c.from, c.into} : hours'[k][p] = h[p]
          BY <4>1, <4>2, <4>3 DEF MovedHours
        <4>5. wanted'[k] = IF c.from \in wanted[k] THEN (wanted[k] \ {c.from}) \cup {c.into}
                                                   ELSE wanted[k]
          BY <1>2, <3>3 DEF After
        <4>6. s # c.from
          BY <2>2, <4>4
        <4>7. CASE s = c.into
          BY <2>2, <3>1, <4>1, <4>4, <4>5, <4>7 DEF h
        <4>8. CASE s # c.into
          BY <2>2, <3>1, <4>4, <4>5, <4>6, <4>8 DEF h
        <4> QED
          BY <4>7, <4>8
      <3> QED
        BY <3>2, <3>3
    <2>3. ASSUME NEW x \in Ids, x # k
          PROVE  /\ wanted'[x] # {} => x \in Open' /\ wanted'[x] \subseteq DOMAIN courses'[x].secs
                 /\ \A s \in SecIds : Logged(x, s)' # {} => s \in wanted'[x]
      <3>1. wanted'[x] = wanted[x] /\ hours'[x] = hours[x]
        BY <1>2, <2>3
      <3>2. x \in Open => x \in Open' /\ courses'[x] = courses[x]
        BY <1>2, <2>3
      <3>3. \A s \in SecIds : Logged(x, s)' = Logged(x, s)
        BY <3>1 DEF Logged
      <3> QED
        BY <3>1, <3>2, <3>3 DEF CoursesInv, WantedKept
    <2> QED
      BY <2>1, <2>2, <2>3 DEF WantedKept, Logged
  <1> QED
    BY <1>7, <1>8, <1>9, <1>11, <1>12 DEF CoursesInv

-----------------------------------------------------------------------------
(* What happens around the courses.                                        *)

(* A step that leaves the courses, the calls and the requests alone.        *)
LEMMA StandsStill ==
    ASSUME CoursesInv, UNCHANGED <<courses, wanted, call>>
    PROVE  Alone' /\ \A i \in Calls : StillRight(i)'
  <1>1. Alone'
    BY DEF CoursesInv, Alone
  <1>2. ASSUME NEW i \in Calls PROVE StillRight(i)'
    <2>1. StillRight(i) /\ After(i)' = After(i) /\ Open' = Open
      BY DEF CoursesInv, After, Open
    <2> QED
      BY <2>1 DEF StillRight
  <1> QED
    BY <1>1, <1>2

LEMMA FiledHolds ==
    ASSUME CoursesInv, NEW k \in Open, NEW s \in SecIds, RequestFiled(k, s)
    PROVE  CoursesInv'
  <1>1. /\ UNCHANGED <<courses, hours, due, month, call>> /\ Open' = Open
        /\ wanted' = [wanted EXCEPT ![k] = @ \cup {s}] /\ s \in DOMAIN courses[k].secs
    BY DEF RequestFiled, Open
  <1>2. /\ wanted \in [Ids -> SUBSET SecIds] /\ k \in Ids
        /\ wanted'[k] = wanted[k] \cup {s} /\ \A x \in Ids \ {k} : wanted'[x] = wanted[x]
    BY <1>1 DEF CoursesInv, Shapes
  <1>3. Shapes' /\ Alone'
    BY <1>1, <1>2 DEF CoursesInv, Shapes, Alone
  <1>4. ASSUME NEW i \in Calls, call[i].at = "held" PROVE StillRight(i)'
    <2>1. StillRight(i) /\ call[i].k \in Ids
      BY <1>4 DEF CoursesInv, Shapes, StillRight
    <2>2. CASE call[i].k # k
      <3>1. wanted'[call[i].k] = wanted[call[i].k]
        BY <1>2, <2>1, <2>2
      <3>2. After(i)' = After(i)
        BY <1>1, <3>1 DEF After
      <3> QED
        BY <1>1, <2>1, <3>1, <3>2 DEF StillRight
    <2>3. CASE call[i].k = k
      <3>1. call[i].op # "delete" /\ s \in DOMAIN call[i].image.secs
        BY <1>4, <2>3 DEF RequestFiled, Keeps
      <3>2. After(i)' = IF call[i].op = "fold" /\ call[i].from \in wanted'[k]
                        THEN (wanted'[k] \ {call[i].from}) \cup {call[i].into}
                        ELSE wanted'[k]
        BY <1>1, <2>3 DEF After
      <3>3. After(i)' \subseteq DOMAIN call[i].image.secs
        BY <1>2, <1>4, <2>1, <2>3, <3>1, <3>2 DEF StillRight, After
      <3> QED
        BY <1>1, <2>1, <3>1, <3>3 DEF StillRight
    <2> QED
      BY <2>2, <2>3
  <1>5. \A i \in Calls : StillRight(i)'
    BY <1>1, <1>4 DEF StillRight
  <1>6. Grounded'
    BY <1>1, <1>2 DEF CoursesInv, Grounded
  <1>7. WantedKept'
    <2>1. ASSUME NEW x \in Ids, NEW p \in SecIds
          PROVE  /\ wanted'[x] # {} => x \in Open /\ wanted'[x] \subseteq DOMAIN courses[x].secs
                 /\ Logged(x, p) # {} => p \in wanted'[x]
      BY <1>1, <1>2 DEF CoursesInv, WantedKept
    <2> QED
      BY <1>1, <2>1 DEF WantedKept, Logged
  <1> QED
    BY <1>3, <1>5, <1>6, <1>7 DEF CoursesInv

LEMMA LogHolds ==
    ASSUME CoursesInv, NEW k \in Open, NEW s \in SecIds, NEW x \in Sittings, LogHours(k, s, x)
    PROVE  CoursesInv'
  <1>1. UNCHANGED <<courses, wanted, due, month, call>> /\ Open' = Open
    BY DEF LogHours, Open
  <1> DEFINE V == {"none", "sent", "approved"}
             v == IF hours[k][s][x] = "none" THEN "sent" ELSE "approved"
  <1>2. hours \in [Ids -> [SecIds -> [Sittings -> V]]] /\ k \in Ids /\ s \in wanted[k]
    BY DEF CoursesInv, Shapes, LogHours
  <1>3. hours' = [hours EXCEPT ![k][s][x] = v] /\ v \in V
    BY DEF LogHours
  <1> HIDE DEF v
  <1>4. hours' \in [Ids -> [SecIds -> [Sittings -> V]]]
    BY <1>2, <1>3
  <1>5. ASSUME NEW j \in Ids, NEW p \in SecIds, NEW y \in Sittings, hours'[j][p][y] # hours[j][p][y]
        PROVE  j = k /\ p = s
    BY <1>2, <1>3, <1>5
  <1>6. Shapes'
    BY <1>1, <1>4 DEF CoursesInv, Shapes
  <1>7. WantedKept'
    <2>1. ASSUME NEW j \in Ids, NEW p \in SecIds, NEW y \in Sittings, hours'[j][p][y] # "none"
          PROVE  p \in wanted[j]
      <3>1. CASE hours'[j][p][y] = hours[j][p][y]
        BY <2>1, <3>1 DEF CoursesInv, WantedKept, Logged
      <3>2. CASE hours'[j][p][y] # hours[j][p][y]
        BY <1>2, <1>5, <3>2
      <3> QED
        BY <3>1, <3>2
    <2>2. \A j \in Ids, p \in SecIds : Logged(j, p)' # {} => p \in wanted[j]
      BY <2>1 DEF Logged
    <2> QED
      BY <1>1, <2>2 DEF CoursesInv, WantedKept
  <1> QED
    BY <1>1, <1>6, <1>7, StandsStill DEF CoursesInv, Grounded

(* The month locks under hours the TA has on a section.                     *)
LEMMA ExportHolds ==
    ASSUME CoursesInv, NEW k \in Open, ExportMonth(k)
    PROVE  CoursesInv'
  <1>1. /\ UNCHANGED <<courses, wanted, hours, call>> /\ Open' = Open /\ k \in Ids
        /\ wanted[k] # {} /\ due' = due \cup {k}
        /\ month' = [month EXCEPT ![k] = "exported"]
    BY DEF ExportMonth, Open, CoursesInv, Shapes
  <1>2. Shapes'
    BY <1>1 DEF CoursesInv, Shapes
  <1>3. Grounded'
    BY <1>1 DEF CoursesInv, Shapes, Grounded
  <1>4. WantedKept'
    BY <1>1 DEF CoursesInv, WantedKept, Logged
  <1> QED
    BY <1>1, <1>2, <1>3, <1>4, StandsStill DEF CoursesInv

(* The flag of a course nobody holds is set or cleared. *)
LEMMA FlagHolds ==
    ASSUME CoursesInv, NEW k \in Open, CourseFree(k), NEW b \in BOOLEAN,
           courses' = [courses EXCEPT ![k].exported = b],
           UNCHANGED <<wanted, call>>, b => wanted[k] # {},
           due' \subseteq due, month' \in [Ids -> {"none", "exported", "finance_sent"}],
           \A x \in Ids : month'[x] # "none" => month[x] # "none",
           hours' \in [Ids -> [SecIds -> [Sittings -> {"none", "sent", "approved"}]]],
           \A x \in Ids, s \in SecIds, y \in Sittings :
               hours'[x][s][y] # "none" => hours[x][s][y] # "none"
    PROVE  CoursesInv'
  <1>1. Shaped(courses[k]) /\ Open \subseteq Ids
    BY DEF CoursesInv, Shapes
  <1>2. /\ Open' = Open /\ \A x \in Open \ {k} : courses'[x] = courses[x]
        /\ courses'[k].exported = b /\ courses'[k].secs = courses[k].secs /\ Shaped(courses'[k])
    BY <1>1 DEF Open, Shaped
  <1>3. Shapes'
    BY <1>1, <1>2 DEF CoursesInv, Shapes
  <1>4. Alone'
    BY DEF CoursesInv, Alone
  <1>5. ASSUME NEW i \in Calls, call[i].at = "held" PROVE StillRight(i)'
    <2>1. StillRight(i) /\ After(i)' = After(i) /\ call[i].k # k
      BY <1>5 DEF CoursesInv, After, CourseFree
    <2>2. courses'[call[i].k] = courses[call[i].k]
      BY <1>2, <1>5, <2>1 DEF StillRight
    <2> QED
      BY <1>2, <2>1, <2>2 DEF StillRight
  <1>6. \A i \in Calls : StillRight(i)'
    BY <1>5 DEF StillRight
  <1>7. Grounded'
    BY <1>1, <1>2 DEF CoursesInv, Grounded
  <1>8. WantedKept'
    <2>1. \A x \in Ids, s \in SecIds : Logged(x, s)' # {} => Logged(x, s) # {}
      BY DEF Logged
    <2>2. \A x \in Open : courses'[x].secs = courses[x].secs
      BY <1>2
    <2> QED
      BY <1>2, <2>1, <2>2 DEF CoursesInv, WantedKept
  <1> QED
    BY <1>3, <1>4, <1>6, <1>7, <1>8 DEF CoursesInv

LEMMA MarkHolds ==
    ASSUME CoursesInv, NEW k \in Open, MarkExported(k)
    PROVE  CoursesInv'
  <1>1. k \in Ids /\ k \in due /\ wanted[k] # {}
    BY DEF MarkExported, CoursesInv, Shapes, Grounded
  <1>2. /\ courses' = [courses EXCEPT ![k].exported = TRUE] /\ CourseFree(k)
        /\ due' \subseteq due /\ UNCHANGED <<wanted, call, month, hours>>
    BY DEF MarkExported
  <1>3. /\ month \in [Ids -> {"none", "exported", "finance_sent"}]
        /\ hours \in [Ids -> [SecIds -> [Sittings -> {"none", "sent", "approved"}]]]
    BY DEF CoursesInv, Shapes
  <1> QED
    BY <1>1, <1>2, <1>3, FlagHolds

LEMMA UnexportHolds ==
    ASSUME CoursesInv, NEW k \in Open, Unexport(k)
    PROVE  CoursesInv'
  <1> DEFINE V == {"none", "sent", "approved"}
             M == {"none", "exported", "finance_sent"}
             back == [s \in SecIds |-> [x \in Sittings |->
                         IF hours[k][s][x] = "approved" THEN "sent" ELSE hours[k][s][x]]]
  <1>1. month \in [Ids -> M] /\ hours \in [Ids -> [SecIds -> [Sittings -> V]]] /\ k \in Ids
    BY DEF CoursesInv, Shapes
  <1>2. /\ courses' = [courses EXCEPT ![k].exported = FALSE] /\ CourseFree(k)
        /\ UNCHANGED <<wanted, call, due>>
    BY DEF Unexport
  <1>3. CASE month[k] = "exported"
    <2>1. /\ month' = [month EXCEPT ![k] = "none"]
          /\ hours' = [hours EXCEPT ![k] = back]
      BY <1>3 DEF Unexport
    <2>2. back \in [SecIds -> [Sittings -> V]]
      BY <1>1
    <2>3. \A s \in SecIds, y \in Sittings : back[s][y] # "none" => hours[k][s][y] # "none"
      BY <1>1
    <2> HIDE DEF back
    <2>4. month' \in [Ids -> M] /\ \A x \in Ids : month'[x] # "none" => month[x] # "none"
      BY <1>1, <2>1
    <2>5. /\ hours' \in [Ids -> [SecIds -> [Sittings -> V]]]
          /\ \A x \in Ids, s \in SecIds, y \in Sittings :
                hours'[x][s][y] # "none" => hours[x][s][y] # "none"
      BY <1>1, <2>1, <2>2, <2>3
    <2> QED
      BY <1>2, <2>4, <2>5, FlagHolds
  <1>4. CASE month[k] # "exported"
    <2>1. UNCHANGED <<month, hours>>
      BY <1>4 DEF Unexport
    <2> QED
      BY <1>1, <1>2, <2>1, FlagHolds
  <1> QED
    BY <1>3, <1>4

LEMMA AroundHolds ==
    ASSUME CoursesInv, Around
    PROVE  CoursesInv'
  <1>1. ASSUME UNCHANGED <<courses, wanted, hours, call>>,
               due' \subseteq due, month' \in [Ids -> {"none", "exported", "finance_sent"}],
               \A x \in Ids : month'[x] # "none" => month[x] # "none"
        PROVE  CoursesInv'
    <2>1. Shapes'
      BY <1>1 DEF CoursesInv, Shapes, Open
    <2>2. Grounded' /\ WantedKept'
      BY <1>1 DEF CoursesInv, Grounded, WantedKept, Open, Logged
    <2> QED
      BY <1>1, <2>1, <2>2, StandsStill DEF CoursesInv
  <1>2. month \in [Ids -> {"none", "exported", "finance_sent"}] /\ Open \subseteq Ids
    BY DEF CoursesInv, Shapes
  <1>3. ASSUME NEW k \in Open, RequestApproved(k) \/ MarkExportedFails(k)
        PROVE  CoursesInv'
    BY <1>1, <1>2, <1>3 DEF RequestApproved, MarkExportedFails
  <1>4. ASSUME NEW k \in Open, SendToFinance(k)
        PROVE  CoursesInv'
    BY <1>1, <1>2, <1>4 DEF SendToFinance
  <1>5. ASSUME SetTermBudgetCap PROVE CoursesInv'
    BY <1>1, <1>2, <1>5 DEF SetTermBudgetCap
  <1> QED
    BY <1>3, <1>4, <1>5, FiledHolds, LogHolds, ExportHolds, MarkHolds, UnexportHolds DEF Around

-----------------------------------------------------------------------------
LEMMA InitHolds ==
    ASSUME CoursesAssumption, Init
    PROVE  CoursesInv
  <1>1. DOMAIN courses \subseteq Ids /\ \A k \in Open : IsCourse(courses[k]) /\ ~courses[k].exported
    BY DEF CoursesAssumption, Init, Open
  <1>2. ASSUME NEW k \in Open PROVE Shaped(courses[k])
    BY <1>1 DEF IsCourse, Shaped, Section, Fields
  <1>3. \A i \in Calls : call[i] = Idle
    BY DEF Init
  <1>4. Idle.at = "idle"
    BY DEF Idle
  <1>5. Shapes
    BY <1>1, <1>2, <1>3, <1>4 DEF Shapes, Init, Open
  <1>6. Alone /\ \A i \in Calls : StillRight(i)
    BY <1>3, <1>4 DEF Alone, StillRight
  <1>7. Grounded
    BY <1>1 DEF Grounded, Init
  <1>8. WantedKept
    BY DEF WantedKept, Logged, Init
  <1> QED
    BY <1>5, <1>6, <1>7, <1>8 DEF CoursesInv

LEMMA StepHolds ==
    ASSUME CoursesAssumption, CoursesInv, [Next]_courseVars
    PROVE  CoursesInv'
  <1>1. CASE Next
    BY <1>1, LettingGo, AskedWrites, AddHolds, ResizeHolds, DropHolds, TimesHolds, MergeHolds,
       FoldHolds, CreateHolds, CommitHolds, AroundHolds DEF Next
  <1>2. CASE UNCHANGED courseVars
    <2>1. UNCHANGED <<courses, wanted, call, hours, due, month>>
      BY <1>2 DEF courseVars
    <2>2. Shapes' /\ Grounded' /\ WantedKept'
      BY <2>1 DEF CoursesInv, Shapes, Grounded, WantedKept, Open, Logged
    <2> QED
      BY <2>1, <2>2, StandsStill DEF CoursesInv
  <1> QED
    BY <1>1, <1>2

(* The locks, the foreign keys and the checks together keep CoursesInv.     *)
THEOREM CoursesKept == CoursesSpec => []CoursesInv
  <1>1. Init => CoursesInv
    BY InitHolds, CoursesAssumption
  <1>2. CoursesInv /\ [Next]_courseVars => CoursesInv'
    BY StepHolds, CoursesAssumption
  <1> QED
    BY <1>1, <1>2, PTL DEF CoursesSpec

(* teaching.go, Delete, deleteSection and foldSection: what a request names  *)
(* is there, and hours are of a section that its TA is assigned to, for any  *)
(* number of courses, sections, requests and calls at once.                  *)
THEOREM RequestsKeepTheirSections == CoursesSpec => []WantedKept
  <1>1. CoursesInv => WantedKept
    BY DEF CoursesInv
  <1> QED
    BY <1>1, CoursesKept, PTL

(* teaching.go, replaceSectionSchedules: the section a lecturer's save is    *)
(* about to fill is blank to the last, however many save at once.            *)
THEOREM LecturersFillBlanks == CoursesSpec => []LecturerFillsBlank
  <1>1. CoursesInv => LecturerFillsBlank
    BY DEF CoursesInv, LecturerFillsBlank, StillRight, Blank
  <1> QED
    BY <1>1, CoursesKept, PTL

-----------------------------------------------------------------------------
LEMMA RosterStep ==
    ASSUME CoursesAssumption, CoursesInv, [Next]_courseVars, NEW k \in Open, courses[k].exported,
           k \in Open' => courses'[k].exported
    PROVE  k \in Open' /\ Roster(courses'[k]) = Roster(courses[k])
  <1>1. CASE UNCHANGED courses
    BY <1>1 DEF Open
  <1>2. ASSUME NEW i \in Calls, Commit(i)
        PROVE  k \in Open' /\ Roster(courses'[k]) = Roster(courses[k])
    <2>1. CASE call[i].k # k
      BY <1>2, <2>1, CommitWrites
    <2>2. CASE call[i].k = k
      <3>1. StillRight(i) /\ call[i].at = "held"
        BY <1>2 DEF CoursesInv, Commit
      <3>2. wanted[k] # {}
        BY DEF CoursesInv, Shapes, Grounded
      <3>3. call[i].op # "delete" /\ Roster(call[i].image) = Roster(courses[k])
        BY <2>2, <3>1, <3>2 DEF StillRight, Untouched
      <3>4. Open' = Open /\ courses'[k].secs = call[i].image.secs
        BY <1>2, <2>2, <3>3, CommitWrites
      <3> QED
        BY <3>3, <3>4 DEF Roster
    <2> QED
      BY <2>1, <2>2
  <1>3. ASSUME NEW i \in Calls, CreateInsert(i)
        PROVE  k \in Open' /\ courses'[k] = courses[k]
    <2>1. PICK no \in Nos, t \in Tracks, n \in Numbers :
          LET s   == CHOOSE x \in SecIds : TRUE
              sec == NewRow(no, None, t, n, "staff")
              r == Recomputed([code |-> call[i].code, alts |-> {}, hrs |-> 1,
                               exported |-> FALSE, cols |-> [x \in Tracks |-> 0],
                               secs |-> [x \in {s} |-> sec]])
          IN  courses' = [x \in Open \cup {call[i].k} |->
                             IF x = call[i].k THEN r ELSE courses[x]]
      BY <1>3 DEF CreateInsert
    <2>2. k # call[i].k
      BY <1>3 DEF CreateInsert
    <2> QED
      BY <2>1, <2>2 DEF Open
  <1>4. ASSUME NEW x \in Open, NEW b, courses' = [courses EXCEPT ![x].exported = b]
        PROVE  k \in Open' /\ courses'[k].secs = courses[k].secs
    <2>1. Shaped(courses[k])
      BY DEF CoursesInv, Shapes
    <2> QED
      BY <1>4, <2>1 DEF Open, Shaped
  <1>5. ASSUME NEW x \in Open, MarkExported(x) \/ Unexport(x)
        PROVE  k \in Open' /\ Roster(courses'[k]) = Roster(courses[k])
    BY <1>4, <1>5 DEF MarkExported, Unexport, Roster
  <1>6. ASSUME Around, \A x \in Open : ~MarkExported(x) /\ ~Unexport(x)
        PROVE  UNCHANGED courses
    BY <1>6 DEF Around, RequestFiled, LogHours, RequestApproved, ExportMonth, MarkExportedFails,
                SendToFinance, SetTermBudgetCap
  <1>7. ASSUME NEW i \in Calls,
               \/ NumbersRead(i) \/ NumbersWrite(i) \/ InfoRead(i) \/ InfoWrite(i)
               \/ CreateCheck(i) \/ DeleteCheck(i) \/ DeleteWrite(i) \/ GiveUp(i)
        PROVE  UNCHANGED courses
    <2>1. NumbersRead(i) => UNCHANGED courses  BY DEF NumbersRead
    <2>2. NumbersWrite(i) => UNCHANGED courses BY DEF NumbersWrite
    <2>3. InfoRead(i) => UNCHANGED courses     BY DEF InfoRead
    <2>4. InfoWrite(i) => UNCHANGED courses    BY DEF InfoWrite
    <2>5. CreateCheck(i) => UNCHANGED courses  BY DEF CreateCheck
    <2>6. DeleteCheck(i) => UNCHANGED courses  BY DEF DeleteCheck
    <2>7. DeleteWrite(i) => UNCHANGED courses  BY DEF DeleteWrite
    <2>8. GiveUp(i) => UNCHANGED courses       BY DEF GiveUp
    <2> QED
      BY <1>7, <2>1, <2>2, <2>3, <2>4, <2>5, <2>6, <2>7, <2>8
  <1>8. ASSUME NEW i \in Calls,
               \/ SectionAdd(i) \/ SectionUpdate(i) \/ SectionDelete(i)
               \/ TimetableSave(i) \/ CodeMerge(i) \/ SectionFold(i)
        PROVE  UNCHANGED courses
    <2>1. SectionAdd(i) => UNCHANGED courses    BY DEF SectionAdd
    <2>2. SectionUpdate(i) => UNCHANGED courses BY DEF SectionUpdate
    <2>3. SectionDelete(i) => UNCHANGED courses BY DEF SectionDelete
    <2>4. TimetableSave(i) => UNCHANGED courses BY DEF TimetableSave
    <2>5. CodeMerge(i) => UNCHANGED courses     BY MergeHolds
    <2>6. SectionFold(i) => UNCHANGED courses   BY DEF SectionFold
    <2> QED
      BY <1>8, <2>1, <2>2, <2>3, <2>4, <2>5, <2>6
  <1>9. CASE Next
    BY <1>1, <1>2, <1>3, <1>5, <1>6, <1>7, <1>8, <1>9 DEF Next
  <1> QED
    BY <1>1, <1>9 DEF courseVars

(* teaching.go, assertNotExported: while a course stays exported no section  *)
(* of it comes, goes or is retimed: the check comes after the row's lock, a  *)
(* merge and a fold make it too, and Delete's early look is made good by the *)
(* foreign keys, since an exported course has a request.                     *)
THEOREM ExportedRosterStands == CoursesSpec => RosterFrozen
  <1>1. CoursesInv /\ [Next]_courseVars =>
           [\A k \in Open : courses[k].exported /\ (k \in DOMAIN courses' => courses'[k].exported)
               => k \in DOMAIN courses' /\ Roster(courses'[k]) = Roster(courses[k])]_courseVars
    BY RosterStep, CoursesAssumption DEF Open
  <1> QED
    BY <1>1, CoursesKept, PTL DEF CoursesSpec, RosterFrozen

-----------------------------------------------------------------------------
LEMMA SittingsStep ==
    ASSUME CoursesInv, [Next]_courseVars, NEW k \in Ids, NEW s \in SecIds, NEW x \in Sittings,
           hours[k][s][x] # "none"
    PROVE  \E p \in SecIds : hours'[k][p][x] # "none"
  <1> DEFINE V == {"none", "sent", "approved"}
  <1>1. hours \in [Ids -> [SecIds -> [Sittings -> V]]]
    BY DEF CoursesInv, Shapes
  <1>2. CASE UNCHANGED hours
    BY <1>2
  <1>3. ASSUME NEW i \in Calls, Commit(i)
        PROVE  \E p \in SecIds : hours'[k][p][x] # "none"
    <2>1. CASE call[i].k # k \/ call[i].op # "fold"
      BY <1>3, <2>1, CommitWrites
    <2>2. CASE call[i].k = k /\ call[i].op = "fold"
      <3> DEFINE from == call[i].from
                 into == call[i].into
                 h    == hours[k]
      <3>1. from \in SecIds /\ into \in SecIds \ {from}
        BY <1>3, <2>2 DEF CoursesInv, StillRight, Commit
      <3>2. hours'[k] = MovedHours(h, from, into)
        BY <1>3, <2>2, CommitWrites
      <3>3. h \in [SecIds -> [Sittings -> V]]
        BY <1>1
      <3> HIDE DEF h, from, into
      <3>4. /\ hours'[k][into][x] = IF h[into][x] # "none" THEN h[into][x] ELSE h[from][x]
            /\ \A p \in SecIds \ {from, into} : hours'[k][p] = h[p]
        BY <3>1, <3>2, <3>3 DEF MovedHours
      <3>5. h[s][x] # "none"
        BY DEF h
      <3>6. CASE s \in {from, into}
        BY <3>1, <3>4, <3>5, <3>6
      <3>7. CASE s \notin {from, into}
        BY <3>4, <3>5, <3>7
      <3> QED
        BY <3>6, <3>7
    <2> QED
      BY <2>1, <2>2
  <1>4. ASSUME NEW j \in Open, NEW q \in SecIds, NEW y \in Sittings, LogHours(j, q, y)
        PROVE  hours'[k][s][x] # "none"
    BY <1>1, <1>4 DEF LogHours
  <1>5. ASSUME NEW j \in Open, Unexport(j)
        PROVE  hours'[k][s][x] # "none"
    <2> DEFINE back == [q \in SecIds |-> [y \in Sittings |->
                           IF hours[j][q][y] = "approved" THEN "sent" ELSE hours[j][q][y]]]
    <2>1. UNCHANGED hours \/ hours' = [hours EXCEPT ![j] = back]
      BY <1>5 DEF Unexport
    <2>2. back[s][x] # "none" <=> hours[j][s][x] # "none"
      OBVIOUS
    <2> HIDE DEF back
    <2>3. CASE hours' = [hours EXCEPT ![j] = back]
      <3>1. hours'[k] = IF j = k THEN back ELSE hours[k]
        BY <1>1, <2>3
      <3> QED
        BY <2>2, <3>1
    <2> QED
      BY <1>2, <2>1, <2>3
  <1>6. ASSUME Around, \A j \in Open : ~Unexport(j) /\ \A q \in SecIds, y \in Sittings : ~LogHours(j, q, y)
        PROVE  UNCHANGED hours
    BY <1>6 DEF Around, RequestFiled, RequestApproved, ExportMonth, MarkExported, MarkExportedFails,
                SendToFinance, SetTermBudgetCap
  <1>7. ASSUME NEW i \in Calls, ~Commit(i),
               \/ NumbersRead(i) \/ NumbersWrite(i) \/ SectionAdd(i) \/ SectionUpdate(i)
               \/ SectionDelete(i) \/ TimetableSave(i) \/ CodeMerge(i) \/ InfoRead(i)
               \/ InfoWrite(i) \/ CreateCheck(i) \/ CreateInsert(i) \/ DeleteCheck(i)
               \/ DeleteWrite(i) \/ SectionFold(i) \/ GiveUp(i)
        PROVE  UNCHANGED hours
    <2>1. NumbersRead(i) => UNCHANGED hours   BY DEF NumbersRead, underneath
    <2>2. NumbersWrite(i) => UNCHANGED hours  BY DEF NumbersWrite, underneath
    <2>3. InfoRead(i) => UNCHANGED hours      BY DEF InfoRead, underneath
    <2>4. InfoWrite(i) => UNCHANGED hours     BY DEF InfoWrite, underneath
    <2>5. CreateCheck(i) => UNCHANGED hours   BY DEF CreateCheck, underneath
    <2>6. DeleteCheck(i) => UNCHANGED hours   BY DEF DeleteCheck, underneath
    <2>7. DeleteWrite(i) => UNCHANGED hours   BY DEF DeleteWrite, underneath
    <2>8. GiveUp(i) => UNCHANGED hours        BY DEF GiveUp, underneath
    <2>9. SectionAdd(i) => UNCHANGED hours    BY DEF SectionAdd, underneath
    <2>10. SectionUpdate(i) => UNCHANGED hours BY DEF SectionUpdate, underneath
    <2>11. SectionDelete(i) => UNCHANGED hours BY DEF SectionDelete, underneath
    <2>12. TimetableSave(i) => UNCHANGED hours BY DEF TimetableSave, underneath
    <2>13. CodeMerge(i) => UNCHANGED hours    BY MergeHolds
    <2>14. SectionFold(i) => UNCHANGED hours  BY DEF SectionFold, underneath
    <2>15. CreateInsert(i) => UNCHANGED hours BY DEF CreateInsert, underneath
    <2> QED
      BY <1>7, <2>1, <2>2, <2>3, <2>4, <2>5, <2>6, <2>7, <2>8, <2>9, <2>10, <2>11, <2>12, <2>13,
         <2>14, <2>15
  <1>8. CASE Next
    BY <1>2, <1>3, <1>4, <1>5, <1>6, <1>7, <1>8 DEF Next
  <1> QED
    BY <1>2, <1>8 DEF courseVars

(* Migration 0145: a sitting once logged for a course is never lost to a     *)
(* change of its sections: a fold carries it to the section it joins, and    *)
(* nothing else parts a request, and its hours, from their section.          *)
THEOREM SittingsStand == CoursesSpec => SittingsKept
  <1>1. CoursesInv /\ [Next]_courseVars =>
           [\A k \in Ids, s \in SecIds, x \in Sittings :
               x \in Logged(k, s) => \E p \in SecIds : hours'[k][p][x] # "none"]_courseVars
    BY SittingsStep DEF Logged
  <1> QED
    BY <1>1, CoursesKept, PTL DEF CoursesSpec, SittingsKept

-----------------------------------------------------------------------------
(* The head counts.  Every course that is stored, or held to be stored, has  *)
(* the types of its table and counts that add up.                            *)
Adding(r) == \A t \in Tracks : Class(r, t) # {} => r.cols[t] = Count(r, t)
Fine(r)   == IsCourse(r) /\ Adding(r)

CallFine(c) ==
    /\ c.at \in {"idle", "asked", "held"}
    /\ c.at # "idle" => c.k \in Ids
    /\ c.at = "asked" /\ c.op = "numbers" => c.cols \in [Tracks -> Nat]
    /\ c.at = "asked" /\ c.op = "info" => c.code \in Codes \cup {None} /\ c.hrs \in Nat
    /\ c.at = "asked" /\ c.op = "create" => c.code \in Codes
    /\ c.at = "held" => Fine(c.image)

CountInv ==
    /\ \A k \in Open : Fine(courses[k])
    /\ approved \subseteq Ids /\ cap \in Caps /\ ops \in Workloads
    /\ \A i \in Calls : CallFine(call[i])

Heads(r) == [s \in DOMAIN r.secs |-> r.secs[s].n]

LEMMA ClassFinite ==
    ASSUME CoursesAssumption, NEW r, IsCourse(r), NEW t
    PROVE  /\ IsFiniteSet(Class(r, t)) /\ Class(r, t) \subseteq DOMAIN r.secs
           /\ \A s \in Class(r, t) : Heads(r)[s] \in Nat
  <1>1. Class(r, t) \subseteq DOMAIN r.secs /\ DOMAIN r.secs \subseteq SecIds
    BY DEF Class, IsCourse
  <1>2. IsFiniteSet(Class(r, t))
    BY <1>1, FS_Subset DEF CoursesAssumption
  <1>3. \A s \in DOMAIN r.secs : r.secs[s].n \in Nat
    BY DEF IsCourse, Section
  <1> QED
    BY <1>1, <1>2, <1>3 DEF Heads

(* Count, a fold in the order the elements are drawn, is a sum. *)
LEMMA CountIsSum ==
    ASSUME CoursesAssumption, NEW r, IsCourse(r), NEW t
    PROVE  Count(r, t) = SumOf(Heads(r), Class(r, t)) /\ Count(r, t) \in Nat
  <1> DEFINE C == Class(r, t)
             Body(g, s) == IF s = {} THEN 0 ELSE r.secs[AnyOf(s)].n + g[s \ {AnyOf(s)}]
             it == CHOOSE j : j = [s \in SUBSET C |-> Body(j, s)]
  <1>1. IsFiniteSet(C) /\ C \subseteq DOMAIN r.secs /\ \A s \in C : Heads(r)[s] \in Nat
    BY ClassFinite
  <1>2. Count(r, t) = it[C]
    BY DEF Count, MapThenSumSet, MapThenFoldSet, AnyOf
  <1>3. ASSUME NEW j
        PROVE  Adds(j, Heads(r), C) <=> j = [s \in SUBSET C |-> Body(j, s)]
    <2>1. ASSUME NEW s \in SUBSET C
          PROVE  Body(j, s) = IF s = {} THEN 0 ELSE Heads(r)[AnyOf(s)] + j[s \ {AnyOf(s)}]
      <3>1. s # {} => Heads(r)[AnyOf(s)] = r.secs[AnyOf(s)].n
        BY <1>1, AnyIn DEF Heads
      <3> QED
        BY <3>1
    <2>2. [s \in SUBSET C |-> Body(j, s)] =
             [s \in SUBSET C |-> IF s = {} THEN 0 ELSE Heads(r)[AnyOf(s)] + j[s \ {AnyOf(s)}]]
      BY <2>1
    <2> QED
      BY <2>2 DEF Adds
  <1>4. \E j : j = [s \in SUBSET C |-> Body(j, s)]
    <2>1. PICK j : Adds(j, Heads(r), C)
      BY <1>1, AddsExist
    <2> QED
      BY <1>3, <2>1
  <1>5. it = [s \in SUBSET C |-> Body(it, s)]
    BY <1>4
  <1> HIDE DEF it
  <1>6. Adds(it, Heads(r), C)
    BY <1>3, <1>5
  <1>7. SumOf(Heads(r), C) = it[C]
    BY <1>1, <1>6, SumIs
  <1> QED
    BY <1>1, <1>2, <1>7, SumNat

LEMMA CountsSame ==
    ASSUME CoursesAssumption, NEW r, IsCourse(r), NEW q, IsCourse(q),
           DOMAIN q.secs = DOMAIN r.secs,
           \A s \in DOMAIN r.secs : q.secs[s].track = r.secs[s].track /\ q.secs[s].n = r.secs[s].n
    PROVE  \A t : Class(q, t) = Class(r, t) /\ Count(q, t) = Count(r, t)
  <1> TAKE t
  <1>1. Class(q, t) = Class(r, t)
    BY DEF Class
  <1>2. Heads(q) = Heads(r)
    BY DEF Heads
  <1> QED
    BY <1>1, <1>2, CountIsSum

LEMMA RecomputedFine ==
    ASSUME CoursesAssumption, NEW r, IsCourse(r)
    PROVE  Fine(Recomputed(r))
  <1> DEFINE cols == [t \in Tracks |-> Count(r, t)]
             q    == [r EXCEPT !.cols = cols]
  <1>1. cols \in [Tracks -> Nat] /\ \A t \in Tracks : cols[t] = Count(r, t)
    BY CountIsSum
  <1> HIDE DEF cols
  <1>2. IsCourse(q) /\ q.secs = r.secs /\ q.cols = cols
    BY <1>1 DEF IsCourse
  <1> HIDE DEF q
  <1>3. \A t \in Tracks : Count(q, t) = Count(r, t)
    BY <1>2, CountsSame
  <1>4. Fine(q)
    BY <1>1, <1>2, <1>3 DEF Fine, Adding
  <1> QED
    BY <1>4 DEF q, cols, Recomputed

LEMMA WithSectionIs ==
    ASSUME NEW r, IsCourse(r), NEW s \in SecIds, NEW row \in Section
    PROVE  IsCourse(WithSection(r, s, row))
  <1> DEFINE secs == [x \in DOMAIN r.secs \cup {s} |-> IF x = s THEN row ELSE r.secs[x]]
             q    == [r EXCEPT !.secs = secs]
  <1>1. WithSection(r, s, row) = q
    BY DEF WithSection, IsCourse
  <1>2. DOMAIN secs \subseteq SecIds /\ secs \in [DOMAIN secs -> Section]
    BY DEF IsCourse
  <1> HIDE DEF secs
  <1>3. IsCourse(q)
    BY <1>2 DEF IsCourse
  <1> QED
    BY <1>1, <1>3

LEMMA NewRowIs ==
    ASSUME CoursesAssumption, NEW no \in Nos, NEW c \in Codes \cup {None}, NEW t \in Tracks,
           NEW n \in Numbers, NEW w \in {"none", "staff"}
    PROVE  NewRow(no, c, t, n, w) \in Section
  BY DEF CoursesAssumption, NewRow, Section

LEMMA WithoutSectionIs ==
    ASSUME NEW r, IsCourse(r), NEW s
    PROVE  IsCourse(WithoutSection(r, s))
  <1> DEFINE secs == [x \in DOMAIN r.secs \ {s} |-> r.secs[x]]
             q    == [r EXCEPT !.secs = secs]
  <1>1. WithoutSection(r, s) = q
    BY DEF WithoutSection, IsCourse
  <1>2. DOMAIN secs \subseteq SecIds /\ secs \in [DOMAIN secs -> Section]
    BY DEF IsCourse
  <1> HIDE DEF secs
  <1>3. IsCourse(q)
    BY <1>2 DEF IsCourse
  <1> QED
    BY <1>1, <1>3

LEMMA PromotedIs ==
    ASSUME NEW r, IsCourse(r), NEW q \in Promoted(r)
    PROVE  IsCourse(q)
  <1>1. CASE q = r
    BY <1>1
  <1>2. ASSUME NEW c \in r.alts, q = [r EXCEPT !.code = c, !.alts = (@ \ {c}) \cup {r.code}]
        PROVE  IsCourse(q)
    <2> DEFINE alts == (r.alts \ {c}) \cup {r.code}
    <2>1. c \in Codes /\ alts \subseteq Codes
      BY DEF IsCourse
    <2>2. q = [r EXCEPT !.code = c, !.alts = alts]
      BY <1>2 DEF IsCourse
    <2> HIDE DEF alts
    <2> QED
      BY <2>1, <2>2 DEF IsCourse
  <1>3. q = r \/ \E c \in r.alts : q = [r EXCEPT !.code = c, !.alts = (@ \ {c}) \cup {r.code}]
    BY DEF Promoted
  <1> QED
    BY <1>1, <1>2, <1>3

(* One section written anew. *)
LEMMA SectionSetIs ==
    ASSUME NEW r, IsCourse(r), NEW s \in DOMAIN r.secs, NEW row \in Section
    PROVE  IsCourse([r EXCEPT !.secs[s] = row])
  <1> DEFINE secs == [r.secs EXCEPT ![s] = row]
             q    == [r EXCEPT !.secs = secs]
  <1>1. [r EXCEPT !.secs[s] = row] = q
    BY DEF IsCourse
  <1>2. DOMAIN secs \subseteq SecIds /\ secs \in [DOMAIN secs -> Section]
    BY DEF IsCourse
  <1> HIDE DEF secs
  <1>3. IsCourse(q)
    BY <1>2 DEF IsCourse
  <1> QED
    BY <1>1, <1>3

LEMMA ResizedIs ==
    ASSUME NEW r, IsCourse(r), NEW s \in DOMAIN r.secs, NEW n \in Nat
    PROVE  IsCourse([r EXCEPT !.secs[s].n = n])
  <1>1. r.secs[s] \in Section
    BY DEF IsCourse
  <1>2. [r.secs[s] EXCEPT !.n = n] \in Section
    BY <1>1 DEF Section
  <1>3. [r EXCEPT !.secs[s].n = n] = [r EXCEPT !.secs[s] = [r.secs[s] EXCEPT !.n = n]]
    BY DEF IsCourse
  <1> QED
    BY <1>2, <1>3, SectionSetIs

(* A new number, or another timetable: the counts stay. *)
LEMMA RewrittenFine ==
    ASSUME CoursesAssumption, NEW r, Fine(r), NEW s \in DOMAIN r.secs, NEW row \in Section,
           row.track = r.secs[s].track, row.n = r.secs[s].n
    PROVE  Fine([r EXCEPT !.secs[s] = row])
  <1> DEFINE q == [r EXCEPT !.secs[s] = row]
  <1>1. IsCourse(r) /\ IsCourse(q)
    BY SectionSetIs DEF Fine
  <1>2. /\ DOMAIN q.secs = DOMAIN r.secs /\ q.cols = r.cols
        /\ \A x \in DOMAIN r.secs : q.secs[x] = IF x = s THEN row ELSE r.secs[x]
    BY <1>1 DEF IsCourse
  <1> HIDE DEF q
  <1>3. \A t : Class(q, t) = Class(r, t) /\ Count(q, t) = Count(r, t)
    BY <1>1, <1>2, CountsSame
  <1>4. Fine(q)
    BY <1>1, <1>2, <1>3 DEF Fine, Adding
  <1> QED
    BY <1>4 DEF q

-----------------------------------------------------------------------------
(* A total shared out over the sections of a track is that total again.      *)
LEMMA SpreadAdds ==
    ASSUME CoursesAssumption, NEW r, IsCourse(r), NEW t, Class(r, t) # {}, NEW total \in Nat,
           NEW f \in Spread(r, t, total)
    PROVE  /\ DOMAIN f = Class(r, t) /\ \A s \in Class(r, t) : f[s] \in Nat
           /\ SumOf(f, Class(r, t)) = total
  <1> DEFINE C == Class(r, t)
             fl == [s \in C |-> Floor(r, t, total, s)]
  <1>1. PICK u \in SUBSET C : /\ Cardinality(u) = Left(r, t, total)
                              /\ f = [s \in C |-> Floor(r, t, total, s) + IF s \in u THEN 1 ELSE 0]
    BY DEF Spread
  <1>2. IsFiniteSet(C) /\ \A s \in C : r.secs[s].n \in Nat
    BY ClassFinite DEF Heads
  <1>3. WeightOf(r, t) \in Nat \ {0}
    <2>1. Count(r, t) \in Nat /\ Cardinality(C) \in Nat /\ Cardinality(C) # 0
      BY <1>2, CountIsSum, FS_CardinalityType, FS_EmptySet
    <2> QED
      BY <2>1 DEF WeightOf
  <1>4. ASSUME NEW s \in C PROVE Floor(r, t, total, s) \in Nat
    <2>1. WeightIn(r, t, s) \in Nat
      BY <1>2 DEF WeightIn
    <2>2. total * WeightIn(r, t, s) \in Nat
      BY <2>1
    <2>3. \A a \in Nat, b \in Nat \ {0} : a \div b \in Nat
      OBVIOUS
    <2> QED
      BY <1>3, <2>2, <2>3 DEF Floor
  <1>5. \A s \in C : fl[s] \in Nat
    BY <1>4
  <1>6. \A s \in C : f[s] = fl[s] + (IF s \in u THEN 1 ELSE 0)
    BY <1>1
  <1>7. SumOf(f, C) = SumOf(fl, C) + Cardinality(u)
    <2> HIDE DEF fl, C
    <2> QED
      BY <1>2, <1>5, <1>6, SumMarked
  <1>8. Cardinality(u) = total - SumOf(fl, C)
    <2> DEFINE Body(g, s) == IF s = {} THEN 0 ELSE Floor(r, t, total, AnyOf(s)) + g[s \ {AnyOf(s)}]
               it == CHOOSE j : j = [s \in SUBSET C |-> Body(j, s)]
    <2>1. Left(r, t, total) = total - it[C]
      BY DEF Left, MapThenSumSet, MapThenFoldSet, AnyOf
    <2>2. ASSUME NEW j PROVE Adds(j, fl, C) <=> j = [s \in SUBSET C |-> Body(j, s)]
      <3>1. ASSUME NEW s \in SUBSET C
            PROVE  Body(j, s) = IF s = {} THEN 0 ELSE fl[AnyOf(s)] + j[s \ {AnyOf(s)}]
        <4>1. s # {} => fl[AnyOf(s)] = Floor(r, t, total, AnyOf(s))
          BY AnyIn
        <4> QED
          BY <4>1
      <3>2. [s \in SUBSET C |-> Body(j, s)] =
               [s \in SUBSET C |-> IF s = {} THEN 0 ELSE fl[AnyOf(s)] + j[s \ {AnyOf(s)}]]
        BY <3>1
      <3> QED
        BY <3>2 DEF Adds
    <2>3. \E j : j = [s \in SUBSET C |-> Body(j, s)]
      <3>1. PICK j : Adds(j, fl, C)
        BY <1>2, AddsExist
      <3> QED
        BY <2>2, <3>1
    <2>4. it = [s \in SUBSET C |-> Body(it, s)]
      BY <2>3
    <2> HIDE DEF it
    <2>5. Adds(it, fl, C)
      BY <2>2, <2>4
    <2>6. SumOf(fl, C) = it[C]
      <3> HIDE DEF fl, C
      <3> QED
        BY <1>2, <2>5, SumIs
    <2> QED
      BY <1>1, <2>1, <2>6
  <1>9. SumOf(fl, C) \in Nat
    <2> HIDE DEF fl, C
    <2> QED
      BY <1>2, <1>5, SumNat
  <1>10. \A s \in C : f[s] \in Nat
    BY <1>5, <1>6
  <1> QED
    BY <1>1, <1>7, <1>8, <1>9, <1>10

LEMMA SizedIs ==
    ASSUME NEW r, IsCourse(r), NEW f, NEW g,
           \A s \in DOMAIN r.secs : (IF s \in DOMAIN f THEN f[s] ELSE g[s]) \in Nat
    PROVE  LET q == Sized(r, f, g)
           IN  /\ IsCourse(q) /\ DOMAIN q.secs = DOMAIN r.secs /\ q.cols = r.cols
               /\ \A t : Class(q, t) = Class(r, t)
               /\ \A s \in DOMAIN r.secs : q.secs[s].n = IF s \in DOMAIN f THEN f[s] ELSE g[s]
  <1> DEFINE n(s) == IF s \in DOMAIN f THEN f[s] ELSE g[s]
             secs == [s \in DOMAIN r.secs |-> [r.secs[s] EXCEPT !.n = n(s)]]
             q    == [r EXCEPT !.secs = secs]
  <1>1. Sized(r, f, g) = q
    BY DEF Sized
  <1>2. ASSUME NEW s \in DOMAIN r.secs
        PROVE  secs[s] \in Section /\ secs[s].n = n(s) /\ secs[s].track = r.secs[s].track
    <2>1. r.secs[s] \in Section /\ n(s) \in Nat
      BY DEF IsCourse
    <2> HIDE DEF n
    <2>2. /\ [r.secs[s] EXCEPT !.n = n(s)] \in Section
          /\ [r.secs[s] EXCEPT !.n = n(s)].n = n(s)
          /\ [r.secs[s] EXCEPT !.n = n(s)].track = r.secs[s].track
      BY <2>1 DEF Section
    <2> QED
      BY <2>2
  <1>3. DOMAIN secs = DOMAIN r.secs /\ secs \in [DOMAIN r.secs -> Section]
    BY <1>2
  <1> HIDE DEF secs
  <1>4. IsCourse(q) /\ q.secs = secs /\ q.cols = r.cols
    BY <1>3 DEF IsCourse
  <1> HIDE DEF q
  <1>5. \A t : Class(q, t) = Class(r, t)
    BY <1>2, <1>3, <1>4 DEF Class
  <1> QED
    BY <1>1, <1>2, <1>3, <1>4, <1>5

LEMMA SyncedFine ==
    ASSUME CoursesAssumption, NEW r, IsCourse(r), NEW cols \in [Tracks -> Nat],
           NEW q \in Synced(r, cols)
    PROVE  Fine([q EXCEPT !.cols = cols])
  <1>1. IsCourse(q) /\ \A t \in Tracks : Class(q, t) # {} => Count(q, t) = cols[t]
    <2>1. CASE q \in FromRegistrar(r, cols)
      <3>1. PICK f \in [DOMAIN r.secs -> Numbers] : q = Sized(r, f, f)
        BY <2>1 DEF FromRegistrar
      <3>2. \A s \in DOMAIN r.secs : (IF s \in DOMAIN f THEN f[s] ELSE f[s]) \in Nat
        BY DEF CoursesAssumption
      <3>3. IsCourse(q)
        BY <3>1, <3>2, SizedIs
      <3> QED
        BY <2>1, <3>3 DEF FromRegistrar
    <2>2. ASSUME NEW f \in Spread(r, "regular", cols["regular"]),
                 NEW g \in Spread(r, "special", cols["special"]), q = Sized(r, f, g)
          PROVE  IsCourse(q) /\ \A t \in Tracks : Class(q, t) # {} => Count(q, t) = cols[t]
      <3> DEFINE reg == Class(r, "regular")
                 spe == Class(r, "special")
      <3>1. cols["regular"] \in Nat /\ cols["special"] \in Nat
        BY DEF Tracks
      <3>2. /\ DOMAIN f = reg /\ DOMAIN g = spe
            /\ \A s \in reg : f[s] \in Nat
            /\ \A s \in spe : g[s] \in Nat
            /\ reg # {} => SumOf(f, reg) = cols["regular"]
            /\ spe # {} => SumOf(g, spe) = cols["special"]
        <4>1. DOMAIN f = reg /\ DOMAIN g = spe
          BY DEF Spread
        <4>2. CASE reg # {}
          BY <3>1, <4>1, <4>2, SpreadAdds
        <4> QED
          BY <3>1, <4>1, <4>2, SpreadAdds
      <3>3. ASSUME NEW s \in DOMAIN r.secs
            PROVE  /\ s \in reg <=> s \notin spe
                   /\ (IF s \in DOMAIN f THEN f[s] ELSE g[s]) \in Nat
        <4>1. r.secs[s].track \in {"regular", "special"}
          BY DEF IsCourse, Section, Tracks
        <4>2. s \in reg <=> s \notin spe
          BY <4>1 DEF Class
        <4> QED
          BY <3>2, <4>2
      <3>4. /\ IsCourse(q) /\ DOMAIN q.secs = DOMAIN r.secs
            /\ \A t : Class(q, t) = Class(r, t)
            /\ \A s \in DOMAIN r.secs : q.secs[s].n = IF s \in DOMAIN f THEN f[s] ELSE g[s]
        BY <2>2, <3>3, SizedIs
      <3>5. /\ \A s \in reg : Heads(q)[s] = f[s]
            /\ \A s \in spe : Heads(q)[s] = g[s]
        <4>1. reg \subseteq DOMAIN r.secs /\ spe \subseteq DOMAIN r.secs
          BY DEF Class
        <4> QED
          BY <3>2, <3>3, <3>4, <4>1 DEF Heads
      <3>6. IsFiniteSet(reg) /\ IsFiniteSet(spe)
        BY ClassFinite
      <3>7. SumOf(Heads(q), reg) = SumOf(f, reg) /\ SumOf(Heads(q), spe) = SumOf(g, spe)
        BY <3>5, <3>6, SumSame
      <3>8. /\ Count(q, "regular") = SumOf(Heads(q), reg)
            /\ Count(q, "special") = SumOf(Heads(q), spe)
        BY <3>4, CountIsSum
      <3> QED
        BY <3>2, <3>4, <3>7, <3>8 DEF Tracks
    <2> QED
      BY <2>1, <2>2 DEF Synced
  <1> DEFINE z == [q EXCEPT !.cols = cols]
  <1>2. IsCourse(z) /\ z.secs = q.secs /\ z.cols = cols
    BY <1>1 DEF IsCourse
  <1> HIDE DEF z
  <1>3. \A t : Class(z, t) = Class(q, t) /\ Count(z, t) = Count(q, t)
    BY <1>1, <1>2, CountsSame
  <1>4. Fine(z)
    BY <1>1, <1>2, <1>3 DEF Fine, Adding
  <1> QED
    BY <1>4 DEF z

-----------------------------------------------------------------------------
(* Steps of the calls. *)
LEMMA CallFinely ==
    ASSUME CoursesInv, CountInv, NEW i \in Calls, NEW c, CallFine(c),
           call' = [call EXCEPT ![i] = c], UNCHANGED <<courses, underneath>>
    PROVE  CountInv'
  <1>1. call'[i] = c /\ \A j \in Calls : j # i => call'[j] = call[j]
    BY DEF CoursesInv, Shapes
  <1> QED
    BY <1>1 DEF CountInv, Open, underneath

(* The next step of a call that has not the lock. *)
LEMMA AskedFinely ==
    ASSUME CoursesAssumption, CoursesInv, CountInv, NEW i \in Calls,
           NumbersRead(i) \/ InfoRead(i) \/ CreateCheck(i) \/ DeleteCheck(i) \/ GiveUp(i)
    PROVE  CountInv'
  <1>1. UNCHANGED <<courses, underneath>>
    BY DEF NumbersRead, InfoRead, CreateCheck, DeleteCheck, GiveUp
  <1>2. ASSUME NEW c, CallFine(c), To(i, c)
        PROVE  CountInv'
    BY <1>1, <1>2, CallFinely DEF To
  <1>3. Open \subseteq Ids /\ \A k \in Open : IsCourse(courses[k])
    BY DEF CoursesInv, Shapes, CountInv, Fine
  <1>4. CASE NumbersRead(i)
    <2>1. PICK k \in Open, sent \in SUBSET Tracks, v \in [Tracks -> Numbers] :
             /\ Begin(i, "numbers") /\ ~courses[k].exported /\ sent # {}
             /\ LET cols == [t \in Tracks |-> IF t \in sent THEN v[t] ELSE courses[k].cols[t]]
                IN  /\ cols["regular"] + cols["special"] <= MaxStudents
                    /\ To(i, [Idle EXCEPT !.at = "asked", !.op = "numbers", !.k = k,
                                          !.sent = sent, !.cols = cols])
             /\ UNCHANGED <<courses, underneath>>
      BY <1>4 DEF NumbersRead
    <2> DEFINE cols == [t \in Tracks |-> IF t \in sent THEN v[t] ELSE courses[k].cols[t]]
               c == [Idle EXCEPT !.at = "asked", !.op = "numbers", !.k = k,
                                 !.sent = sent, !.cols = cols]
    <2>2. To(i, c)
      BY <2>1
    <2>3. cols \in [Tracks -> Nat] /\ k \in Ids
      <3>1. ASSUME NEW t \in Tracks PROVE v[t] \in Nat /\ courses[k].cols[t] \in Nat
        <4>1. courses[k].cols \in [Tracks -> Nat]
          BY <1>3 DEF IsCourse
        <4>2. v[t] \in Numbers
          OBVIOUS
        <4> QED
          BY <4>1, <4>2 DEF CoursesAssumption
      <3> QED
        BY <1>3, <3>1
    <2> HIDE DEF cols
    <2>4. c.at = "asked" /\ c.op = "numbers" /\ c.k = k /\ c.cols = cols
      BY DEF Idle
    <2> HIDE DEF c
    <2>5. CallFine(c)
      BY <2>3, <2>4 DEF CallFine
    <2> QED
      BY <1>2, <2>2, <2>5
  <1>5. CASE InfoRead(i)
    <2>1. PICK k \in Open :
             \/ \E c \in Codes : To(i, [Idle EXCEPT !.at = "asked", !.op = "info", !.k = k,
                                                    !.code = c, !.hrs = courses[k].hrs])
             \/ \E h \in {0, 1} : To(i, [Idle EXCEPT !.at = "asked", !.op = "info", !.k = k,
                                                     !.hrs = h])
      BY <1>5, Zenon DEF InfoRead
    <2>2. ASSUME NEW x \in Codes, NEW h \in Nat
          PROVE  /\ CallFine([Idle EXCEPT !.at = "asked", !.op = "info", !.k = k, !.code = x,
                                          !.hrs = h])
                 /\ CallFine([Idle EXCEPT !.at = "asked", !.op = "info", !.k = k, !.hrs = h])
      BY <1>3 DEF Idle, CallFine
    <2>3. courses[k].hrs \in Nat /\ 0 \in Nat /\ 1 \in Nat
      BY <1>3 DEF IsCourse
    <2>4. CASE \E c \in Codes : To(i, [Idle EXCEPT !.at = "asked", !.op = "info", !.k = k,
                                                   !.code = c, !.hrs = courses[k].hrs])
      BY <1>2, <2>2, <2>3, <2>4
    <2>5. CASE \E h \in {0, 1} : To(i, [Idle EXCEPT !.at = "asked", !.op = "info", !.k = k,
                                                    !.hrs = h])
      <3>1. PICK h \in {0, 1} : To(i, [Idle EXCEPT !.at = "asked", !.op = "info", !.k = k,
                                                   !.hrs = h])
        BY <2>5
      <3>2. CallFine([Idle EXCEPT !.at = "asked", !.op = "info", !.k = k, !.hrs = h])
        BY <1>3, <2>3 DEF Idle, CallFine
      <3> QED
        BY <1>2, <3>1, <3>2
    <2> QED
      BY <2>1, <2>4, <2>5
  <1>6. CASE CreateCheck(i)
    <2>1. PICK k \in Ids \ Open, x \in Codes :
             To(i, [Idle EXCEPT !.at = "asked", !.op = "create", !.k = k, !.code = x])
      BY <1>6, Zenon DEF CreateCheck
    <2>2. CallFine([Idle EXCEPT !.at = "asked", !.op = "create", !.k = k, !.code = x])
      BY DEF Idle, CallFine
    <2> QED
      BY <1>2, <2>1, <2>2
  <1>7. CASE DeleteCheck(i)
    <2>1. PICK k \in Open : To(i, [Idle EXCEPT !.at = "asked", !.op = "delete", !.k = k])
      BY <1>7, Zenon DEF DeleteCheck
    <2>2. CallFine([Idle EXCEPT !.at = "asked", !.op = "delete", !.k = k])
      BY <1>3 DEF Idle, CallFine
    <2> QED
      BY <1>2, <2>1, <2>2
  <1>8. CASE GiveUp(i)
    <2>1. CallFine(Idle)
      BY DEF Idle, CallFine
    <2> QED
      BY <1>2, <1>8, <2>1 DEF GiveUp
  <1> QED
    BY <1>4, <1>5, <1>6, <1>7, <1>8

(* A call takes the lock with an image that is fine. *)
LEMMA HeldFinely ==
    ASSUME CoursesInv, CountInv, NEW i \in Calls, NEW c, DOMAIN c = DOMAIN Idle, c.k \in Open,
           NEW r, Fine(r), Hold(i, c, r), UNCHANGED <<courses, underneath>>
    PROVE  CountInv'
  <1> DEFINE d == [c EXCEPT !.at = "held", !.image = r]
  <1>1. d.at = "held" /\ d.k = c.k /\ d.image = r
    BY DEF Idle
  <1>2. c.k \in Ids
    BY DEF CoursesInv, Shapes
  <1>3. To(i, d)
    BY DEF Hold
  <1> HIDE DEF d
  <1>4. CallFine(d)
    BY <1>1, <1>2 DEF CallFine
  <1> QED
    BY <1>3, <1>4, CallFinely DEF To

LEMMA EditFinely ==
    ASSUME CoursesInv, CountInv, NEW i \in Calls, NEW op, NEW k \in Open, NEW r, Fine(r),
           Edit(i, op, k, r), UNCHANGED <<courses, underneath>>
    PROVE  CountInv'
  <1> DEFINE c == [Idle EXCEPT !.op = op, !.k = k]
  <1>1. DOMAIN c = DOMAIN Idle /\ c.k = k
    BY DEF Idle
  <1>2. Hold(i, c, r)
    BY DEF Edit
  <1> HIDE DEF c
  <1> QED
    BY <1>1, <1>2, HeldFinely

LEMMA WrittenFinely ==
    ASSUME CoursesAssumption, CoursesInv, CountInv, NEW i \in Calls,
           NumbersWrite(i) \/ InfoWrite(i) \/ DeleteWrite(i)
    PROVE  CountInv'
  <1> DEFINE k == call[i].k
             r == courses[k]
  <1>1. k \in Open /\ UNCHANGED <<courses, underneath>> /\ call[i].at = "asked"
    BY DEF NumbersWrite, InfoWrite, DeleteWrite
  <1>2. Fine(r) /\ IsCourse(r) /\ CallFine(call[i]) /\ DOMAIN call[i] = DOMAIN Idle
    BY <1>1 DEF CoursesInv, Shapes, CountInv, Fine
  <1>3. CASE NumbersWrite(i)
    <2>1. PICK q \in Synced(r, call[i].cols) : Hold(i, call[i], [q EXCEPT !.cols = call[i].cols])
      BY <1>3, Zenon DEF NumbersWrite
    <2>2. call[i].cols \in [Tracks -> Nat]
      BY <1>1, <1>2, <1>3 DEF NumbersWrite, CallFine
    <2>3. Fine([q EXCEPT !.cols = call[i].cols])
      BY <1>2, <2>2, SyncedFine
    <2> QED
      BY <1>1, <1>2, <2>1, <2>3, HeldFinely
  <1>4. CASE InfoWrite(i)
    <2> DEFINE z == IF call[i].code = None THEN [r EXCEPT !.hrs = call[i].hrs]
                                           ELSE [r EXCEPT !.code = call[i].code]
    <2>1. Hold(i, call[i], z)
      BY <1>4 DEF InfoWrite
    <2>2. call[i].hrs \in Nat /\ call[i].code \in Codes \cup {None}
      BY <1>1, <1>2, <1>4 DEF InfoWrite, CallFine
    <2>3. IsCourse(z) /\ z.secs = r.secs /\ z.cols = r.cols
      BY <1>2, <2>2 DEF IsCourse
    <2> HIDE DEF z
    <2>4. \A t : Class(z, t) = Class(r, t) /\ Count(z, t) = Count(r, t)
      BY <1>2, <2>3, CountsSame
    <2>5. Fine(z)
      BY <1>2, <2>3, <2>4 DEF Fine, Adding
    <2> QED
      BY <1>1, <1>2, <2>1, <2>5, HeldFinely
  <1>5. CASE DeleteWrite(i)
    <2>1. Hold(i, call[i], r)
      BY <1>5 DEF DeleteWrite
    <2> QED
      BY <1>1, <1>2, <2>1, HeldFinely
  <1> QED
    BY <1>3, <1>4, <1>5

(* Edits that end by recomputing the counts. *)
LEMMA RecountedFinely ==
    ASSUME CoursesAssumption, CoursesInv, CountInv, NEW i \in Calls,
           SectionAdd(i) \/ SectionDelete(i)
    PROVE  CountInv'
  <1>1. UNCHANGED <<courses, underneath>>
    BY DEF SectionAdd, SectionDelete
  <1>2. \A k \in Open : IsCourse(courses[k])
    BY DEF CountInv, Fine
  <1>3. CASE SectionAdd(i)
    <2>1. PICK k \in Open, no \in Nos, t \in Tracks, n \in Numbers, w \in {"none", "staff"} :
            \E s \in NewSection(courses[k]) :
               Edit(i, "add", k, Recomputed(WithSection(courses[k], s, NewRow(no, None, t, n, w))))
      BY <1>3 DEF SectionAdd
    <2>2. PICK s \in NewSection(courses[k]) :
               Edit(i, "add", k, Recomputed(WithSection(courses[k], s, NewRow(no, None, t, n, w))))
      BY <2>1
    <2>3. s \in SecIds
      BY DEF NewSection
    <2>4. IsCourse(WithSection(courses[k], s, NewRow(no, None, t, n, w)))
      BY <1>2, <2>3, NewRowIs, WithSectionIs
    <2> QED
      BY <1>1, <2>2, <2>4, RecomputedFine, EditFinely
  <1>4. CASE SectionDelete(i)
    <2>1. PICK k \in Open : \E s \in DOMAIN courses[k].secs :
            Edit(i, "drop", k, Recomputed(WithoutSection(courses[k], s)))
      BY <1>4 DEF SectionDelete
    <2> QED
      BY <1>1, <1>2, <2>1, WithoutSectionIs, RecomputedFine, EditFinely
  <1> QED
    BY <1>3, <1>4

LEMMA UpdatedFinely ==
    ASSUME CoursesAssumption, CoursesInv, CountInv, NEW i \in Calls, SectionUpdate(i)
    PROVE  CountInv'
  <1>1. PICK k \in Open : \E s \in DOMAIN courses[k].secs :
           \/ \E no \in Nos : Edit(i, "resize", k, [courses[k] EXCEPT !.secs[s].no = no])
           \/ \E n \in Numbers :
                 Edit(i, "resize", k, Recomputed([courses[k] EXCEPT !.secs[s].n = n]))
    BY DEF SectionUpdate
  <1> DEFINE r == courses[k]
  <1>2. PICK s \in DOMAIN r.secs :
           \/ \E no \in Nos : Edit(i, "resize", k, [r EXCEPT !.secs[s].no = no])
           \/ \E n \in Numbers : Edit(i, "resize", k, Recomputed([r EXCEPT !.secs[s].n = n]))
    BY <1>1
  <1>3. Fine(r) /\ IsCourse(r) /\ UNCHANGED <<courses, underneath>>
    BY DEF CountInv, Fine, SectionUpdate
  <1> HIDE DEF r
  <1>4. ASSUME NEW no \in Nos, Edit(i, "resize", k, [r EXCEPT !.secs[s].no = no])
        PROVE  CountInv'
    <2> DEFINE row == [r.secs[s] EXCEPT !.no = no]
    <2>1. r.secs[s] \in Section
      BY <1>3 DEF IsCourse
    <2>2. row \in Section /\ row.track = r.secs[s].track /\ row.n = r.secs[s].n
      BY <2>1 DEF Section
    <2>3. [r EXCEPT !.secs[s].no = no] = [r EXCEPT !.secs[s] = row]
      BY <1>3 DEF IsCourse
    <2> HIDE DEF row
    <2>4. Fine([r EXCEPT !.secs[s] = row])
      BY <1>3, <2>2, RewrittenFine
    <2> QED
      BY <1>3, <1>4, <2>3, <2>4, EditFinely
  <1>5. ASSUME NEW n \in Numbers, Edit(i, "resize", k, Recomputed([r EXCEPT !.secs[s].n = n]))
        PROVE  CountInv'
    <2>1. n \in Nat
      BY DEF CoursesAssumption
    <2>2. IsCourse([r EXCEPT !.secs[s].n = n])
      BY <1>3, <2>1, ResizedIs
    <2>3. PICK q : q = [r EXCEPT !.secs[s].n = n]
      OBVIOUS
    <2> QED
      BY <1>3, <1>5, <2>2, <2>3, RecomputedFine, EditFinely
  <1> QED
    BY <1>2, <1>4, <1>5

LEMMA TimedFinely ==
    ASSUME CoursesAssumption, CoursesInv, CountInv, NEW i \in Calls, TimetableSave(i)
    PROVE  CountInv'
  <1>1. PICK k \in Open : \E s \in DOMAIN courses[k].secs :
           \/ \E w \in {"none", "staff"} :
                 Edit(i, "times", k, [courses[k] EXCEPT !.secs[s].times = w])
           \/ Hold(i, [Idle EXCEPT !.op = "times", !.k = k, !.into = s, !.lecturer = TRUE],
                   [courses[k] EXCEPT !.secs[s].times = "lecturer", !.secs[s].spent = TRUE])
    BY DEF TimetableSave
  <1> DEFINE r == courses[k]
  <1>2. PICK s \in DOMAIN r.secs :
           \/ \E w \in {"none", "staff"} : Edit(i, "times", k, [r EXCEPT !.secs[s].times = w])
           \/ Hold(i, [Idle EXCEPT !.op = "times", !.k = k, !.into = s, !.lecturer = TRUE],
                   [r EXCEPT !.secs[s].times = "lecturer", !.secs[s].spent = TRUE])
    BY <1>1
  <1>3. Fine(r) /\ IsCourse(r) /\ UNCHANGED <<courses, underneath>>
    BY DEF CountInv, Fine, TimetableSave
  <1> HIDE DEF r
  <1>4. r.secs[s] \in Section
    BY <1>3 DEF IsCourse
  <1>5. ASSUME NEW w \in {"none", "staff"}, Edit(i, "times", k, [r EXCEPT !.secs[s].times = w])
        PROVE  CountInv'
    <2> DEFINE row == [r.secs[s] EXCEPT !.times = w]
    <2>1. row \in Section /\ row.track = r.secs[s].track /\ row.n = r.secs[s].n
      BY <1>4 DEF Section
    <2>2. [r EXCEPT !.secs[s].times = w] = [r EXCEPT !.secs[s] = row]
      BY <1>3 DEF IsCourse
    <2> HIDE DEF row
    <2>3. Fine([r EXCEPT !.secs[s] = row])
      BY <1>3, <2>1, RewrittenFine
    <2> QED
      BY <1>3, <1>5, <2>2, <2>3, EditFinely
  <1>6. ASSUME Hold(i, [Idle EXCEPT !.op = "times", !.k = k, !.into = s, !.lecturer = TRUE],
                    [r EXCEPT !.secs[s].times = "lecturer", !.secs[s].spent = TRUE])
        PROVE  CountInv'
    <2> DEFINE c   == [Idle EXCEPT !.op = "times", !.k = k, !.into = s, !.lecturer = TRUE]
               row == [r.secs[s] EXCEPT !.times = "lecturer", !.spent = TRUE]
               q   == [r EXCEPT !.secs[s].times = "lecturer", !.secs[s].spent = TRUE]
    <2>1. row \in Section /\ row.track = r.secs[s].track /\ row.n = r.secs[s].n
      BY <1>4 DEF Section
    <2>2. q = [r EXCEPT !.secs[s] = row]
      <3> DEFINE one == [r.secs EXCEPT ![s] = [r.secs[s] EXCEPT !.times = "lecturer"]]
      <3>1. q = [r EXCEPT !.secs = [one EXCEPT ![s].spent = TRUE]]
        BY <1>3 DEF IsCourse
      <3>2. [one EXCEPT ![s].spent = TRUE] = [r.secs EXCEPT ![s] = row]
        BY <1>3 DEF IsCourse
      <3> QED
        BY <1>3, <3>1, <3>2 DEF IsCourse
    <2> HIDE DEF row
    <2>3. Fine([r EXCEPT !.secs[s] = row])
      BY <1>3, <2>1, RewrittenFine
    <2>4. Fine(q)
      BY <2>2, <2>3
    <2>5. DOMAIN c = DOMAIN Idle /\ c.k = k /\ Hold(i, c, q)
      BY <1>6 DEF Idle
    <2> HIDE DEF c, q
    <2> QED
      BY <1>3, <2>4, <2>5, HeldFinely
  <1> QED
    BY <1>2, <1>5, <1>6

LEMMA MergedFinely ==
    ASSUME CoursesAssumption, CoursesInv, CountInv, NEW i \in Calls, CodeMerge(i)
    PROVE  CountInv'
  <1>1. PICK k \in Open, c \in Codes, no \in Nos, t \in Tracks, n \in Numbers :
        /\ Editing(i, "merge", k) /\ ~CodeTaken(c, k) /\ c \notin CodesOf(courses[k])
        /\ LET r == [courses[k] EXCEPT !.alts = @ \cup {c}]
           IN  \/ \E p \in Partner(r, no, t) : \E q \in Promoted([r EXCEPT !.secs[p].n = @ + n]) :
                     Edit(i, "merge", k, Recomputed(q))
               \/ /\ Partner(r, no, t) = {}
                  /\ \E s \in NewSection(r) :
                     \E q \in Promoted(WithSection(r, s, NewRow(no, c, t, n, "staff"))) :
                        Edit(i, "merge", k, Recomputed(q))
        /\ UNCHANGED <<courses, underneath>>
    BY DEF CodeMerge
  <1>2. UNCHANGED <<courses, underneath>> /\ IsCourse(courses[k])
    BY <1>1 DEF CountInv, Fine
  <1> DEFINE r == [courses[k] EXCEPT !.alts = @ \cup {c}]
  <1>3. IsCourse(r)
    BY <1>2 DEF IsCourse
  <1> HIDE DEF r
  <1>4. ASSUME NEW z, IsCourse(z), NEW q \in Promoted(z), Edit(i, "merge", k, Recomputed(q))
        PROVE  CountInv'
    <2>1. Fine(Recomputed(q))
      BY <1>4, PromotedIs, RecomputedFine
    <2> QED
      BY <1>2, <1>4, <2>1, EditFinely
  <1>5. ASSUME NEW p \in Partner(r, no, t)
        PROVE  IsCourse([r EXCEPT !.secs[p].n = @ + n])
    <2>1. p \in DOMAIN r.secs
      BY DEF Partner, Own, Class
    <2>2. r.secs[p].n + n \in Nat
      BY <1>3, <2>1 DEF IsCourse, Section, CoursesAssumption
    <2>3. [r EXCEPT !.secs[p].n = @ + n] = [r EXCEPT !.secs[p].n = r.secs[p].n + n]
      BY <1>3, <2>1 DEF IsCourse
    <2> QED
      BY <1>3, <2>1, <2>2, <2>3, ResizedIs
  <1>6. ASSUME NEW s \in NewSection(r)
        PROVE  IsCourse(WithSection(r, s, NewRow(no, c, t, n, "staff")))
    <2>1. s \in SecIds
      BY DEF NewSection
    <2> QED
      BY <1>3, <2>1, NewRowIs, WithSectionIs
  <1> QED
    BY <1>1, <1>4, <1>5, <1>6 DEF r

LEMMA FoldedFinely ==
    ASSUME CoursesAssumption, CoursesInv, CountInv, NEW i \in Calls, SectionFold(i)
    PROVE  CountInv'
  <1>1. PICK k \in Open : \E s, p \in DOMAIN courses[k].secs :
              LET r == [courses[k] EXCEPT !.secs[p].n = @ + courses[k].secs[s].n]
              IN  Hold(i, [Idle EXCEPT !.op = "fold", !.k = k, !.from = s, !.into = p],
                       Recomputed(WithoutSection(r, s)))
    BY Zenon DEF SectionFold
  <1> DEFINE old == courses[k]
  <1>2. PICK s \in DOMAIN old.secs, p \in DOMAIN old.secs :
              LET r == [old EXCEPT !.secs[p].n = @ + old.secs[s].n]
              IN  Hold(i, [Idle EXCEPT !.op = "fold", !.k = k, !.from = s, !.into = p],
                       Recomputed(WithoutSection(r, s)))
    BY <1>1
  <1>3. IsCourse(old) /\ UNCHANGED <<courses, underneath>>
    BY DEF CountInv, Fine, SectionFold
  <1> DEFINE r == [old EXCEPT !.secs[p].n = @ + old.secs[s].n]
             q == Recomputed(WithoutSection(r, s))
             c == [Idle EXCEPT !.op = "fold", !.k = k, !.from = s, !.into = p]
  <1>4. Hold(i, c, q)
    BY <1>2
  <1> HIDE DEF old
  <1>5. IsCourse(r)
    <2>1. old.secs[p].n + old.secs[s].n \in Nat
      BY <1>3 DEF IsCourse, Section
    <2>2. r = [old EXCEPT !.secs[p].n = old.secs[p].n + old.secs[s].n]
      BY <1>3 DEF IsCourse
    <2> QED
      BY <1>3, <2>1, <2>2, ResizedIs
  <1> HIDE DEF r
  <1>6. Fine(q)
    BY <1>5, WithoutSectionIs, RecomputedFine
  <1>7. DOMAIN c = DOMAIN Idle /\ c.k = k
    BY DEF Idle
  <1> HIDE DEF q, c
  <1> QED
    BY <1>3, <1>4, <1>6, <1>7, HeldFinely

LEMMA FlaggedFine ==
    ASSUME CoursesAssumption, NEW r, Fine(r), NEW b \in BOOLEAN
    PROVE  Fine([r EXCEPT !.exported = b])
  <1> DEFINE q == [r EXCEPT !.exported = b]
  <1>1. IsCourse(r) /\ IsCourse(q) /\ q.secs = r.secs /\ q.cols = r.cols
    BY DEF Fine, IsCourse
  <1> HIDE DEF q
  <1>2. \A t : Class(q, t) = Class(r, t) /\ Count(q, t) = Count(r, t)
    BY <1>1, CountsSame
  <1>3. Fine(q)
    BY <1>1, <1>2 DEF Fine, Adding
  <1> QED
    BY <1>3 DEF q

(* Steps that write the tables. *)
LEMMA CreatedFinely ==
    ASSUME CoursesAssumption, CoursesInv, CountInv, NEW i \in Calls, CreateInsert(i)
    PROVE  CountInv'
  <1> DEFINE k == call[i].k
  <1>1. PICK no \in Nos, t \in Tracks, n \in Numbers :
          LET s   == CHOOSE x \in SecIds : TRUE
              sec == NewRow(no, None, t, n, "staff")
              r == Recomputed([code |-> call[i].code, alts |-> {}, hrs |-> 1,
                               exported |-> FALSE, cols |-> [x \in Tracks |-> 0],
                               secs |-> [x \in {s} |-> sec]])
          IN  courses' = [x \in Open \cup {k} |-> IF x = k THEN r ELSE courses[x]]
    BY DEF CreateInsert
  <1> DEFINE s    == CHOOSE x \in SecIds : TRUE
             secs == [x \in {s} |-> NewRow(no, None, t, n, "staff")]
             z    == [code |-> call[i].code, alts |-> {}, hrs |-> 1, exported |-> FALSE,
                      cols |-> [x \in Tracks |-> 0], secs |-> secs]
             r    == Recomputed(z)
  <1>2. s \in SecIds
    BY DEF CoursesAssumption
  <1>3. call[i].code \in Codes
    BY DEF CountInv, CallFine, CreateInsert
  <1>4. courses' = [x \in Open \cup {k} |-> IF x = k THEN r ELSE courses[x]]
    BY <1>1
  <1>5. IsCourse(z)
    <2>1. DOMAIN secs = {s} /\ secs \in [{s} -> Section]
      BY NewRowIs
    <2> HIDE DEF secs
    <2> QED
      BY <1>2, <1>3, <2>1 DEF IsCourse
  <1> HIDE DEF z
  <1>6. Fine(r)
    BY <1>5, RecomputedFine
  <1> HIDE DEF r
  <1>7. Open' = Open \cup {k} /\ \A x \in Open' : courses'[x] = IF x = k THEN r ELSE courses[x]
    BY <1>4 DEF Open
  <1>8. UNCHANGED <<approved, cap, ops>>
    BY DEF CreateInsert, underneath
  <1>9. call' = [call EXCEPT ![i] = Idle] /\ CallFine(Idle)
    BY DEF CreateInsert, To, CallFine, Idle
  <1>10. \A j \in Calls : CallFine(call'[j])
    BY <1>9 DEF CountInv, CoursesInv, Shapes
  <1> QED
    BY <1>6, <1>7, <1>8, <1>10 DEF CountInv

LEMMA CommittedFinely ==
    ASSUME CoursesAssumption, CoursesInv, CountInv, NEW i \in Calls, Commit(i)
    PROVE  CountInv'
  <1> DEFINE c == call[i]
             k == call[i].k
  <1>1. Fine(c.image) /\ k \in Open /\ courses[k].exported \in BOOLEAN
    BY CommitWrites DEF CountInv, CallFine, Commit, Fine, IsCourse
  <1>2. \A x \in Open' : Fine(courses'[x])
    <2>1. CASE c.op = "delete"
      <3>1. courses' = [x \in Open \ {k} |-> courses[x]]
        BY <2>1 DEF Commit
      <3> QED
        BY <3>1 DEF Open, CountInv
    <2>2. CASE c.op # "delete"
      <3>1. PICK q : q = [c.image EXCEPT !.exported = courses[k].exported]
        OBVIOUS
      <3>2. courses' = [courses EXCEPT ![k] = q]
        BY <2>2, <3>1 DEF Commit
      <3>3. Fine(q)
        BY <1>1, <3>1, FlaggedFine
      <3> QED
        BY <3>2, <3>3 DEF Open, CountInv
    <2> QED
      BY <2>1, <2>2
  <1>3. call' = [call EXCEPT ![i] = Idle] /\ CallFine(Idle) /\ UNCHANGED <<approved, cap, ops>>
    BY DEF Commit, To, CallFine, Idle
  <1>4. \A j \in Calls : CallFine(call'[j])
    BY <1>3 DEF CountInv, CoursesInv, Shapes
  <1> QED
    BY <1>2, <1>3, <1>4 DEF CountInv

LEMMA AroundFinely ==
    ASSUME CoursesAssumption, CoursesInv, CountInv, Around
    PROVE  CountInv'
  <1>1. ASSUME UNCHANGED <<courses, call, ops>>, approved' \subseteq Ids, cap' \in Caps
        PROVE  CountInv'
    BY <1>1 DEF CountInv, Open
  <1>2. ASSUME NEW k \in Open, NEW b \in BOOLEAN, courses' = [courses EXCEPT ![k].exported = b],
               UNCHANGED <<approved, cap, call, ops>>
        PROVE  CountInv'
    <2>1. PICK q : q = [courses[k] EXCEPT !.exported = b]
      OBVIOUS
    <2>2. Fine(q)
      BY <2>1, FlaggedFine DEF CountInv
    <2>3. courses' = [courses EXCEPT ![k] = q]
      BY <1>2, <2>1 DEF Open
    <2> QED
      BY <1>2, <2>2, <2>3 DEF CountInv, Open
  <1>3. approved \subseteq Ids /\ cap \in Caps /\ Open \subseteq Ids
    BY DEF CountInv, CoursesInv, Shapes
  <1>4. ASSUME NEW k \in Open, MarkExported(k) \/ Unexport(k) PROVE CountInv'
    BY <1>2, <1>4 DEF MarkExported, Unexport
  <1>5. ASSUME NEW k \in Open,
               \/ \E s \in SecIds : RequestFiled(k, s)
               \/ \E s \in SecIds, x \in Sittings : LogHours(k, s, x)
               \/ RequestApproved(k) \/ ExportMonth(k) \/ MarkExportedFails(k) \/ SendToFinance(k)
        PROVE  CountInv'
    BY <1>1, <1>3, <1>5 DEF RequestFiled, LogHours, RequestApproved, ExportMonth, MarkExportedFails,
                            SendToFinance
  <1>6. ASSUME SetTermBudgetCap PROVE CountInv'
    BY <1>1, <1>3, <1>6 DEF SetTermBudgetCap
  <1> QED
    BY <1>4, <1>5, <1>6 DEF Around

(* Whoever typed last and however a total was shared out, every course has   *)
(* the types of its table and counts that add up.                            *)
THEOREM CountsKept == CoursesSpec => []CountInv
  <1>1. Init => CountInv
    <2> SUFFICES ASSUME Init PROVE CountInv
      OBVIOUS
    <2>1. \A k \in Open : Fine(courses[k])
      BY CoursesAssumption DEF CoursesAssumption, Init, Open, Fine, Adding
    <2>2. \A i \in Calls : call[i] = Idle
      BY DEF Init
    <2>3. CallFine(Idle)
      BY DEF CallFine, Idle
    <2> QED
      BY <2>1, <2>2, <2>3, CoursesAssumption DEF CountInv, Init, CoursesAssumption
  <1>2. CoursesInv /\ CountInv /\ [Next]_courseVars => CountInv'
    <2> SUFFICES ASSUME CoursesInv, CountInv, [Next]_courseVars PROVE CountInv'
      OBVIOUS
    <2>1. CASE UNCHANGED courseVars
      BY <2>1 DEF courseVars, CountInv, Open
    <2>2. CASE Next
      BY <2>2, CoursesAssumption, AskedFinely, WrittenFinely, RecountedFinely, UpdatedFinely,
         TimedFinely, MergedFinely, FoldedFinely, CreatedFinely, CommittedFinely, AroundFinely
      DEF Next
    <2> QED
      BY <2>1, <2>2
  <1> QED
    BY <1>1, <1>2, CoursesKept, PTL DEF CoursesSpec

(* teaching.go, recomputeAggregate and syncSectionCounts: the counts the     *)
(* budget is made of are those of the sections, for any number of sections,  *)
(* figures and calls at once.                                                *)
THEOREM HeadcountsAddUp == CoursesSpec => []HeadcountsAdd
  <1>1. CountInv => HeadcountsAdd
    BY DEF CountInv, Fine, Adding, HeadcountsAdd
  <1> QED
    BY <1>1, CountsKept, PTL

(* The types of the tables and of the calls. *)
THEOREM CoursesTypes == CoursesSpec => []CoursesTypeOK
  <1>1. CoursesInv /\ CountInv => CoursesTypeOK
    <2> SUFFICES ASSUME CoursesInv, CountInv PROVE CoursesTypeOK
      OBVIOUS
    <2>1. Shapes
      BY DEF CoursesInv
    <2>2. \A k \in Open : IsCourse(courses[k])
      BY DEF CountInv, Fine
    <2>3. \A i \in Calls : /\ call[i].at \in {"idle", "asked", "held"}
                           /\ call[i].at # "idle" => call[i].k \in Ids
                           /\ call[i].at = "held" => IsCourse(call[i].image)
      BY DEF CountInv, CallFine, Fine
    <2>4. approved \subseteq Ids /\ cap \in Caps /\ ops \in Workloads
      BY DEF CountInv
    <2> QED
      BY <2>1, <2>2, <2>3, <2>4 DEF Shapes, CoursesTypeOK
  <1> QED
    BY <1>1, CoursesKept, CountsKept, PTL
=============================================================================
