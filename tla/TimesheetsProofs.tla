-------------------------- MODULE TimesheetsProofs --------------------------
(***************************************************************************)
(* Whatever the sections, the timetable, the requests in flight and the    *)
(* order they look and write in: rows keep their types, no hour is billed  *)
(* to two courses, and the week's hours and the day's pay hold, except by  *)
(* a gate overtaken and two approvals open at once.  What Generate makes   *)
(* is made again by the next run, and would be approved.                   *)
(*                                                                         *)
(* Shapes    every row is proper, with an id of its own, and so is what a  *)
(*           request read or is to commit.                                 *)
(* Billed    the rows approved or written and not yet committed.  They are *)
(*           clear of each other because each write is checked against     *)
(*           what is committed, and another one open is the exception      *)
(*           (Crossing).                                                   *)
(* GatesFine a gate relied on its look: that the rows in review, with its  *)
(*           own as they will be, keep the week and the day.  Rows enter   *)
(*           review, move there and leave it, and makeups come and go, but *)
(*           what did so overtook it, so what an un-overtaken gate relied  *)
(*           on still holds when it commits, and what is approved is part  *)
(*           of what is in review.  The day's pay is of regular rows: the  *)
(*           price of a special one falls and rises with its copies.       *)
(* Fitting   Generate admits one row after another: each turn keeps what   *)
(*           it made within the day's hours and pay, the week and apart    *)
(*           from the rest, so the last does.                              *)
(***************************************************************************)
EXTENDS Timesheets, Sums

(* A candidate is no row yet: it has the empty id.                           *)
RowSet == Lines(Keys \cup {<<>>})

Line(r)  == r \in RowSet /\ r.from < r.to /\ r.act \in Info[r.asg].kinds
Sheet(S) == IsFiniteSet(S) /\ \A r \in S : Line(r)

Spans  == [r \in RowSet |-> Span(r)]
Prices == [r \in RowSet |-> Paid(r)]

LEMMA PickMax ==
  ASSUME NEW n \in Nat
  PROVE  \A s \in SUBSET (1..n) : s # {} => Max(s) \in s
<1> SUFFICES ASSUME NEW s \in SUBSET (1..n), s # {} PROVE Max(s) \in s
  OBVIOUS
<1>1. IsFiniteSet(s) /\ s \subseteq Nat
  <2>1. IsFiniteSet(1..n)
    BY FS_Interval
  <2>2. IsFiniteSet(s)
    BY <2>1, FS_Subset
  <2>3. s \subseteq Nat
    OBVIOUS
  <2> QED
    BY <2>2, <2>3
<1>2. PICK x \in s : \A y \in s : y <= x
  BY <1>1, GreatestNat
<1>3. \A y \in s : x >= y
  BY <1>1, <1>2
<1> QED
  BY <1>3 DEF Max

(* What a pass over the slots keeps.                                         *)
LEMMA FilledStays ==
  ASSUME NEW v, NEW a, NEW base, NEW n \in Nat, NEW C, DOMAIN C = 1..n, NEW A, NEW made \in A,
         \A k \in 1..n, y \in A : Turn(v, a, base, y, C[k]) \in A
  PROVE  Filled(v, a, base, made, C) \in A
<1> DEFINE It(it) == it = [s \in SUBSET (1..n) |-> IF s = {} THEN made
                              ELSE Turn(v, a, base, it[s \ {Max(s)}], C[Max(s)])]
           iter == CHOOSE it : It(it)
           pick == [s \in SUBSET (1..n) |-> Max(s)]
           h    == [p \in (1..n) \X A |-> Turn(v, a, base, p[2], C[p[1]])]
<1>1. Filled(v, a, base, made, C) = iter[1..n]
  BY DEF Filled, FoldLeft, MapThenFoldSet
<1>2. IsFiniteSet(1..n)
  BY FS_Interval
<1>3. \A s \in SUBSET (1..n) : s # {} => pick[s] \in s
  BY PickMax
<1>4. \A x \in 1..n, y \in A : h[<<x, y>>] \in A /\ h[<<x, y>>] = Turn(v, a, base, y, C[x])
  OBVIOUS
<1>5. ASSUME NEW it, Folded(it, made, h, pick, 1..n) PROVE It(it)
  <2>1. \A s \in SUBSET (1..n) : it[s] \in A
    <3> HIDE DEF pick, h, It, iter
    <3> QED
      BY <1>2, <1>3, <1>4, <1>5, FoldStays
  <2>2. ASSUME NEW s \in SUBSET (1..n), s # {}
        PROVE  h[<<pick[s], it[s \ {pick[s]}]>>] = Turn(v, a, base, it[s \ {Max(s)}], C[Max(s)])
    <3>1. pick[s] = Max(s) /\ pick[s] \in 1..n /\ it[s \ {Max(s)}] \in A
      BY <1>3, <2>1, <2>2
    <3> HIDE DEF h, pick
    <3> QED
      BY <1>4, <3>1
  <2> HIDE DEF h, pick
  <2>3. it = [s \in SUBSET (1..n) |-> IF s = {} THEN made ELSE h[<<pick[s], it[s \ {pick[s]}]>>]]
    BY <1>5 DEF Folded
  <2> QED
    BY <2>2, <2>3
<1>6. It(iter)
  <2>1. \E it : Folded(it, made, h, pick, 1..n)
    <3> HIDE DEF pick, h, It, iter
    <3> QED
      BY <1>2, <1>3, FoldExists
  <2>2. \E it : It(it)
    <3> HIDE DEF pick, h, It, iter
    <3> QED
      BY <1>5, <2>1
  <2> HIDE DEF It
  <2> QED
    BY <2>2
<1>7. ASSUME NEW s \in SUBSET (1..n), \A u \in SUBSET s : u # s => u \in {x \in SUBSET (1..n) : iter[x] \in A}
      PROVE  s \in {x \in SUBSET (1..n) : iter[x] \in A}
  <2>1. iter[s] = IF s = {} THEN made ELSE Turn(v, a, base, iter[s \ {Max(s)}], C[Max(s)])
    <3> HIDE DEF iter
    <3> QED
      BY <1>6
  <2> HIDE DEF iter
  <2>2. CASE s = {}
    BY <2>1, <2>2
  <2>3. CASE s # {}
    <3>1. Max(s) \in s
      BY <2>3, PickMax
    <3>2. iter[s \ {Max(s)}] \in A
      BY <1>7, <3>1
    <3> QED
      BY <2>1, <2>3, <3>1, <3>2
  <2> QED
    BY <2>2, <2>3
<1> HIDE DEF iter, It
<1>8. \A s \in SUBSET (1..n) : s \in {x \in SUBSET (1..n) : iter[x] \in A}
  <2> DEFINE T == {x \in SUBSET (1..n) : iter[x] \in A}
  <2>1. \A s \in SUBSET (1..n) : (\A u \in SUBSET s : u # s => u \in T) => s \in T
    BY <1>7
  <2> HIDE DEF T
  <2>2. \A s \in SUBSET (1..n) : s \in T
    BY <1>2, <2>1, SetInduction
  <2> QED
    BY <2>2 DEF T
<1> QED
  BY <1>1, <1>8

-----------------------------------------------------------------------------
(* Lengths and prices.                                                      *)
LEMMA LineNumbers ==
  ASSUME NEW r, Line(r)
  PROVE  /\ Span(r) \in Nat /\ Paid(r) \in Nat /\ Cap(r) \in Nat
         /\ Spans[r] = Span(r) /\ Prices[r] = Paid(r)
         /\ r.from \in Nat /\ r.to \in Nat /\ r.from < r.to
<1>1. /\ r \in RowSet /\ r.from \in Nat /\ r.to \in Nat /\ r.from < r.to
      /\ r.asg \in Asgs /\ r.act \in Kinds
  BY DEF Line, RowSet, Lines
<1>2. Span(r) \in Nat
  BY <1>1 DEF Span
<1>3. Info[r.asg].rate \in Nat /\ Info[r.asg].cap \in [Kinds -> Nat]
  BY <1>1, TimesheetsAssumption
<1>4. Paid(r) \in Nat
  BY <1>2, <1>3 DEF Paid
<1>5. Pool(r) \in Kinds
  BY <1>1 DEF Pool, Kinds
<1>6. Cap(r) \in Nat
  BY <1>3, <1>5 DEF Cap
<1> QED
  BY <1>1, <1>2, <1>4, <1>6 DEF Spans, Prices

LEMMA HoursIs ==
  ASSUME NEW S, Sheet(S)
  PROVE  Hours(S) = SumOf(Spans, S) /\ Hours(S) \in Nat
<1> DEFINE It(it) == it = [s \in SUBSET S |-> IF s = {} THEN 0
                             ELSE Span(CHOOSE x \in s : TRUE) + it[s \ {CHOOSE x \in s : TRUE}]]
           iter == CHOOSE it : It(it)
<1>1. Hours(S) = iter[S]
  BY DEF Hours, MapThenSumSet, MapThenFoldSet
<1>2. \A s \in SUBSET S : s # {} => Spans[AnyOf(s)] = Span(AnyOf(s))
  BY LineNumbers, AnyIn DEF Sheet
<1>3. \A it : It(it) <=> Adds(it, Spans, S)
  BY <1>2 DEF Adds, AnyOf
<1>4. It(iter)
  <2> HIDE DEF It
  <2> QED
    BY <1>3, AddsExist DEF Sheet
<1> HIDE DEF iter
<1>5. Adds(iter, Spans, S)
  BY <1>3, <1>4
<1>6. Hours(S) = SumOf(Spans, S)
  BY <1>1, <1>5, SumIs DEF Sheet
<1>7. \A r \in S : Spans[r] \in Nat
  BY LineNumbers DEF Sheet
<1>8. IsFiniteSet(S)
  BY DEF Sheet
<1> QED
  BY <1>6, <1>7, <1>8, SumNat

LEMMA PriceIs ==
  ASSUME NEW S, Sheet(S)
  PROVE  MapThenSumSet(Paid, S) = SumOf(Prices, S) /\ MapThenSumSet(Paid, S) \in Nat
<1> DEFINE It(it) == it = [s \in SUBSET S |-> IF s = {} THEN 0
                             ELSE Paid(CHOOSE x \in s : TRUE) + it[s \ {CHOOSE x \in s : TRUE}]]
           iter == CHOOSE it : It(it)
<1>1. MapThenSumSet(Paid, S) = iter[S]
  BY DEF MapThenSumSet, MapThenFoldSet
<1>2. \A s \in SUBSET S : s # {} => Prices[AnyOf(s)] = Paid(AnyOf(s))
  BY LineNumbers, AnyIn DEF Sheet
<1>3. \A it : It(it) <=> Adds(it, Prices, S)
  BY <1>2 DEF Adds, AnyOf
<1>4. It(iter)
  <2> HIDE DEF It
  <2> QED
    BY <1>3, AddsExist DEF Sheet
<1> HIDE DEF iter
<1>5. Adds(iter, Prices, S)
  BY <1>3, <1>4
<1>6. MapThenSumSet(Paid, S) = SumOf(Prices, S)
  BY <1>1, <1>5, SumIs DEF Sheet
<1>7. \A r \in S : Prices[r] \in Nat
  BY LineNumbers DEF Sheet
<1>8. IsFiniteSet(S)
  BY DEF Sheet
<1> QED
  BY <1>6, <1>7, <1>8, SumNat

LEMMA SheetPart ==
  ASSUME NEW S, Sheet(S), NEW T \in SUBSET S
  PROVE  Sheet(T)
<1>1. IsFiniteSet(T)
  BY FS_Subset DEF Sheet
<1> QED
  BY <1>1 DEF Sheet

Priced(S) == {r \in S : ~\E s \in S : Copy(r, s) /\ Info[s.asg].regular}

LEMMA BahtIs ==
  ASSUME NEW S, Sheet(S)
  PROVE  Baht(S) = SumOf(Prices, Priced(S)) /\ Baht(S) \in Nat
<1>1. Sheet(Priced(S))
  BY SheetPart DEF Priced
<1>2. Baht(S) = MapThenSumSet(Paid, Priced(S))
  BY DEF Baht, Priced
<1> QED
  BY <1>1, <1>2, PriceIs

-----------------------------------------------------------------------------
(* What Generate makes are drafts of its assignment, finitely many.         *)
ViewFine(v) == Sheet(v.rows) /\ v.makeups \subseteq Moves

Own(a)    == {r \in RowSet : Line(r) /\ r.asg = a /\ r.status = "draft" /\ r.auto = TRUE}
Drafts(a) == {S \in SUBSET Own(a) : IsFiniteSet(S)}

LEMMA TurnsFall ==
  ASSUME NEW n \in Nat, NEW l \in Nat, NEW k \in 1..(n * l)
  PROVE  1 + ((k - 1) \div l) \in 1..n /\ 1 + ((k - 1) % l) \in 1..l
<1>1. l # 0 /\ k - 1 \in Nat /\ k - 1 < n * l
  <2>1. n * 0 = 0
    OBVIOUS
  <2> QED
    BY <2>1
<1>2. (k - 1) % l \in 0..(l - 1)
  BY <1>1
<1>3. PICK q : q = (k - 1) \div l
  OBVIOUS
<1>4. q \in Nat /\ l * q <= k - 1
  BY <1>1, <1>3
<1>5. q < n
  <2> SUFFICES ASSUME q >= n PROVE FALSE
    BY <1>4
  <2>1. l * q >= l * n /\ l * n = n * l
    BY <1>4
  <2>2. l * q \in Nat /\ l * n \in Nat
    BY <1>4
  <2> QED
    BY <1>1, <1>4, <2>1, <2>2
<1> QED
  BY <1>2, <1>3, <1>4, <1>5

LEMMA SlotFine ==
  ASSUME NEW P, NEW plan \in Seq(P), NEW k \in Turns(plan)
  PROVE  DayAt(plan, k) \in Days /\ SlotAt(plan, k) \in P /\ SlotAt(plan, k) \in Range2(plan)
<1>1. Len(Calendar) \in Nat /\ Days = 1..Len(Calendar)
  BY TimesheetsAssumption DEF Days
<1>2. Len(plan) \in Nat /\ DOMAIN plan = 1..Len(plan)
  OBVIOUS
<1>3. k \in 1..(Len(Calendar) * Len(plan))
  BY DEF Turns
<1>4. DayAt(plan, k) \in Days /\ 1 + ((k - 1) % Len(plan)) \in DOMAIN plan
  BY <1>1, <1>2, <1>3, TurnsFall DEF DayAt
<1> QED
  BY <1>4 DEF SlotAt, Range2

LEMMA RowFine ==
  ASSUME NEW v, ViewFine(v), NEW d \in Days, NEW p \in Range2(Timetable),
         p \in [asg : Asgs, kind : Kinds, weekday : Nat, from : Nat, to : Nat],
         p.kind \in Info[p.asg].kinds
  PROVE  RowOf(v, d, p).row \in Own(p.asg)
<1>1. p.from \in Nat /\ p.to \in Nat /\ p.from < p.to /\ p.asg \in Asgs /\ p.kind \in Kinds
  BY TimesheetsAssumption DEF Lasting
<1> DEFINE ms    == Moved(v, p.asg, d, p.kind)
           m     == CHOOSE x \in ms : TRUE
           timed == ms # {} /\ m.until # 0
           end   == IF timed THEN m.until ELSE p.to
           start == IF timed THEN m.from ELSE p.from
           duty  == Info[p.asg].attendance
           cut   == p.kind = "lecture" /\ 0 < duty /\ duty < end - start
           row   == [id |-> <<>>, asg |-> p.asg, day |-> IF ms = {} THEN d ELSE m.to, act |-> p.kind,
                     auto |-> TRUE, from |-> IF cut THEN end - duty ELSE start, to |-> end,
                     status |-> "draft"]
<1>2. RowOf(v, d, p).row = row
  BY DEF RowOf
<1>3. ms # {} => m \in ms
  OBVIOUS
<1>4. \A x \in ms : /\ x.to \in Days /\ x.from \in Nat /\ x.until \in Nat
                    /\ x.until # 0 => x.from < x.until
  BY TimesheetsAssumption DEF Moved, ViewFine
<1>5. end \in Nat /\ start \in Nat /\ start < end
  <2> HIDE DEF ms, m
  <2> QED
    BY <1>1, <1>3, <1>4
<1>6. (IF ms = {} THEN d ELSE m.to) \in Days
  <2> HIDE DEF ms, m
  <2> QED
    BY <1>3, <1>4
<1>7. duty \in Nat
  BY <1>1, TimesheetsAssumption
<1>8. PICK b : b = IF cut THEN end - duty ELSE start
  OBVIOUS
<1> HIDE DEF ms, m, timed, end, start, duty
<1>9. b \in Nat /\ b < end
  BY <1>5, <1>7, <1>8
<1>10. row.act = p.kind /\ row.asg = p.asg /\ row.status = "draft" /\ row.auto = TRUE
       /\ row.from = b /\ row.to = end
  BY <1>8
<1>11. row \in RowSet
  <2>1. "draft" \in Statuses
    BY DEF Statuses
  <2> QED
    BY <1>1, <1>5, <1>6, <1>8, <1>9, <2>1 DEF RowSet, Lines
<1> HIDE DEF row
<1> QED
  BY <1>2, <1>9, <1>10, <1>11 DEF Own, Line

LEMMA LessonFine ==
  ASSUME NEW v, ViewFine(v), NEW a, NEW k \in Turns(Timetable), Lessons(v, a)[k].holds
  PROVE  Lessons(v, a)[k].row \in Own(a)
<1> DEFINE d == DayAt(Timetable, k)
           p == SlotAt(Timetable, k)
<1>1. /\ d \in Days /\ p \in Range2(Timetable)
      /\ p \in [asg : Asgs, kind : Kinds, weekday : Nat, from : Nat, to : Nat]
  BY TimesheetsAssumption, SlotFine
<1> HIDE DEF d, p
<1>2. Lessons(v, a)[k] = [row |-> RowOf(v, d, p).row, holds |-> Falls(p, a, d) /\ Happens(v, d, p)]
  BY DEF Lessons, d, p
<1>3. p.asg = a /\ p.kind \in Info[p.asg].kinds
  <2>1. PICK h : h = (Falls(p, a, d) /\ Happens(v, d, p))
    OBVIOUS
  <2>2. Lessons(v, a)[k] = [row |-> RowOf(v, d, p).row, holds |-> h]
    BY <1>2, <2>1, Zenon
  <2>3. h
    BY <2>2
  <2>4. Falls(p, a, d) /\ Happens(v, d, p)
    BY <2>1, <2>3, Zenon
  <2> QED
    BY <2>4 DEF Falls, Happens
<1>4. RowOf(v, d, p).row \in Own(p.asg)
  BY <1>1, <1>3, RowFine
<1> QED
  BY <1>2, <1>3, <1>4

LEMMA GradingFine ==
  ASSUME NEW v, NEW a, NEW k \in Turns(Duties), Gradings(v, a)[k].holds
  PROVE  Gradings(v, a)[k].row \in Own(a)
<1> DEFINE d == DayAt(Duties, k)
           u == SlotAt(Duties, k)
<1>1. /\ d \in Days /\ u \in Range2(Duties)
      /\ u \in [asg : Asgs, weekday : Nat, from : Nat, to : Nat]
  BY TimesheetsAssumption, SlotFine
<1> HIDE DEF d, u
<1>2. Gradings(v, a)[k] = [row |-> DutyRow(d, u), holds |-> Falls(u, a, d) /\ DutyHappens(v, d, u)]
  BY DEF Gradings, d, u
<1>3. u.asg = a /\ "review" \in Info[u.asg].kinds
  <2>1. PICK h : h = (Falls(u, a, d) /\ DutyHappens(v, d, u))
    OBVIOUS
  <2>2. Gradings(v, a)[k] = [row |-> DutyRow(d, u), holds |-> h]
    BY <1>2, <2>1, Zenon
  <2>3. h
    BY <2>2
  <2>4. Falls(u, a, d) /\ DutyHappens(v, d, u)
    BY <2>1, <2>3, Zenon
  <2> QED
    BY <2>4 DEF Falls, DutyHappens
<1>4. u.from \in Nat /\ u.to \in Nat /\ u.from < u.to /\ u.asg \in Asgs
  BY <1>1, TimesheetsAssumption DEF Lasting
<1>5. DutyRow(d, u) \in RowSet
  BY <1>1, <1>4 DEF DutyRow, RowSet, Lines, Kinds, Statuses
<1>6. DutyRow(d, u) \in Own(a)
  BY <1>3, <1>4, <1>5 DEF DutyRow, Own, Line
<1> QED
  BY <1>2, <1>6

LEMMA FitFine ==
  ASSUME NEW v, ViewFine(v), NEW a \in Asgs, NEW made \in Drafts(a), NEW r \in Own(a)
  PROVE  Fit(v, a, made, r) \in Nat
<1> DEFINE rate  == Info[a].rate
           old   == OnDay(Live(v.rows), r.day) \ Wiped(v, a, v.rows)
           free(q) == \E s \in old : Twins(q, s) /\ s.day = q.day /\ s.from = q.from /\ s.to = q.to
           mine  == {q \in OnDay(made, r.day) : ~free(q)}
           spent == Baht(old) + MapThenSumSet(Paid, mine)
           cost  == IF free(r) THEN 0 ELSE Paid(r)
           room  == (DayBaht - spent) \div rate
<1>1. Fit(v, a, made, r) = IF rate = 0 \/ spent + cost <= DayBaht THEN r.to
                           ELSE r.from + (IF room < 0 THEN 0 ELSE IF room > Span(r) THEN Span(r) ELSE room)
  BY DEF Fit
<1>2. old \in SUBSET v.rows
  BY DEF OnDay, Live
<1>3. Baht(old) \in Nat
  BY <1>2, SheetPart, BahtIs DEF ViewFine
<1>4. Sheet(made)
  BY DEF Drafts, Own, Sheet
<1>5. mine \in SUBSET made
  BY DEF OnDay
<1> HIDE DEF old, mine
<1>6. spent \in Nat
  BY <1>3, <1>4, <1>5, SheetPart, PriceIs
<1>7. rate \in Nat /\ DayBaht \in Nat
  BY TimesheetsAssumption
<1>8. r.from \in Nat /\ r.to \in Nat /\ Span(r) \in Nat
  BY LineNumbers DEF Own
<1>9. rate # 0 => room \in Int
  <2>1. PICK x : x = DayBaht - spent
    OBVIOUS
  <2>2. x \in Int
    BY <1>6, <1>7, <2>1
  <2> HIDE DEF spent, rate
  <2> QED
    BY <1>7, <2>1, <2>2
<1> HIDE DEF rate, spent, cost, room
<1> QED
  BY <1>1, <1>8, <1>9

LEMMA KeyFine ==
  ASSUME NEW r, Line(r), NEW n \in Nat
  PROVE  Key(r, n) \in Keys /\ Key(r, n)[1] = r.asg
  BY DEF Line, RowSet, Lines, Key, Keys

(* A new row's id is one no row has.                                         *)
LEMMA NewIdFine ==
  ASSUME NEW r, Line(r), NEW S, IsFiniteSet(S)
  PROVE  /\ NewId(r, S) \in Keys /\ NewId(r, S)[1] = r.asg /\ NewId(r, S) \notin Ids(S)
<1> DEFINE N == Cardinality(S) + 1
           who(n) == CHOOSE s \in S : s.id = Key(r, n)
           f == [n \in 1..N |-> who(n)]
<1>1. Cardinality(S) \in Nat
  BY FS_CardinalityType
<1>2. IsFiniteSet(1..N) /\ Cardinality(1..N) = N
  BY <1>1, FS_Interval
<1>3. \E n \in 1..N : Key(r, n) \notin Ids(S)
  <2> SUFFICES ASSUME \A n \in 1..N : Key(r, n) \in Ids(S) PROVE FALSE
    OBVIOUS
  <2>1. \A n \in 1..N : who(n) \in S /\ who(n).id = Key(r, n)
    <3> TAKE n \in 1..N
    <3>1. \E s \in S : s.id = Key(r, n)
      BY DEF Ids
    <3> QED
      BY <3>1
  <2> HIDE DEF who
  <2>2. f \in [1..N -> S]
    BY <2>1
  <2>3. Cardinality(S) < Cardinality(1..N)
    BY <1>1, <1>2
  <2>4. PICK x \in 1..N, y \in 1..N : x # y /\ f[x] = f[y]
    <3> HIDE DEF N, f
    <3> QED
      BY <1>2, <2>2, <2>3, FS_PigeonHole
  <2>5. Key(r, x) = Key(r, y)
    BY <2>1, <2>4
  <2> QED
    BY <2>4, <2>5 DEF Key
<1>4. PICK k \in 1..N : NewId(r, S) = Key(r, k) /\ Key(r, k) \notin Ids(S)
  BY <1>3 DEF NewId
<1> QED
  BY <1>1, <1>4, KeyFine

LEMMA KeepLine ==
  ASSUME NEW r, Line(r), NEW S, IsFiniteSet(S)
  PROVE  /\ Line(Keep(r, S)) /\ Keep(r, S).id \in Keys /\ Keep(r, S).id[1] = r.asg
         /\ Keep(r, S).id \notin Ids(S)
         /\ Keep(r, S).asg = r.asg /\ Keep(r, S).day = r.day /\ Keep(r, S).act = r.act
         /\ Keep(r, S).from = r.from /\ Keep(r, S).to = r.to
         /\ Keep(r, S).status = r.status /\ Keep(r, S).auto = r.auto
<1>1. PICK k : k = NewId(r, S)
  OBVIOUS
<1>2. k \in Keys /\ k[1] = r.asg /\ k \notin Ids(S)
  BY <1>1, NewIdFine
<1>3. PICK x : x = [r EXCEPT !.id = k]
  OBVIOUS
<1>4. r \in RowSet /\ r.from < r.to /\ r.act \in Info[r.asg].kinds
  BY DEF Line
<1>5. /\ x \in RowSet /\ x.id = k /\ x.asg = r.asg /\ x.day = r.day /\ x.act = r.act
      /\ x.from = r.from /\ x.to = r.to /\ x.status = r.status /\ x.auto = r.auto
  BY <1>2, <1>3, <1>4 DEF RowSet, Lines
<1>6. Keep(r, S) = x
  BY <1>1, <1>3 DEF Keep
<1> QED
  BY <1>2, <1>4, <1>5, <1>6 DEF Line

LEMMA AdmitStays ==
  ASSUME NEW v, ViewFine(v), NEW a \in Asgs, NEW base, IsFiniteSet(base), NEW made \in Drafts(a),
         NEW r \in Own(a)
  PROVE  Admit(v, a, base, made, r) \in Drafts(a)
<1>1. PICK t : t = [r EXCEPT !.to = Fit(v, a, made, r)]
  OBVIOUS
<1>2. PICK k : k = Keep(t, base \cup made)
  OBVIOUS
<1>3. \/ Admit(v, a, base, made, r) = made
      \/ Admit(v, a, base, made, r) = made \cup {k} /\ t.from < t.to
  BY <1>1, <1>2 DEF Admit
<1>4. Fit(v, a, made, r) \in Nat
  BY FitFine
<1>5. r \in RowSet /\ Line(r) /\ r.asg = a /\ r.status = "draft" /\ r.auto = TRUE
  BY DEF Own
<1>6. t \in RowSet /\ t.asg = a /\ t.status = "draft" /\ t.auto = TRUE /\ t.act = r.act
  BY <1>1, <1>4, <1>5 DEF RowSet, Lines
<1>7. IsFiniteSet(made) /\ IsFiniteSet(base \cup made)
  BY FS_Union DEF Drafts
<1>8. t.from < t.to => k \in Own(a)
  <2> SUFFICES ASSUME t.from < t.to PROVE k \in Own(a)
    OBVIOUS
  <2>1. Line(t)
    BY <1>5, <1>6 DEF Line
  <2>2. Line(k) /\ k.asg = a /\ k.status = "draft" /\ k.auto = TRUE
    BY <1>2, <1>6, <1>7, <2>1, KeepLine
  <2> QED
    BY <2>2 DEF Own, Line
<1>9. IsFiniteSet(made \cup {k})
  BY <1>7, FS_AddElement
<1> QED
  BY <1>3, <1>7, <1>8, <1>9 DEF Drafts

-----------------------------------------------------------------------------
(* The types.                                                               *)
Proper(S) == IsFiniteSet(S) /\ Keyed(S) /\ \A r \in S : OnSheet(r)

(* A request as it stands: what it read, and what it wrote, are proper rows. *)
Fine(q) == /\ Asked(q) /\ Keyed(Puts(q)) /\ IsFiniteSet(Puts(q))
           /\ q.op = "generate" => ViewFine(q.view)

FiledOnce == \A m, k \in makeups : SamePeriod(m, k) => m = k

Shapes == /\ Proper(rows) /\ makeups \subseteq Moves /\ FiledOnce
          /\ closed \subseteq Months /\ overtaken \subseteq Calls /\ work \in Workloads
          /\ req = [i \in Calls |-> req[i]] /\ \A i \in Calls : Fine(req[i])

LEMMA SheetJoin ==
  ASSUME NEW S, NEW T, Sheet(S), Sheet(T)
  PROVE  Sheet(S \cup T)
<1>1. IsFiniteSet(S \cup T)
  BY FS_Union DEF Sheet
<1> QED
  BY <1>1 DEF Sheet

LEMMA SheetOne ==
  ASSUME NEW r, Line(r)
  PROVE  Sheet({r})
<1>1. IsFiniteSet({r})
  BY FS_Singleton
<1> QED
  BY <1>1 DEF Sheet

LEMMA OnSheetIs ==
  ASSUME NEW r
  PROVE  OnSheet(r) <=> Line(r) /\ r.id \in Keys /\ r.id[1] = r.asg
  BY DEF OnSheet, Line, RowSet, Lines

LEMMA ProperSheet ==
  ASSUME NEW S, Proper(S)
  PROVE  Sheet(S)
  BY OnSheetIs DEF Proper, Sheet

LEMMA ProperPart ==
  ASSUME NEW S, Proper(S), NEW T \in SUBSET S
  PROVE  Proper(T)
<1>1. IsFiniteSet(T)
  BY FS_Subset DEF Proper
<1> QED
  BY <1>1 DEF Proper, Keyed

(* Some rows are written anew, each under its id.                            *)
Rewrites(f, T, M) == /\ \A r \in T : Line(f[r]) /\ f[r].id = r.id /\ f[r].asg = r.asg
                     /\ \A x \in M : \E r \in T : x = f[r]

LEMMA Rewritten ==
  ASSUME NEW S, Proper(S), NEW T \in SUBSET S, NEW f, NEW M, Rewrites(f, T, M)
  PROVE  Proper((S \ T) \cup M) /\ Proper(M)
<1>1. Proper(S \ T) /\ Proper(T)
  BY ProperPart
<1>2. IsFiniteSet(M) /\ IsFiniteSet((S \ T) \cup M)
  <2>1. IsFiniteSet({f[r] : r \in T})
    BY <1>1, ImageFinite DEF Proper
  <2>2. M \subseteq {f[r] : r \in T}
    BY DEF Rewrites
  <2>3. IsFiniteSet(M)
    BY <2>1, <2>2, FS_Subset
  <2> QED
    BY <1>1, <2>3, FS_Union DEF Proper
<1>3. \A x \in M : OnSheet(x) /\ \E r \in T : x = f[r] /\ x.id = r.id
  BY <1>1, OnSheetIs DEF Proper, Rewrites
<1>4. \A r, s \in S : r.id = s.id => r = s
  BY DEF Proper, Keyed
<1>5. ASSUME NEW x \in (S \ T) \cup M, NEW y \in (S \ T) \cup M, x.id = y.id PROVE x = y
  <2>1. CASE x \in M /\ y \in M
    BY <1>3, <1>4, <1>5, <2>1
  <2>2. CASE x \in M /\ y \in S \ T
    BY <1>3, <1>4, <1>5, <2>2
  <2>3. CASE x \in S \ T /\ y \in M
    BY <1>3, <1>4, <1>5, <2>3
  <2>4. CASE x \in S \ T /\ y \in S \ T
    BY <1>4, <1>5, <2>4
  <2> QED
    BY <2>1, <2>2, <2>3, <2>4
<1>6. Keyed((S \ T) \cup M) /\ Keyed(M)
  BY <1>5 DEF Keyed
<1> QED
  BY <1>1, <1>2, <1>3, <1>6 DEF Proper

LEMMA RowLine ==
  ASSUME NEW S, Proper(S), NEW r \in S
  PROVE  Line(r) /\ r \in RowSet /\ r.id \in Keys /\ r.id[1] = r.asg
  BY OnSheetIs DEF Proper, Line

LEMMA MarkedLine ==
  ASSUME NEW r, Line(r), NEW st \in Statuses
  PROVE  /\ Line([r EXCEPT !.status = st]) /\ [r EXCEPT !.status = st].status = st
         /\ [r EXCEPT !.status = st].id = r.id
         /\ [r EXCEPT !.status = st].asg = r.asg /\ [r EXCEPT !.status = st].day = r.day
         /\ [r EXCEPT !.status = st].act = r.act /\ [r EXCEPT !.status = st].auto = r.auto
         /\ [r EXCEPT !.status = st].from = r.from /\ [r EXCEPT !.status = st].to = r.to
<1>1. PICK x : x = [r EXCEPT !.status = st]
  OBVIOUS
<1>2. r \in RowSet
  BY DEF Line
<1>3. x \in RowSet /\ x.status = st /\ x.asg = r.asg /\ x.day = r.day /\ x.act = r.act
      /\ x.auto = r.auto /\ x.from = r.from /\ x.to = r.to /\ x.id = r.id
  BY <1>1, <1>2 DEF RowSet, Lines
<1> QED
  BY <1>1, <1>3 DEF Line

LEMMA AtLine ==
  ASSUME NEW r, Line(r), NEW f \in Nat, NEW t \in Nat, f < t
  PROVE  /\ Line(At(r, f, t)) /\ At(r, f, t).status = r.status /\ At(r, f, t).id = r.id
         /\ At(r, f, t).asg = r.asg /\ At(r, f, t).day = r.day
<1>1. PICK y : y = [r EXCEPT !.from = f]
  OBVIOUS
<1>2. PICK x : x = [y EXCEPT !.to = t]
  OBVIOUS
<1>3. r \in RowSet
  BY DEF Line
<1>4. y \in RowSet /\ y.from = f /\ y.asg = r.asg /\ y.act = r.act /\ y.day = r.day
      /\ y.status = r.status /\ y.id = r.id
  BY <1>1, <1>3 DEF RowSet, Lines
<1>5. x \in RowSet /\ x.from = f /\ x.to = t /\ x.asg = r.asg /\ x.act = r.act /\ x.day = r.day
      /\ x.status = r.status /\ x.id = r.id
  BY <1>2, <1>4 DEF RowSet, Lines
<1>6. At(r, f, t) = x
  BY <1>1, <1>2 DEF At
<1> QED
  BY <1>5, <1>6 DEF Line

(* A line that may be typed.                                                 *)
Fits(e) == /\ e.from \in Nat /\ e.to \in Nat /\ e.from < e.to /\ e.asg \in Asgs /\ e.day \in Days
           /\ e.act \in Info[e.asg].kinds /\ e.act \in Kinds

LEMMA TypedLine ==
  ASSUME NEW e, Fits(e)
  PROVE  Line(Typed(e)) /\ Typed(e).status = "draft" /\ Typed(e).asg = e.asg
  BY DEF Fits, Typed, Line, RowSet, Lines, Statuses

LEMMA RetypedLine ==
  ASSUME NEW r, Line(r), NEW e, Fits(e), e.asg = r.asg
  PROVE  /\ Line(Retyped(r, e)) /\ Retyped(r, e).id = r.id /\ Retyped(r, e).asg = r.asg
         /\ Retyped(r, e).status = r.status /\ Retyped(r, e).day = e.day
         /\ Retyped(r, e).from = e.from /\ Retyped(r, e).to = e.to
<1>1. PICK x : x = [r EXCEPT !.day = e.day, !.from = e.from, !.to = e.to, !.act = e.act]
  OBVIOUS
<1>2. r \in RowSet
  BY DEF Line
<1>3. /\ x \in RowSet /\ x.id = r.id /\ x.asg = r.asg /\ x.status = r.status /\ x.act = e.act
      /\ x.day = e.day /\ x.from = e.from /\ x.to = e.to
  BY <1>1, <1>2 DEF RowSet, Lines, Fits
<1> QED
  BY <1>1, <1>3 DEF Retyped, Line, Fits

LEMMA WorkFine ==
  ASSUME Shapes
  PROVE  /\ work.asgs \subseteq Asgs
         /\ \A e \in work.lines : e.act \in Info[e.asg].kinds => Fits(e)
<1>1. work \in Workloads
  BY DEF Shapes
<1>2. work.asgs \subseteq Asgs /\ Lasting(work.lines) /\ \A e \in work.lines : e.asg \in Asgs /\ e.day \in Days
  BY <1>1, TimesheetsAssumption
<1>3. \A a \in Asgs : Info[a].kinds \subseteq Kinds
  BY TimesheetsAssumption
<1> QED
  BY <1>2, <1>3 DEF Lasting, Fits

(* The line of a request to type or correct a row, and the row it finds.     *)
LEMMA AskedLine ==
  ASSUME Shapes, NEW i \in Calls, req[i].op \in {"new", "edit", "staff"}
  PROVE  Fits(req[i].line)
  BY WorkFine DEF Shapes, Fine, Asked

LEMMA AimedLine ==
  ASSUME Shapes, NEW i \in Calls, NEW r \in rows, req[i].op \in {"edit", "staff"}, r.id \in req[i].ids
  PROVE  req[i].line.asg = r.asg
<1>1. r.id[1] = req[i].line.asg
  BY DEF Shapes, Fine, Asked
<1> QED
  BY <1>1, RowLine DEF Shapes

-----------------------------------------------------------------------------
LEMMA ShapesInit == TimesheetInit => Shapes
<1> SUFFICES ASSUME TimesheetInit PROVE Shapes
  OBVIOUS
<1>1. work \in Workloads /\ rows = work.rows /\ makeups = {} /\ closed = {} /\ overtaken = {}
      /\ req = [i \in Calls |-> Idle]
  BY DEF TimesheetInit
<1>2. Proper(rows)
  BY <1>1, TimesheetsAssumption DEF Proper
<1>3. Fine(Idle)
  BY FS_EmptySet DEF Idle, Fine, Asked, Puts, Keyed
<1> QED
  BY <1>1, <1>2, <1>3 DEF Shapes, FiledOnce

LEMMA IdleFine == Fine(Idle)'
  BY FS_EmptySet DEF Idle, Fine, Asked, Puts, Keyed

(* A look, a commit, a statement that waits for its commit.                  *)
LEMMA LookKeeps ==
  ASSUME Shapes, NEW i \in Calls, NEW q, Fine(q), Look(i, q)
  PROVE  Shapes'
<1>1. /\ rows' = rows /\ makeups' = makeups /\ closed' = closed /\ overtaken' = overtaken
      /\ work' = work /\ req' = [req EXCEPT ![i] = q]
  BY DEF Look
<1>2. req' = [j \in Calls |-> IF j = i THEN q ELSE req[j]]
  BY <1>1 DEF Shapes
<1>3. \A j \in Calls : req'[j] = q \/ req'[j] = req[j]
  BY <1>2
<1>4. \A j \in Calls : Fine(req[j])
  BY DEF Shapes
<1>5. \A j \in Calls : Fine(req[j])'
  BY <1>1, <1>3, <1>4 DEF Fine, Asked
<1> QED
  BY <1>1, <1>2, <1>5 DEF Shapes, FiledOnce

LEMMA CommitKeeps ==
  ASSUME Shapes, NEW i \in Calls, NEW lost, Commits(i, lost), Proper(rows'),
         makeups' \subseteq Moves, FiledOnce', closed' = closed
  PROVE  Shapes'
<1>1. work' = work /\ req' = [j \in Calls |-> IF j = i \/ j \in lost THEN Idle ELSE req[j]]
      /\ overtaken' \subseteq Calls
  BY DEF Commits
<1>2. \A j \in Calls : req'[j] = Idle \/ req'[j] = req[j]
  BY <1>1
<1>3. \A j \in Calls : Fine(req[j])
  BY DEF Shapes
<1>4. \A j \in Calls : Fine(req[j])'
  <2> TAKE j \in Calls
  <2>1. CASE req'[j] = Idle
    BY <2>1, IdleFine
  <2>2. CASE req'[j] = req[j]
    BY <1>1, <1>3, <2>2 DEF Fine, Asked
  <2> QED
    BY <1>2, <2>1, <2>2
<1>5. closed' \subseteq Months /\ work' \in Workloads /\ req' = [j \in Calls |-> req'[j]]
  BY <1>1 DEF Shapes
<1> QED
  BY <1>1, <1>4, <1>5 DEF Shapes

LEMMA WriteKeeps ==
  ASSUME Shapes, NEW i \in Calls, NEW puts, NEW locks, Proper(puts), \A p \in puts : p.status = "approved",
         Writes(i, puts, locks)
  PROVE  Shapes'
<1>1. PICK q : q = [op |-> "written", puts |-> puts, locks |-> locks]
  OBVIOUS
<1>2. Look(i, q)
  BY <1>1 DEF Writes, Look
<1>3. Puts(q) = puts /\ q.op = "written"
  BY <1>1 DEF Puts
<1>4. Fine(q)
  BY <1>3 DEF Fine, Asked, Proper
<1> QED
  BY <1>2, <1>4, LookKeeps

LEMMA BecomesProper ==
  ASSUME Proper(rows), NEW S \in SUBSET rows, NEW st \in Statuses
  PROVE  Proper(Becomes(S, st)) /\ Proper({[r EXCEPT !.status = st] : r \in S})
<1> DEFINE n(r) == [r EXCEPT !.status = st]
           m == [r \in RowSet |-> n(r)]
           M == {n(r) : r \in S}
<1>1. \A r \in S : m[r] = n(r) /\ Line(m[r]) /\ m[r].id = r.id /\ m[r].asg = r.asg
  BY RowLine, MarkedLine
<1>2. Becomes(S, st) = (rows \ S) \cup M
  BY Zenon DEF Becomes
<1> HIDE DEF m, n
<1>3. Rewrites(m, S, M)
  BY <1>1 DEF Rewrites
<1> HIDE DEF M
<1>4. Proper((rows \ S) \cup M) /\ Proper(M)
  BY <1>3, Rewritten
<1> QED
  BY <1>2, <1>4, Zenon DEF M, n

LEMMA LooksKeep ==
  ASSUME Shapes, NEW i \in Calls, Looks(i)
  PROVE  Shapes'
<1>1. ASSUME NEW a \in work.asgs, GenerateRead(i, a) PROVE Shapes'
  <2>1. PICK q : q = [op |-> "generate", asg |-> a, view |-> View]
    OBVIOUS
  <2>2. q.op = "generate" /\ q.asg = a /\ q.view.rows = rows /\ q.view.makeups = makeups
    BY <2>1 DEF View
  <2>3. a \in Asgs /\ Sheet(rows) /\ makeups \subseteq Moves
    BY WorkFine, ProperSheet DEF Shapes
  <2>4. Puts(q) = {}
    BY <2>2 DEF Puts
  <2>5. Fine(q)
    BY <2>2, <2>3, <2>4, FS_EmptySet DEF Fine, Asked, Keyed, ViewFine
  <2> QED
    BY <1>1, <2>1, <2>5, LookKeeps DEF GenerateRead
<1>2. ASSUME NEW e \in work.lines, NEW who, UpsertNew(i, e, who) PROVE Shapes'
  <2>1. PICK q : q = [op |-> "new", line |-> e]
    OBVIOUS
  <2>2. Look(i, q) /\ DateAllows(Typed(e))
    BY <1>2, <2>1 DEF UpsertNew, Writable
  <2>3. e.act \in Info[e.asg].kinds
    BY <2>2 DEF DateAllows, Typed
  <2>4. Fine(q)
    BY <2>1, <2>3, FS_EmptySet DEF Fine, Asked, Puts, Keyed
  <2> QED
    BY <2>2, <2>4, LookKeeps
<1>3. ASSUME NEW r \in rows, NEW e \in work.lines, UpsertEdit(i, r, e) \/ StaffUpsert(i, r, e)
      PROVE  Shapes'
  <2>1. PICK q : /\ Look(i, q) /\ q.op \in {"edit", "staff"} /\ q.ids = {r.id} /\ q.line = e
    BY <1>3 DEF UpsertEdit, StaffUpsert
  <2>2. DateAllows(Retyped(r, e)) /\ e.asg = r.asg
    BY <1>3 DEF UpsertEdit, StaffUpsert, Writable
  <2>3. r \in RowSet /\ r.id[1] = r.asg
    BY RowLine DEF Shapes
  <2>4. Retyped(r, e).act = e.act /\ Retyped(r, e).asg = r.asg
    BY <2>3 DEF Retyped, RowSet, Lines
  <2>5. e.act \in Info[e.asg].kinds
    BY <2>2, <2>4 DEF DateAllows
  <2>6. Puts(q) = {}
    BY <2>1 DEF Puts
  <2>7. \A x \in q.ids : x[1] = q.line.asg
    BY <2>1, <2>2, <2>3
  <2>8. Fine(q)
    BY <2>1, <2>5, <2>6, <2>7, FS_EmptySet DEF Fine, Asked, Keyed
  <2> QED
    BY <2>1, <2>8, LookKeeps
<1>4. ASSUME NEW r \in rows, NEW e \in work.lines, LecturerAdjust(i, r, e) PROVE Shapes'
  <2>1. PICK q : Look(i, q) /\ q.op = "adjust" /\ q.line = e
    BY <1>4 DEF LecturerAdjust
  <2>2. Puts(q) = {}
    BY <2>1 DEF Puts
  <2>3. Fine(q)
    BY <2>1, <2>2, FS_EmptySet DEF Fine, Asked, Keyed
  <2> QED
    BY <2>1, <2>3, LookKeeps
<1>5. ASSUME NEW r \in rows, DeleteLook(i, r) \/ LecturerCut(i, r) PROVE Shapes'
  <2>1. PICK q : Look(i, q) /\ q.op \in {"delete", "cut"}
    BY <1>5 DEF DeleteLook, LecturerCut
  <2>2. Puts(q) = {}
    BY <2>1 DEF Puts
  <2>3. Fine(q)
    BY <2>1, <2>2, FS_EmptySet DEF Fine, Asked, Keyed
  <2> QED
    BY <2>1, <2>3, LookKeeps
<1>6. ASSUME NEW a \in work.asgs, NEW ms, Submit(i, a, ms) \/ Approve(i, a, ms) PROVE Shapes'
  <2>1. PICK q : Look(i, q) /\ q.op \in {"submit", "approve"} /\ q.asg = a
    BY <1>6 DEF Submit, Approve
  <2>2. Puts(q) = {}
    BY <2>1 DEF Puts
  <2>3. a \in Asgs
    BY WorkFine
  <2>4. Fine(q)
    BY <2>1, <2>2, <2>3, FS_EmptySet DEF Fine, Asked, Keyed
  <2> QED
    BY <2>1, <2>4, LookKeeps
<1>7. ASSUME NEW m \in Moves, AddMakeup(i, m) \/ WaiveMakeup(i, m) \/ DeleteMakeup(i, m) PROVE Shapes'
  <2>1. PICK q : Look(i, q) /\ q.op \in {"file", "waive", "unfile"} /\ q.filing = m
    BY <1>7 DEF AddMakeup, WaiveMakeup, DeleteMakeup
  <2>2. Puts(q) = {}
    BY <2>1 DEF Puts
  <2>3. Fine(q)
    BY <2>1, <2>2, FS_EmptySet DEF Fine, Asked, Keyed
  <2> QED
    BY <2>1, <2>3, LookKeeps
<1>8. ASSUME NEW h, HolidayCreate(i, h) PROVE Shapes'
  <2>1. PICK q : Look(i, q) /\ q.op = "holiday"
    BY <1>8 DEF HolidayCreate
  <2>2. Puts(q) = {}
    BY <2>1 DEF Puts
  <2>3. Fine(q)
    BY <2>1, <2>2, FS_EmptySet DEF Fine, Asked, Keyed
  <2> QED
    BY <2>1, <2>3, LookKeeps
<1>9. ASSUME NEW a, NEW ms, Reject(i, a, ms) PROVE Shapes'
  <2>1. PICK S \in SUBSET rows : rows' = Becomes(S, "rejected")
    BY <1>9 DEF Reject, Chosen, OfAsg
  <2>2. Proper(rows')
    BY <2>1, BecomesProper DEF Shapes, Statuses
  <2>3. makeups' = makeups /\ closed' = closed /\ Commits(i, {})
    BY <1>9 DEF Reject
  <2>4. makeups' \subseteq Moves /\ FiledOnce'
    BY <2>3 DEF Shapes, FiledOnce
  <2> QED
    BY <2>2, <2>3, <2>4, CommitKeeps
<1>10. \A m \in Touched(Moves) : m \in Moves
  BY DEF Touched
<1>11. \A m \in makeups : m \in Moves
  BY DEF Shapes
<1> QED
  BY <1>1, <1>2, <1>3, <1>4, <1>5, <1>6, <1>7, <1>8, <1>9, <1>10, <1>11 DEF Looks

-----------------------------------------------------------------------------
(* What Generate adds has ids of its own.                                    *)
Beside(a, base) == {S \in Drafts(a) : Proper(base \cup S)}

LEMMA AdmitBeside ==
  ASSUME NEW v, ViewFine(v), NEW a \in Asgs, NEW base, IsFiniteSet(base), NEW made \in Beside(a, base),
         NEW r \in Own(a)
  PROVE  Admit(v, a, base, made, r) \in Beside(a, base)
<1>1. PICK t : t = [r EXCEPT !.to = Fit(v, a, made, r)]
  OBVIOUS
<1>2. PICK B : B = base \cup made
  OBVIOUS
<1>3. PICK k : k = Keep(t, B)
  OBVIOUS
<1>4. \/ Admit(v, a, base, made, r) = made
      \/ Admit(v, a, base, made, r) = made \cup {k} /\ t.from < t.to
  BY <1>1, <1>2, <1>3 DEF Admit
<1>5. made \in Drafts(a) /\ Proper(B)
  BY <1>2 DEF Beside
<1>6. Admit(v, a, base, made, r) \in Drafts(a)
  BY <1>5, AdmitStays
<1>7. ASSUME t.from < t.to PROVE Proper(B \cup {k})
  <2>1. Fit(v, a, made, r) \in Nat
    BY <1>5, FitFine
  <2>2. r \in RowSet /\ Line(r) /\ r.asg = a
    BY DEF Own
  <2>3. t \in RowSet /\ t.asg = a /\ t.act = r.act
    BY <1>1, <2>1, <2>2 DEF RowSet, Lines
  <2>4. Line(t)
    BY <1>7, <2>2, <2>3 DEF Line
  <2>5. Line(k) /\ k.id \in Keys /\ k.id[1] = k.asg /\ k.id \notin Ids(B)
    BY <1>3, <1>5, <2>4, KeepLine DEF Proper
  <2>6. OnSheet(k) /\ \A q \in B : q.id # k.id
    BY <2>5, OnSheetIs DEF Ids
  <2>7. IsFiniteSet(B \cup {k})
    BY <1>5, FS_AddElement DEF Proper
  <2> QED
    BY <1>5, <2>6, <2>7 DEF Proper, Keyed
<1>8. CASE Admit(v, a, base, made, r) = made
  BY <1>8
<1>9. CASE Admit(v, a, base, made, r) = made \cup {k} /\ t.from < t.to
  <2>1. base \cup (made \cup {k}) = B \cup {k}
    BY <1>2
  <2> QED
    BY <1>6, <1>7, <1>9, <2>1 DEF Beside
<1> QED
  BY <1>4, <1>8, <1>9

LEMMA MadeBeside ==
  ASSUME NEW v, ViewFine(v), NEW a \in Asgs, NEW base, Proper(base)
  PROVE  Made(v, a, base) \in Beside(a, base)
<1>1. Len(Calendar) \in Nat /\ Len(Timetable) \in Nat /\ Len(Duties) \in Nat
  BY TimesheetsAssumption
<1> DEFINE n == Len(Calendar) * Len(Timetable)
           o == Len(Calendar) * Len(Duties)
           half == Filled(v, a, base, {}, Lessons(v, a))
           A == Beside(a, base)
<1>2. n \in Nat /\ o \in Nat
  BY <1>1
<1>3. DOMAIN Lessons(v, a) = 1..n /\ DOMAIN Gradings(v, a) = 1..o
      /\ Turns(Timetable) = 1..n /\ Turns(Duties) = 1..o
  BY DEF Lessons, Gradings, Turns
<1>4. IsFiniteSet(base)
  BY DEF Proper
<1>5. \A k \in 1..n, y \in A : Turn(v, a, base, y, Lessons(v, a)[k]) \in A
  BY <1>3, <1>4, LessonFine, AdmitBeside DEF Turn
<1>6. \A k \in 1..o, y \in A : Turn(v, a, base, y, Gradings(v, a)[k]) \in A
  BY <1>3, <1>4, GradingFine, AdmitBeside DEF Turn
<1>7. {} \in A
  <2>1. base \cup {} = base
    OBVIOUS
  <2> QED
    BY <2>1, FS_EmptySet DEF Drafts, Beside
<1> HIDE DEF n, o, A
<1>8. half \in A
  BY <1>2, <1>3, <1>5, <1>7, FilledStays
<1>9. Made(v, a, base) = Filled(v, a, base, half, Gradings(v, a))
  BY DEF Made
<1> HIDE DEF half
<1>10. Made(v, a, base) \in A
  BY <1>2, <1>3, <1>6, <1>8, <1>9, FilledStays
<1> QED
  BY <1>10 DEF A

LEMMA OutcomeProper ==
  ASSUME NEW v, ViewFine(v), NEW a \in Asgs, NEW S, Proper(S)
  PROVE  Proper(Outcome(v, a, S))
<1>1. PICK base : base = S \ Wiped(v, a, S)
  OBVIOUS
<1>2. Proper(base)
  BY <1>1, ProperPart
<1>3. Proper(base \cup Made(v, a, base))
  BY <1>2, MadeBeside DEF Beside
<1> QED
  BY <1>1, <1>3, Zenon DEF Outcome

LEMMA InsertProper ==
  ASSUME NEW S, Proper(S), NEW r, Line(r)
  PROVE  Proper(S \cup {Keep(r, S)})
<1>1. PICK k : k = Keep(r, S)
  OBVIOUS
<1>2. Line(k) /\ k.id \in Keys /\ k.id[1] = k.asg /\ k.id \notin Ids(S)
  BY <1>1, KeepLine DEF Proper
<1>3. OnSheet(k) /\ \A q \in S : q.id # k.id
  BY <1>2, OnSheetIs DEF Ids
<1>4. IsFiniteSet(S \cup {k})
  BY FS_AddElement DEF Proper
<1>5. Proper(S \cup {k})
  BY <1>3, <1>4 DEF Proper, Keyed
<1> QED
  BY <1>1, <1>5

LEMMA RewriteOne ==
  ASSUME NEW S, Proper(S), NEW q \in S, NEW r, Line(r), r.id = q.id, r.asg = q.asg
  PROVE  Proper((S \ {q}) \cup {r}) /\ Proper({r})
<1> DEFINE f == [x \in {q} |-> r]
<1>1. Rewrites(f, {q}, {r})
  BY DEF Rewrites
<1> HIDE DEF f
<1> QED
  BY <1>1, Rewritten

LEMMA AdjustProper ==
  ASSUME NEW R, Proper(R), NEW S \in SUBSET R, NEW f \in Nat, NEW t \in Nat, f < t
  PROVE  Proper((R \ S) \cup {At(c, f, t) : c \in S})
<1> DEFINE m == [r \in RowSet |-> At(r, f, t)]
           M == {At(c, f, t) : c \in S}
<1>1. \A r \in S : m[r] = At(r, f, t) /\ Line(m[r]) /\ m[r].id = r.id /\ m[r].asg = r.asg
  BY RowLine, AtLine
<1> HIDE DEF m
<1>2. Rewrites(m, S, M)
  BY <1>1 DEF Rewrites
<1> HIDE DEF M
<1>3. Proper((R \ S) \cup M)
  BY <1>2, Rewritten
<1> QED
  BY <1>3 DEF M

(* The rows a commit puts take the place of those of their ids.              *)
LEMMA PutProper ==
  ASSUME NEW R, Proper(R), NEW P, Proper(P)
  PROVE  Proper((R \ Those(R, Ids(P))) \cup P)
<1>1. IsFiniteSet((R \ Those(R, Ids(P))) \cup P)
  <2>1. IsFiniteSet(R \ Those(R, Ids(P)))
    BY FS_Subset DEF Proper
  <2> QED
    BY <2>1, FS_Union DEF Proper
<1>2. \A r \in R \ Those(R, Ids(P)), p \in P : r.id # p.id
  BY DEF Those, Ids
<1> QED
  BY <1>1, <1>2 DEF Proper, Keyed

-----------------------------------------------------------------------------
LEMMA EndsKeep ==
  ASSUME Shapes, NEW i \in Calls, Ends(i)
  PROVE  Shapes'
<1>1. Proper(rows) /\ Fine(req[i])
  BY DEF Shapes
<1>2. ASSUME NEW lost, Commits(i, lost), Proper(rows'), makeups' = makeups, closed' = closed
      PROVE  Shapes'
  <2>1. makeups' \subseteq Moves /\ FiledOnce'
    BY <1>2 DEF Shapes, FiledOnce
  <2> QED
    BY <1>2, <2>1, CommitKeeps
<1>3. CASE Generate(i)
  <2>1. PICK v, a : v = req[i].view /\ a = req[i].asg
    OBVIOUS
  <2>2. /\ rows' = Outcome(v, a, rows) /\ Commits(i, Losing(Wiped(v, a, rows))) /\ req[i].op = "generate"
        /\ makeups' = makeups /\ closed' = closed
    BY <1>3, <2>1, Zenon DEF Generate
  <2>3. ViewFine(v) /\ a \in Asgs
    BY <1>1, <2>1, <2>2 DEF Fine, Asked
  <2>4. Proper(rows')
    BY <1>1, <2>2, <2>3, OutcomeProper
  <2> QED
    BY <1>2, <2>2, <2>4
<1>4. CASE Insert(i)
  <2>1. rows' = rows \cup {Keep(Typed(req[i].line), rows)} /\ Commits(i, {}) /\ req[i].op = "new"
        /\ makeups' = makeups /\ closed' = closed
    BY <1>4 DEF Insert
  <2>2. Line(Typed(req[i].line))
    BY <2>1, AskedLine, TypedLine
  <2>3. Proper(rows')
    BY <1>1, <2>1, <2>2, InsertProper
  <2> QED
    BY <1>2, <2>1, <2>3
<1>5. ASSUME NEW q \in rows, NEW st \in Statuses, req[i].op \in {"edit", "staff"}, q.id \in req[i].ids,
             NEW r, r = [Retyped(q, req[i].line) EXCEPT !.status = st] \/ r = Retyped(q, req[i].line)
      PROVE  Proper((rows \ {q}) \cup {r}) /\ Proper({r}) /\ r.status \in {st, q.status}
  <2>1. PICK x : x = Retyped(q, req[i].line)
    OBVIOUS
  <2>2. Line(q)
    BY <1>1, RowLine
  <2>3. Line(x) /\ x.id = q.id /\ x.asg = q.asg /\ x.status = q.status
    BY <1>5, <2>1, <2>2, AskedLine, AimedLine, RetypedLine
  <2>4. Line(r) /\ r.id = q.id /\ r.asg = q.asg /\ r.status \in {st, q.status}
    <3>1. CASE r = x
      BY <2>3, <3>1
    <3>2. CASE r = [x EXCEPT !.status = st]
      <4>1. Line([x EXCEPT !.status = st]) /\ [x EXCEPT !.status = st].status = st
            /\ [x EXCEPT !.status = st].id = x.id /\ [x EXCEPT !.status = st].asg = x.asg
        BY <2>3, MarkedLine
      <4> QED
        BY <2>3, <3>2, <4>1
    <3> QED
      BY <1>5, <2>1, <3>1, <3>2
  <2> QED
    BY <1>1, <2>4, RewriteOne
<1>6. CASE Edit(i)
  <2>1. PICK q \in rows : /\ req[i].op = "edit" /\ q.id \in req[i].ids
                          /\ rows' = (rows \ {q}) \cup {[Retyped(q, req[i].line) EXCEPT !.status = "draft"]}
                          /\ makeups' = makeups /\ closed' = closed /\ Commits(i, {})
    BY <1>6 DEF Edit, Those, Aims
  <2>2. Proper(rows')
    BY <1>5, <2>1 DEF Statuses
  <2> QED
    BY <1>2, <2>1, <2>2
<1>7. CASE StaffEdit(i)
  <2>1. PICK q \in rows : /\ req[i].op = "staff" /\ q.id \in req[i].ids
                          /\ rows' = (rows \ {q}) \cup {Retyped(q, req[i].line)}
                          /\ makeups' = makeups /\ closed' = closed /\ Commits(i, {})
    BY <1>7 DEF StaffEdit, Those, Aims
  <2>2. Proper(rows')
    BY <1>5, <2>1 DEF Statuses
  <2> QED
    BY <1>2, <2>1, <2>2
<1>8. CASE StaffCorrect(i)
  <2>1. PICK q \in rows : /\ req[i].op = "staff" /\ q.id \in req[i].ids /\ q.status = "approved"
                          /\ Writes(i, {Retyped(q, req[i].line)}, {})
    BY <1>8 DEF StaffCorrect, Those, Aims
  <2>2. PICK r : r = Retyped(q, req[i].line)
    OBVIOUS
  <2>3. Proper({r}) /\ r.status = "approved"
    BY <1>5, <2>1, <2>2 DEF Statuses
  <2>4. Writes(i, {r}, {})
    BY <2>1, <2>2
  <2> QED
    BY <2>1, <2>3, <2>4, WriteKeeps
<1>9. CASE Adjust(i)
  <2> DEFINE S == Those(rows, Aims(req[i]))
             f == req[i].line.from
             t == req[i].line.to
  <2>1. /\ req[i].op = "adjust" /\ S \in SUBSET rows
        /\ rows' = (rows \ S) \cup {At(c, f, t) : c \in S}
        /\ makeups' = makeups /\ closed' = closed /\ Commits(i, {})
    <3>1. S \in SUBSET rows
      BY DEF Those
    <3> QED
      BY <1>9, <3>1, Zenon DEF Adjust
  <2>2. f \in Nat /\ t \in Nat /\ f < t
    <3>1. req[i].line \in work.lines /\ work \in Workloads
      BY <1>1, <2>1 DEF Fine, Asked, Shapes
    <3> QED
      BY <3>1, TimesheetsAssumption DEF Lasting
  <2> HIDE DEF S, f, t
  <2>3. Proper(rows')
    BY <1>1, <2>1, <2>2, AdjustProper
  <2> QED
    BY <1>2, <2>1, <2>3
<1>10. CASE Send(i)
  <2>1. PICK S \in SUBSET rows : /\ rows' = Becomes(S, "submitted") /\ Commits(i, {})
                                 /\ makeups' = makeups /\ closed' = closed
    BY <1>10 DEF Send, Chosen, OfAsg
  <2>2. Proper(rows')
    BY <1>1, <2>1, BecomesProper DEF Statuses
  <2> QED
    BY <1>2, <2>1, <2>2
<1>11. CASE ApproveRows(i)
  <2>1. PICK S, locks :
        /\ S \in SUBSET rows
        /\ Writes(i, {[r EXCEPT !.status = "approved"] : r \in S}, locks)
    BY <1>11 DEF ApproveRows, Chosen, OfAsg
  <2>2. PICK P : P = {[r EXCEPT !.status = "approved"] : r \in S}
    OBVIOUS
  <2>3. Proper(P)
    <3>1. S \in SUBSET rows
      BY <2>1
    <3> QED
      BY <1>1, <2>2, <3>1, BecomesProper DEF Statuses
  <2>4. \A p \in P : p.status = "approved"
    <3>1. "approved" \in Statuses
      BY DEF Statuses
    <3>2. \A r \in S : [r EXCEPT !.status = "approved"].status = "approved"
      BY <1>1, <3>1, RowLine, MarkedLine
    <3> QED
      BY <2>2, <3>2
  <2> QED
    BY <2>1, <2>2, <2>3, <2>4, WriteKeeps
<1>12. CASE Commit(i)
  <2>1. PICK P : P = Puts(req[i])
    OBVIOUS
  <2>2. rows' = (rows \ Those(rows, Ids(P))) \cup P /\ Commits(i, {}) /\ makeups' = makeups /\ closed' = closed
    BY <1>12, <2>1 DEF Commit
  <2>3. Proper(P)
    BY <1>1, <2>1 DEF Fine, Asked, Proper
  <2> QED
    BY <1>1, <1>2, <2>2, <2>3, PutProper
<1>13. CASE Delete(i) \/ Cut(i) \/ Declare(i)
  <2>1. PICK lost : /\ rows' \in SUBSET rows /\ Commits(i, lost) /\ makeups' = makeups /\ closed' = closed
    <3>1. CASE Delete(i)
      BY <3>1 DEF Delete
    <3>2. CASE Cut(i)
      BY <3>2 DEF Cut
    <3>3. CASE Declare(i)
      BY <3>3 DEF Declare
    <3> QED
      BY <1>13, <3>1, <3>2, <3>3
  <2> QED
    BY <1>1, <1>2, <2>1, ProperPart
<1>14. CASE File(i) \/ Waive(i) \/ Unfile(i)
  <2>1. PICK lost : rows' \in SUBSET rows /\ Commits(i, lost) /\ closed' = closed
    <3>1. CASE File(i)
      BY <3>1 DEF File
    <3>2. CASE Waive(i)
      BY <3>2 DEF Waive
    <3>3. CASE Unfile(i)
      BY <3>3 DEF Unfile
    <3> QED
      BY <1>14, <3>1, <3>2, <3>3
  <2>2. makeups \subseteq Moves /\ \A m, k \in makeups : SamePeriod(m, k) => m = k
    BY DEF Shapes, FiledOnce
  <2>3. PICK m : m = req[i].filing
    OBVIOUS
  <2>4. req[i].op \in {"file", "waive", "unfile"}
    BY <1>14 DEF File, Waive, Unfile
  <2>5. m \in Moves
    BY <1>1, <2>3, <2>4 DEF Fine, Asked
  <2>6. \/ makeups' \subseteq makeups
        \/ makeups' = (makeups \ Filed(m)) \cup {m}
    <3>1. CASE File(i)
      <4>1. Filed(m) = {} /\ makeups' = makeups \cup {m}
        BY <2>3, <3>1 DEF File
      <4> QED
        BY <4>1
    <3>2. CASE Waive(i)
      BY <2>3, <3>2 DEF Waive
    <3>3. CASE Unfile(i)
      BY <3>3 DEF Unfile
    <3> QED
      BY <1>14, <3>1, <3>2, <3>3
  <2>7. makeups' \subseteq Moves
    BY <2>2, <2>5, <2>6
  <2>8. FiledOnce'
    <3>1. CASE makeups' \subseteq makeups
      BY <2>2, <3>1 DEF FiledOnce
    <3>2. CASE makeups' = (makeups \ Filed(m)) \cup {m}
      BY <2>2, <3>2 DEF FiledOnce, Filed, SamePeriod
    <3> QED
      BY <2>6, <3>1, <3>2
  <2> QED
    BY <1>1, <2>1, <2>7, <2>8, CommitKeeps, ProperPart
<1>15. CASE Drop(i)
  <2>1. /\ rows' = rows /\ makeups' = makeups /\ closed' = closed /\ work' = work
        /\ req' = [req EXCEPT ![i] = Idle] /\ overtaken' = overtaken \ {i}
    BY <1>15 DEF Drop
  <2>2. req' = [j \in Calls |-> IF j = i THEN Idle ELSE req[j]]
    BY <2>1 DEF Shapes
  <2>3. \A j \in Calls : req'[j] = Idle \/ req'[j] = req[j]
    BY <2>2
  <2>4. \A j \in Calls : Fine(req[j])'
    <3> TAKE j \in Calls
    <3>1. CASE req'[j] = Idle
      BY <3>1, IdleFine
    <3>2. CASE req'[j] = req[j]
      BY <2>1, <3>2 DEF Shapes, Fine, Asked
    <3> QED
      BY <2>3, <3>1, <3>2
  <2> QED
    BY <2>1, <2>2, <2>4 DEF Shapes, FiledOnce
<1> QED
  BY <1>3, <1>4, <1>6, <1>7, <1>8, <1>9, <1>10, <1>11, <1>12, <1>13, <1>14, <1>15 DEF Ends

LEMMA ShapesStep == Shapes /\ [TimesheetNext]_tsVars => Shapes'
<1> SUFFICES ASSUME Shapes, [TimesheetNext]_tsVars PROVE Shapes'
  OBVIOUS
<1>1. ASSUME UNCHANGED <<rows, makeups, req, overtaken, work>>, closed' \subseteq Months PROVE Shapes'
  BY <1>1 DEF Shapes, FiledOnce, Fine, Asked
<1>2. ASSUME NEW h, HolidayDelete(h) PROVE Shapes'
  BY <1>1, <1>2 DEF HolidayDelete, Shapes
<1>3. ASSUME NEW mm \in Months, CloseMonth(mm) PROVE Shapes'
  BY <1>1, <1>3 DEF CloseMonth, Shapes
<1>4. CASE UNCHANGED tsVars
  BY <1>1, <1>4 DEF tsVars, Shapes
<1> QED
  BY <1>2, <1>3, <1>4, LooksKeep, EndsKeep DEF TimesheetNext

LEMMA ShapesTyped == Shapes => TimesheetsTypeOK
  BY DEF Shapes, Proper, FiledOnce, Fine, TimesheetsTypeOK

(* Every row lies within its day, belongs to one of the assignments, of a    *)
(* kind it may log, and has an id of its own, whichever requests write at    *)
(* once; a sitting is moved or waived once.                                  *)
THEOREM TimesheetsTypes == TimesheetSpec => []TimesheetsTypeOK
  BY ShapesInit, ShapesStep, ShapesTyped, PTL DEF TimesheetSpec

-----------------------------------------------------------------------------
(* The hours two courses might both be billed.                              *)
LEMMA LooksAre ==
  ASSUME NEW i \in Calls, Looks(i)
  PROVE  \/ \E q : Look(i, q) /\ q.op # "written"
         \/ \E a, ms : Reject(i, a, ms)
<1>1. ASSUME NEW a, GenerateRead(i, a) PROVE \E q : Look(i, q) /\ q.op # "written"
  BY <1>1 DEF GenerateRead
<1>2. ASSUME NEW e, NEW who, UpsertNew(i, e, who) PROVE \E q : Look(i, q) /\ q.op # "written"
  BY <1>2 DEF UpsertNew
<1>3. ASSUME NEW r, NEW e, UpsertEdit(i, r, e) PROVE \E q : Look(i, q) /\ q.op # "written"
  BY <1>3 DEF UpsertEdit
<1>4. ASSUME NEW r, NEW e, StaffUpsert(i, r, e) PROVE \E q : Look(i, q) /\ q.op # "written"
  BY <1>4 DEF StaffUpsert
<1>5. ASSUME NEW r, NEW e, LecturerAdjust(i, r, e) PROVE \E q : Look(i, q) /\ q.op # "written"
  BY <1>5 DEF LecturerAdjust
<1>6. ASSUME NEW r, DeleteLook(i, r) \/ LecturerCut(i, r) PROVE \E q : Look(i, q) /\ q.op # "written"
  BY <1>6 DEF DeleteLook, LecturerCut
<1>7. ASSUME NEW a, NEW ms, Submit(i, a, ms) \/ Approve(i, a, ms)
      PROVE  \E q : Look(i, q) /\ q.op # "written"
  BY <1>7 DEF Submit, Approve
<1>8. ASSUME NEW m, AddMakeup(i, m) \/ WaiveMakeup(i, m) \/ DeleteMakeup(i, m)
      PROVE  \E q : Look(i, q) /\ q.op # "written"
  BY <1>8 DEF AddMakeup, WaiveMakeup, DeleteMakeup
<1>9. ASSUME NEW h, HolidayCreate(i, h) PROVE \E q : Look(i, q) /\ q.op # "written"
  BY <1>9 DEF HolidayCreate
<1> QED
  BY <1>1, <1>2, <1>3, <1>4, <1>5, <1>6, <1>7, <1>8, <1>9 DEF Looks

(* A step of rows on which nothing becomes approved, and one where nothing   *)
(* approved changes.                                                        *)
NothingApproved == Has(rows', {"approved"}) \subseteq Has(rows, {"approved"})
NothingBegun    == \A j \in Calls : Puts(req'[j]) \subseteq Puts(req[j])

LEMMA CommitsBegins ==
  ASSUME NEW i \in Calls, NEW lost, Commits(i, lost)
  PROVE  NothingBegun
<1>1. \A j \in Calls : req'[j] = Idle \/ req'[j] = req[j]
  BY DEF Commits
<1>2. Puts(Idle) = {}
  BY DEF Puts, Idle
<1> QED
  BY <1>1, <1>2 DEF NothingBegun

LEMMA LookBegins ==
  ASSUME Shapes, NEW i \in Calls, NEW q, q.op # "written", Look(i, q)
  PROVE  NothingBegun
<1>1. \A j \in Calls : req'[j] = q \/ req'[j] = req[j]
  BY DEF Look, Shapes
<1>2. Puts(q) = {}
  BY DEF Puts
<1> QED
  BY <1>1, <1>2 DEF NothingBegun

(* No rewriting of drafts, rejected or sent rows approves one.               *)
LEMMA OthersApproveNothing ==
  ASSUME Shapes, NEW i \in Calls,
         Generate(i) \/ Insert(i) \/ Edit(i) \/ Delete(i) \/ StaffEdit(i) \/ Adjust(i) \/ Cut(i) \/ Send(i)
         \/ File(i) \/ Waive(i) \/ Unfile(i) \/ Declare(i)
  PROVE  NothingApproved /\ \E lost : Commits(i, lost)
<1>1. \A r \in rows : r \in RowSet /\ Line(r)
  BY RowLine DEF Shapes
<1>2. CASE Generate(i)
  <2>1. PICK v, a : v = req[i].view /\ a = req[i].asg
    OBVIOUS
  <2>2. /\ rows' = Outcome(v, a, rows) /\ Commits(i, Losing(Wiped(v, a, rows))) /\ req[i].op = "generate"
    BY <1>2, <2>1, Zenon DEF Generate
  <2>3. ViewFine(v) /\ a \in Asgs /\ Proper(rows)
    BY <2>1, <2>2 DEF Shapes, Fine, Asked
  <2>4. PICK base : base = rows \ Wiped(v, a, rows)
    OBVIOUS
  <2>5. Proper(base)
    BY <2>3, <2>4, ProperPart
  <2>6. Made(v, a, base) \in Drafts(a)
    BY <2>3, <2>5, MadeBeside DEF Beside
  <2>7. rows' = base \cup Made(v, a, base)
    BY <2>2, <2>4, Zenon DEF Outcome
  <2>8. \A r \in Made(v, a, base) : r.status = "draft"
    BY <2>6 DEF Drafts, Own
  <2> QED
    BY <2>2, <2>4, <2>7, <2>8 DEF NothingApproved, Has
<1>3. CASE Insert(i)
  <2>1. PICK t : t = Typed(req[i].line)
    OBVIOUS
  <2>2. PICK k : k = Keep(t, rows)
    OBVIOUS
  <2>3. rows' = rows \cup {k} /\ Commits(i, {}) /\ req[i].op = "new"
    BY <1>3, <2>1, <2>2 DEF Insert
  <2>4. Line(t) /\ t.status = "draft"
    BY <2>1, <2>3, AskedLine, TypedLine
  <2>5. k.status = "draft"
    BY <2>2, <2>4, KeepLine DEF Shapes, Proper
  <2> QED
    BY <2>3, <2>5 DEF NothingApproved, Has
<1>4. CASE Edit(i)
  <2>1. PICK q, x : /\ q \in rows
                    /\ req[i].op = "edit" /\ q.id \in req[i].ids /\ x = Retyped(q, req[i].line)
                    /\ rows' = (rows \ {q}) \cup {[x EXCEPT !.status = "draft"]}
                    /\ Commits(i, {})
    BY <1>4 DEF Edit, Those, Aims
  <2>2. Line(x)
    BY <1>1, <2>1, AskedLine, AimedLine, RetypedLine
  <2>3. [x EXCEPT !.status = "draft"].status = "draft"
    BY <2>2, MarkedLine DEF Statuses
  <2> QED
    BY <2>1, <2>3 DEF NothingApproved, Has
<1>5. CASE StaffEdit(i)
  <2>1. PICK q, x : /\ q \in rows
                    /\ req[i].op = "staff" /\ q.id \in req[i].ids /\ x = Retyped(q, req[i].line)
                    /\ rows' = (rows \ {q}) \cup {x} /\ Commits(i, {}) /\ q.status # "approved"
    BY <1>5 DEF StaffEdit, Those, Aims
  <2>2. x.status = q.status
    BY <1>1, <2>1, AskedLine, AimedLine, RetypedLine
  <2> QED
    BY <2>1, <2>2 DEF NothingApproved, Has
<1>6. CASE Adjust(i)
  <2> DEFINE S == Those(rows, Aims(req[i]))
             f == req[i].line.from
             t == req[i].line.to
  <2>1. /\ req[i].op = "adjust" /\ Commits(i, {})
        /\ rows' = (rows \ S) \cup {At(c, f, t) : c \in S}
        /\ \A c \in S : c \in rows /\ c.status = "submitted"
    BY <1>6, Zenon DEF Adjust, Those, StillSent
  <2>2. f \in Nat /\ t \in Nat /\ f < t
    <3>1. req[i].line \in work.lines /\ work \in Workloads
      BY <2>1 DEF Fine, Asked, Shapes
    <3> QED
      BY <3>1, TimesheetsAssumption DEF Lasting
  <2> HIDE DEF S, f, t
  <2>3. \A c \in S : At(c, f, t).status # "approved"
    BY <1>1, <2>1, <2>2, AtLine
  <2> QED
    BY <2>1, <2>3 DEF NothingApproved, Has
<1>7. CASE Send(i)
  <2>1. PICK S \in SUBSET rows : rows' = Becomes(S, "submitted") /\ Commits(i, {})
    BY <1>7 DEF Send, Chosen, OfAsg
  <2>2. \A r \in S : [r EXCEPT !.status = "submitted"].status = "submitted"
    BY <1>1, MarkedLine DEF Statuses
  <2>3. \A x \in rows' : x \in rows \/ x.status = "submitted"
    BY <2>1, <2>2 DEF Becomes
  <2> QED
    BY <2>1, <2>3 DEF NothingApproved, Has
<1>8. ASSUME rows' \in SUBSET rows PROVE NothingApproved
  BY <1>8 DEF NothingApproved, Has
<1>9. CASE Delete(i)
  BY <1>8, <1>9 DEF Delete
<1>10. CASE Cut(i)
  BY <1>8, <1>10 DEF Cut
<1>11. CASE Declare(i)
  BY <1>8, <1>11 DEF Declare
<1>12. CASE File(i)
  BY <1>8, <1>12 DEF File
<1>13. CASE Waive(i)
  BY <1>8, <1>13 DEF Waive
<1>14. CASE Unfile(i)
  BY <1>8, <1>14 DEF Unfile
<1> QED
  BY <1>2, <1>3, <1>4, <1>5, <1>6, <1>7, <1>9, <1>10, <1>11, <1>12, <1>13, <1>14

LEMMA RejectApprovesNothing ==
  ASSUME Shapes, NEW i \in Calls, NEW a, NEW ms, Reject(i, a, ms)
  PROVE  NothingApproved
<1>1. PICK S \in SUBSET rows : rows' = Becomes(S, "rejected")
  BY DEF Reject, Chosen, OfAsg
<1>2. \A r \in S : [r EXCEPT !.status = "rejected"].status = "rejected"
  BY RowLine, MarkedLine DEF Shapes, Statuses
<1>3. \A x \in rows' : x \in rows \/ x.status = "rejected"
  BY <1>1, <1>2 DEF Becomes
<1> QED
  BY <1>3 DEF NothingApproved, Has

(* A statement that is not yet committed bills its rows.                     *)
LEMMA WritesBills ==
  ASSUME Shapes, NEW i \in Calls, NEW P, NEW locks, Writes(i, P, locks), ~Crossing', BilledOnce,
         \A p \in P, s \in Has(rows, {"approved"}) : ~Across(p, s),
         \A p, s \in P : ~Across(p, s),
         \A p \in P, s \in Has(rows, {"approved"}) : ~Across(s, p)
  PROVE  BilledOnce'
<1>1. PICK q : q = [op |-> "written", puts |-> P, locks |-> locks]
  OBVIOUS
<1>2. rows' = rows /\ req' = [req EXCEPT ![i] = q]
  BY <1>1 DEF Writes
<1>3. req'[i] = q /\ \A j \in Calls \ {i} : req'[j] = req[j]
  BY <1>2 DEF Shapes
<1>4. q.op = "written" /\ Puts(q) = P
  BY <1>1 DEF Puts
<1>5. \A j \in Calls \ {i} : Puts(req'[j]) = {}
  BY <1>3, <1>4 DEF Crossing, Puts
<1>6. \A x \in Billed' : x \in Has(rows, {"approved"}) \/ x \in P
  <2>1. Billed' = Has(rows', {"approved"}) \cup UNION {Puts(req'[j]) : j \in Calls}
    BY DEF Billed
  <2> QED
    BY <1>2, <1>3, <1>4, <1>5, <2>1
<1>7. Has(rows, {"approved"}) \subseteq Billed
  BY DEF Billed
<1> QED
  BY <1>6, <1>7 DEF BilledOnce

LEMMA BilledLess ==
  ASSUME BilledOnce, NothingBegun, Has(rows', {"approved"}) \subseteq Billed
  PROVE  BilledOnce'
<1>1. Billed' = Has(rows', {"approved"}) \cup UNION {Puts(req'[j]) : j \in Calls}
  BY DEF Billed
<1>2. Billed' \subseteq Billed
  BY <1>1 DEF Billed, NothingBegun
<1> QED
  BY <1>2 DEF BilledOnce

LEMMA BilledStep ==
  ASSUME Shapes, TimesheetNext, BilledOnce, ~Crossing'
  PROVE  BilledOnce'
<1>1. Has(rows, {"approved"}) \subseteq Billed
  BY DEF Billed
<1>2. ASSUME NothingApproved, NothingBegun PROVE BilledOnce'
  BY <1>1, <1>2, BilledLess DEF NothingApproved
<1>3. ASSUME UNCHANGED <<rows, req>> PROVE BilledOnce'
  BY <1>2, <1>3 DEF NothingApproved, NothingBegun
<1>4. ASSUME NEW i \in Calls, Looks(i) PROVE BilledOnce'
  <2>1. CASE \E q : Look(i, q) /\ q.op # "written"
    <3>1. PICK q : Look(i, q) /\ q.op # "written"
      BY <2>1
    <3>2. rows' = rows
      BY <3>1 DEF Look
    <3> QED
      BY <1>2, <3>1, <3>2, LookBegins DEF NothingApproved
  <2>2. CASE \E a, ms : Reject(i, a, ms)
    <3>1. PICK a, ms : Reject(i, a, ms)
      BY <2>2
    <3>2. Commits(i, {})
      BY <3>1 DEF Reject
    <3> QED
      BY <1>2, <3>1, <3>2, CommitsBegins, RejectApprovesNothing
  <2> QED
    BY <1>4, <2>1, <2>2, LooksAre
<1>5. ASSUME NEW i \in Calls, ApproveRows(i) PROVE BilledOnce'
  <2>1. PICK S, locks, a :
           /\ S \in SUBSET rows
           /\ \A r \in S : Unbilled(r) /\ r.asg = a
           /\ Writes(i, {[r EXCEPT !.status = "approved"] : r \in S}, locks)
    BY <1>5 DEF ApproveRows, Chosen, OfAsg
  <2>2. PICK P : P = {[r EXCEPT !.status = "approved"] : r \in S}
    OBVIOUS
  <2> DEFINE n(r) == [r EXCEPT !.status = "approved"]
  <2>6. \A r \in S : n(r).day = r.day /\ n(r).from = r.from /\ n(r).to = r.to /\ n(r).asg = r.asg
    BY RowLine, MarkedLine DEF Shapes, Statuses
  <2>7. \A p \in P : \E r \in S : p = n(r)
    BY <2>2
  <2> HIDE DEF n
  <2>3. \A p \in P : \E r \in S : p.day = r.day /\ p.from = r.from /\ p.to = r.to /\ p.asg = r.asg
    BY <2>6, <2>7
  <2>4. \A p, s \in P : ~Across(p, s)
    BY <2>1, <2>3 DEF Across
  <2>5. \A p \in P, s \in Has(rows, {"approved"}) : ~Across(p, s) /\ ~Across(s, p)
    BY <2>1, <2>3 DEF Across, Overlap, Unbilled
  <2> QED
    BY <2>1, <2>2, <2>4, <2>5, WritesBills
<1>6. ASSUME NEW i \in Calls, StaffCorrect(i) PROVE BilledOnce'
  <2>1. PICK q, r : /\ q \in rows
                    /\ req[i].op = "staff" /\ q.id \in req[i].ids /\ q.status = "approved"
                    /\ r = Retyped(q, req[i].line) /\ Writes(i, {r}, {})
                    /\ (r.day = q.day /\ r.from = q.from /\ r.to = q.to) \/ Unbilled(r)
    BY <1>6 DEF StaffCorrect, Those, Aims
  <2>2. r.asg = q.asg
    BY <2>1, RowLine, AskedLine, AimedLine, RetypedLine DEF Shapes
  <2>3. q \in Billed
    BY <1>1, <2>1 DEF Has
  <2>4. \A s \in Has(rows, {"approved"}) : ~Across(r, s) /\ ~Across(s, r)
    <3>1. CASE Unbilled(r)
      BY <3>1 DEF Unbilled, Across, Overlap
    <3>2. CASE r.day = q.day /\ r.from = q.from /\ r.to = q.to
      BY <1>1, <2>2, <2>3, <3>2 DEF BilledOnce, Across, Overlap
    <3> QED
      BY <2>1, <3>1, <3>2
  <2>5. ~Across(r, r)
    BY DEF Across
  <2> QED
    BY <2>1, <2>4, <2>5, WritesBills
<1>7. ASSUME NEW i \in Calls, Commit(i) PROVE BilledOnce'
  <2>1. rows' = (rows \ Those(rows, Ids(Puts(req[i])))) \cup Puts(req[i]) /\ Commits(i, {})
    BY <1>7 DEF Commit
  <2>2. Has(rows', {"approved"}) \subseteq Billed
    BY <2>1 DEF Billed, Has
  <2> QED
    BY <2>1, <2>2, CommitsBegins, BilledLess
<1>8. ASSUME NEW i \in Calls, Drop(i) PROVE BilledOnce'
  <2>1. rows' = rows /\ req' = [req EXCEPT ![i] = Idle]
    BY <1>8 DEF Drop
  <2>2. \A j \in Calls : req'[j] = Idle \/ req'[j] = req[j]
    BY <2>1 DEF Shapes
  <2>3. Puts(Idle) = {}
    BY DEF Puts, Idle
  <2> QED
    BY <1>2, <2>1, <2>2, <2>3 DEF NothingApproved, NothingBegun
<1>9. ASSUME NEW i \in Calls, Ends(i) PROVE BilledOnce'
  BY <1>2, <1>5, <1>6, <1>7, <1>8, <1>9, OthersApproveNothing, CommitsBegins DEF Ends
<1>10. ASSUME NEW h, HolidayDelete(h) PROVE BilledOnce'
  BY <1>3, <1>10 DEF HolidayDelete
<1>11. ASSUME NEW mm, CloseMonth(mm) PROVE BilledOnce'
  BY <1>3, <1>11 DEF CloseMonth
<1> QED
  BY <1>4, <1>9, <1>10, <1>11 DEF TimesheetNext

(* However stale the looks of the requests, and in whatever order they       *)
(* write: the hours approved, or about to be, are billed to one course, as   *)
(* long as no two transactions past the trigger of migration 0131 are open   *)
(* at once.                                                                  *)
THEOREM HoursArePaidOnce == TimesheetSpec => HoursPaidOnce
<1>1. Shapes /\ TimesheetNext => (BilledOnce /\ ~Crossing' => BilledOnce')
  BY BilledStep
<1>2. Shapes /\ [TimesheetNext]_tsVars => [BilledOnce /\ ~Crossing' => BilledOnce']_tsVars
  BY <1>1
<1> QED
  BY ShapesInit, ShapesStep, <1>2, PTL DEF TimesheetSpec, HoursPaidOnce

-----------------------------------------------------------------------------
(* The week and the day of a set of rows, under a set of makeups.           *)
LandedAt(r, M)   == r.auto /\ \E m \in M : m.asg = r.asg /\ m.to = r.day /\ m.kind = r.act
Counted(r, S, M) == {s \in WeekMates(r, S) : ~LandedAt(s, M)}
WeekOf(r, S, M)  == Cap(r) > 0 => SumOf(Spans, Counted(r, S, M)) <= Cap(r)

(* A regular row is never priced by another copy of its sitting, so its      *)
(* price does not fall or rise with what becomes of other rows.              *)
Regulars(d, S)   == {s \in S : s.day = d /\ Info[s.asg].regular}
DayOf(d, S)      == SumOf(Prices, Regulars(d, S)) <= DayBaht

Holds(P, S, M)   == \A p \in P : WeekOf(p, S, M) /\ DayOf(p.day, S)

LEMMA SpansAdd ==
  ASSUME NEW S, Sheet(S), NEW T \in SUBSET S
  PROVE  /\ SumOf(Spans, T) \in Nat /\ SumOf(Spans, S) \in Nat
         /\ SumOf(Spans, T) <= SumOf(Spans, S)
<1>1. IsFiniteSet(S) /\ IsFiniteSet(T)
  BY FS_Subset DEF Sheet
<1>2. \A r \in S : Spans[r] \in Nat
  BY LineNumbers DEF Sheet
<1> QED
  BY <1>1, <1>2, SumNat, SumPart

LEMMA PricesAdd ==
  ASSUME NEW S, Sheet(S), NEW T \in SUBSET S
  PROVE  /\ SumOf(Prices, T) \in Nat /\ SumOf(Prices, S) \in Nat
         /\ SumOf(Prices, T) <= SumOf(Prices, S)
<1>1. IsFiniteSet(S) /\ IsFiniteSet(T)
  BY FS_Subset DEF Sheet
<1>2. \A r \in S : Prices[r] \in Nat
  BY LineNumbers DEF Sheet
<1> QED
  BY <1>1, <1>2, SumNat, SumPart

LEMMA CapSame ==
  ASSUME NEW r, NEW s, r.asg = s.asg, Pool(r) = Pool(s)
  PROVE  Cap(r) = Cap(s)
  BY DEF Cap

LEMMA RegularPriced ==
  ASSUME NEW S, Sheet(S), NEW r \in S, Info[r.asg].regular
  PROVE  r \in Priced(S)
<1>1. \A s \in S : s.asg \in Asgs
  BY DEF Sheet, Line, RowSet, Lines
<1> QED
  BY <1>1, TimesheetsAssumption DEF Priced, Copy, Twins

LEMMA CountedSheet ==
  ASSUME NEW S, Sheet(S), NEW r, NEW M
  PROVE  Sheet(Counted(r, S, M))
  BY SheetPart DEF Counted, WeekMates

LEMMA RegularsSheet ==
  ASSUME NEW S, Sheet(S), NEW d
  PROVE  Sheet(Regulars(d, S))
  BY SheetPart DEF Regulars

(* Fewer rows, of which no more have left a makeup's day.                    *)
LEMMA FewerWeek ==
  ASSUME NEW S, Sheet(S), NEW T, NEW M, NEW N, NEW r \in S, WeekOf(r, S, M),
         Counted(r, T, N) \subseteq Counted(r, S, M)
  PROVE  WeekOf(r, T, N)
<1>1. Cap(r) \in Nat
  BY LineNumbers DEF Sheet
<1>2. Sheet(Counted(r, S, M))
  BY CountedSheet
<1>3. SumOf(Spans, Counted(r, T, N)) \in Nat /\ SumOf(Spans, Counted(r, S, M)) \in Nat
      /\ SumOf(Spans, Counted(r, T, N)) <= SumOf(Spans, Counted(r, S, M))
  BY <1>2, SpansAdd
<1> QED
  BY <1>1, <1>3 DEF WeekOf

LEMMA FewerDay ==
  ASSUME NEW S, Sheet(S), NEW d, DayOf(d, S), NEW T, Regulars(d, T) \subseteq Regulars(d, S)
  PROVE  DayOf(d, T)
<1>1. DayBaht \in Nat
  BY TimesheetsAssumption
<1>2. SumOf(Prices, Regulars(d, T)) \in Nat /\ SumOf(Prices, Regulars(d, S)) \in Nat
      /\ SumOf(Prices, Regulars(d, T)) <= SumOf(Prices, Regulars(d, S))
  BY RegularsSheet, PricesAdd
<1> QED
  BY <1>1, <1>2 DEF DayOf

(* Rows put beside others that hold, where each put row's week and day hold. *)
LEMMA PutHolds ==
  ASSUME NEW A, Sheet(A), NEW P, NEW T, Sheet(T), T \subseteq A \cup P, NEW M, Holds(P, T, M)
  PROVE  /\ (\A r \in A : WeekOf(r, A, M)) => \A r \in T : WeekOf(r, T, M)
         /\ (\A d \in Days : DayOf(d, A)) => \A d \in Days : DayOf(d, T)
<1>1. ASSUME NEW r \in T, \A x \in A : WeekOf(x, A, M) PROVE WeekOf(r, T, M)
  <2>1. CASE \E p \in P : p.asg = r.asg /\ Pool(p) = Pool(r) /\ Calendar[p.day].week = Calendar[r.day].week
    <3>1. PICK p \in P : p.asg = r.asg /\ Pool(p) = Pool(r) /\ Calendar[p.day].week = Calendar[r.day].week
      BY <2>1
    <3>2. Cap(p) = Cap(r) /\ Counted(r, T, M) = Counted(p, T, M)
      BY <3>1, CapSame DEF Counted, WeekMates
    <3> QED
      BY <3>2 DEF Holds, WeekOf
  <2>2. CASE ~\E p \in P : p.asg = r.asg /\ Pool(p) = Pool(r) /\ Calendar[p.day].week = Calendar[r.day].week
    <3>1. r \in A /\ Counted(r, T, M) \subseteq Counted(r, A, M)
      BY <2>2 DEF Counted, WeekMates
    <3> QED
      BY <1>1, <3>1, FewerWeek
  <2> QED
    BY <2>1, <2>2
<1>2. ASSUME NEW d \in Days, \A e \in Days : DayOf(e, A) PROVE DayOf(d, T)
  <2>1. CASE \E p \in P : p.day = d
    BY <2>1 DEF Holds
  <2>2. CASE ~\E p \in P : p.day = d
    <3>1. Regulars(d, T) \subseteq Regulars(d, A)
      BY <2>2 DEF Regulars
    <3> QED
      BY <1>2, <3>1, FewerDay
  <2> QED
    BY <2>1, <2>2
<1> QED
  BY <1>1, <1>2

(* Rows of a set that holds, their status aside.                             *)
Marking(x, y) == /\ Line(y) /\ y.asg = x.asg /\ y.day = x.day /\ y.act = x.act /\ y.auto = x.auto
                 /\ y.from = x.from /\ y.to = x.to

LEMMA MarkingSame ==
  ASSUME NEW x, Line(x), NEW y, Marking(x, y)
  PROVE  /\ Pool(y) = Pool(x) /\ Cap(y) = Cap(x) /\ Spans[y] = Spans[x] /\ Prices[y] = Prices[x]
         /\ \A M : LandedAt(y, M) = LandedAt(x, M)
<1>1. Pool(y) = Pool(x) /\ Span(y) = Span(x)
  BY DEF Pool, Span, Marking
<1>2. Cap(y) = Cap(x) /\ Paid(y) = Paid(x)
  BY <1>1 DEF Cap, Paid, Marking
<1>3. Spans[y] = Spans[x] /\ Prices[y] = Prices[x]
  BY <1>1, <1>2, LineNumbers DEF Marking
<1>4. \A M : LandedAt(y, M) = LandedAt(x, M)
  BY DEF LandedAt, Marking
<1> QED
  BY <1>1, <1>2, <1>3, <1>4

LEMMA MarkedHolds ==
  ASSUME NEW R, Sheet(R), NEW S \in SUBSET R, NEW M, Holds(S, R, M), NEW m,
         \A x \in R : Marking(x, m[x]), NEW T, \A y \in T : \E x \in R : y = m[x],
         NEW P, \A p \in P : \E x \in S : p = m[x]
  PROVE  Holds(P, T, M)
<1>1. \A x \in R : Line(x)
  BY DEF Sheet
<1>2. \A x \in R : /\ Pool(m[x]) = Pool(x) /\ Cap(m[x]) = Cap(x) /\ Spans[m[x]] = Spans[x]
                   /\ Prices[m[x]] = Prices[x] /\ LandedAt(m[x], M) = LandedAt(x, M)
                   /\ m[x].asg = x.asg /\ m[x].day = x.day /\ Line(m[x])
  BY <1>1, MarkingSame DEF Marking
<1> SUFFICES ASSUME NEW p \in P PROVE WeekOf(p, T, M) /\ DayOf(p.day, T)
  BY DEF Holds
<1>3. PICK o \in S : p = m[o]
  OBVIOUS
<1>4. WeekOf(o, R, M) /\ DayOf(o.day, R) /\ Cap(p) = Cap(o) /\ p.day = o.day /\ p.asg = o.asg
      /\ Pool(p) = Pool(o)
  BY <1>2, <1>3 DEF Holds
<1>5. WeekOf(p, T, M)
  <2> DEFINE X == Counted(o, R, M)
             Y == {m[x] : x \in X}
  <2>1. X \in SUBSET R
    BY DEF Counted, WeekMates
  <2>2. Counted(p, T, M) \in SUBSET Y
    <3> SUFFICES ASSUME NEW y \in Counted(p, T, M) PROVE \E x \in X : y = m[x]
      OBVIOUS
    <3>1. y \in T /\ y.asg = p.asg /\ Pool(y) = Pool(p) /\ Calendar[y.day].week = Calendar[p.day].week
          /\ ~LandedAt(y, M)
      BY DEF Counted, WeekMates
    <3>2. PICK x \in R : y = m[x]
      BY <3>1
    <3>3. x \in X
      BY <1>2, <1>4, <3>1, <3>2 DEF Counted, WeekMates
    <3> QED
      BY <3>2, <3>3
  <2>3. Sheet(X)
    BY CountedSheet
  <2> HIDE DEF X
  <2>4. IsFiniteSet(X) /\ \A x \in X : Spans[x] \in Nat /\ Spans[m[x]] \in Nat /\ Spans[m[x]] <= Spans[x]
    BY <1>1, <1>2, <2>1, <2>3, LineNumbers DEF Sheet
  <2>5. SumOf(Spans, Y) <= SumOf(Spans, X)
    BY <2>4, SumImageLeq
  <2>6. IsFiniteSet(Y) /\ \A y \in Y : Line(y)
    BY <1>2, <2>1, <2>4, ImageFinite
  <2> HIDE DEF Y
  <2>7. SumOf(Spans, Counted(p, T, M)) <= SumOf(Spans, Y) /\ SumOf(Spans, Counted(p, T, M)) \in Nat
        /\ SumOf(Spans, Y) \in Nat
    BY <2>2, <2>6, SpansAdd DEF Sheet
  <2>8. SumOf(Spans, X) \in Nat /\ Cap(o) \in Nat
    BY <1>1, <2>3, LineNumbers, SpansAdd
  <2> QED
    BY <1>4, <2>5, <2>7, <2>8 DEF WeekOf, X
<1>6. DayOf(p.day, T)
  <2> DEFINE X == Regulars(o.day, R)
             Y == {m[x] : x \in X}
  <2>1. X \in SUBSET R
    BY DEF Regulars
  <2>2. Regulars(p.day, T) \in SUBSET Y
    <3> SUFFICES ASSUME NEW y \in Regulars(p.day, T) PROVE \E x \in X : y = m[x]
      OBVIOUS
    <3>1. y \in T /\ y.day = p.day /\ Info[y.asg].regular
      BY DEF Regulars
    <3>2. PICK x \in R : y = m[x]
      BY <3>1
    <3>3. x \in X
      BY <1>2, <1>4, <3>1, <3>2 DEF Regulars
    <3> QED
      BY <3>2, <3>3
  <2>3. Sheet(X)
    BY RegularsSheet
  <2> HIDE DEF X
  <2>4. IsFiniteSet(X) /\ \A x \in X : Prices[x] \in Nat /\ Prices[m[x]] \in Nat /\ Prices[m[x]] <= Prices[x]
    BY <1>1, <1>2, <2>1, <2>3, LineNumbers DEF Sheet
  <2>5. SumOf(Prices, Y) <= SumOf(Prices, X)
    BY <2>4, SumImageLeq
  <2>6. IsFiniteSet(Y) /\ \A y \in Y : Line(y)
    BY <1>2, <2>1, <2>4, ImageFinite
  <2> HIDE DEF Y
  <2>7. SumOf(Prices, Regulars(p.day, T)) <= SumOf(Prices, Y) /\ SumOf(Prices, Regulars(p.day, T)) \in Nat
        /\ SumOf(Prices, Y) \in Nat
    BY <2>2, <2>6, PricesAdd DEF Sheet
  <2>8. SumOf(Prices, X) \in Nat /\ DayBaht \in Nat
    BY <2>3, PricesAdd, TimesheetsAssumption
  <2> QED
    BY <1>4, <2>5, <2>7, <2>8 DEF DayOf, X
<1> QED
  BY <1>5, <1>6

-----------------------------------------------------------------------------
(* What a gate relied on when it looked, in terms of the rows in review and  *)
(* the makeups it saw; it still holds of a gate not overtaken.               *)
Sendable(R, a, ms) == {r \in R : r.asg = a /\ r.status = "submitted" /\ MonthOf(r) \in ms}
Recast(R, x, e)    == (R \ {x}) \cup {Retyped(x, e)}
After(P, R)        == (Has(R, {"approved"}) \ Those(R, Ids(P))) \cup P

GateFine(q, R, M) ==
    /\ q.op = "approve" => Holds(Sendable(R, q.asg, q.months), R, M)
    /\ q.op = "staff" /\ q.was => \A x \in Those(R, q.ids) : Holds({Retyped(x, q.line)}, Recast(R, x, q.line), M)
    /\ q.op = "written" => Holds(q.puts, After(q.puts, R), M)
    /\ q.op = "unfile" => \A r \in R : q.filing.to # 0 => ~(r.asg = q.filing.asg /\ r.day = q.filing.to)
    /\ q.op = "waive" => \A k \in M : SamePeriod(k, q.filing) => k.to = 0

GatesFine == \A i \in Calls \ overtaken : GateFine(req[i], InReview(rows), makeups)

LEMMA InReviewSheet ==
  ASSUME Shapes
  PROVE  Sheet(rows) /\ Sheet(InReview(rows)) /\ InReview(rows) \in SUBSET rows
<1>1. Sheet(rows) /\ InReview(rows) \in SUBSET rows
  BY ProperSheet DEF Shapes, InReview, Has
<1> QED
  BY <1>1, SheetPart

LEMMA ApproveLooks ==
  ASSUME Shapes, NEW i, NEW a, NEW ms, Approve(i, a, ms)
  PROVE  Holds(Sendable(InReview(rows), a, ms), InReview(rows), makeups)
<1> DEFINE R == InReview(rows)
<1>1. DayBahtHolds(Chosen(a, ms, {"submitted"}), rows) /\ WeeksHold(a, rows)
  BY DEF Approve, CapsHold
<1>2. Sheet(R) /\ R \in SUBSET rows
  BY InReviewSheet
<1> SUFFICES ASSUME NEW p \in Sendable(R, a, ms) PROVE WeekOf(p, R, makeups) /\ DayOf(p.day, R)
  BY DEF Holds
<1>3. p \in R /\ p.asg = a /\ p \in Chosen(a, ms, {"submitted"}) /\ p \in InReview(OfAsg(rows, a))
  BY <1>2 DEF Sendable, Chosen, OfAsg, InReview, Has
<1>4. WeekOf(p, R, makeups)
  <2>1. {s \in WeekMates(p, InReview(OfAsg(rows, a))) : ~Landed(s)} = Counted(p, R, makeups)
    BY <1>3 DEF Counted, WeekMates, InReview, Has, OfAsg, Landed, LandedAt
  <2>2. Cap(p) > 0 => Hours(Counted(p, R, makeups)) <= Cap(p)
    BY <1>1, <1>3, <2>1 DEF WeeksHold, WeekHours
  <2>3. Sheet(Counted(p, R, makeups))
    BY <1>2, CountedSheet
  <2> QED
    BY <2>2, <2>3, HoursIs DEF WeekOf
<1>5. DayOf(p.day, R)
  <2> DEFINE T == OnDay(R, p.day)
  <2>1. Baht(T) <= DayBaht
    BY <1>1, <1>3 DEF DayBahtHolds
  <2>2. T \in SUBSET R
    BY DEF OnDay
  <2>3. Sheet(T)
    BY <1>2, <2>2, SheetPart
  <2>4. Regulars(p.day, R) = {r \in T : Info[r.asg].regular}
    BY DEF Regulars, OnDay
  <2> HIDE DEF T
  <2>5. Regulars(p.day, R) \in SUBSET Priced(T) /\ Priced(T) \in SUBSET T
    BY <2>3, <2>4, RegularPriced DEF Priced
  <2>6. Sheet(Priced(T))
    BY <2>3, <2>5, SheetPart
  <2>7. SumOf(Prices, Regulars(p.day, R)) <= SumOf(Prices, Priced(T))
        /\ SumOf(Prices, Regulars(p.day, R)) \in Nat /\ SumOf(Prices, Priced(T)) \in Nat
    BY <2>5, <2>6, PricesAdd
  <2>8. DayBaht \in Nat
    BY TimesheetsAssumption
  <2> QED
    BY <2>1, <2>3, <2>7, <2>8, BahtIs DEF DayOf
<1> QED
  BY <1>4, <1>5

LEMMA StaffLooks ==
  ASSUME Shapes, NEW i, NEW q \in rows, NEW e \in work.lines, StaffUpsert(i, q, e)
  PROVE  Holds({Retyped(q, e)}, Recast(InReview(rows), q, e), makeups)
<1> DEFINE others == rows \ {q}
           R == Recast(InReview(rows), q, e)
<1>1. PICK r : r = Retyped(q, e)
  OBVIOUS
<1>2. Limits(r, others) /\ DayPay(r, others) /\ DateAllows(r) /\ e.asg = q.asg
  BY <1>1 DEF StaffUpsert, Writable
<1>3. Line(q) /\ q \in RowSet
  BY RowLine DEF Shapes
<1>4. Line(r) /\ r.id = q.id
  <2>1. Retyped(q, e).act = e.act /\ Retyped(q, e).asg = q.asg
    BY <1>3 DEF Retyped, RowSet, Lines
  <2>2. Fits(e)
    BY <1>1, <1>2, <2>1, WorkFine DEF DateAllows
  <2> QED
    BY <1>1, <1>2, <1>3, <2>2, RetypedLine
<1>5. r \notin others
  BY <1>4 DEF Shapes, Proper, Keyed
<1>6. Sheet(others) /\ Sheet(R) /\ R \subseteq others \cup {r}
  <2>1. R = (InReview(rows) \ {q}) \cup {r} /\ InReview(rows) \ {q} \in SUBSET InReview(rows) /\ others \in SUBSET rows
    BY <1>1 DEF Recast
  <2>2. Sheet(InReview(rows)) /\ Sheet(rows) /\ InReview(rows) \in SUBSET rows
    BY InReviewSheet
  <2> QED
    BY <1>4, <2>1, <2>2, SheetPart, SheetOne, SheetJoin
<1>7. \A s \in R : s \in InReview(rows) \/ s = r
  BY <1>1 DEF Recast
<1> HIDE DEF R, others
<1>8. WeekOf(r, R, makeups)
  <2> SUFFICES ASSUME Cap(r) > 0 PROVE SumOf(Spans, Counted(r, R, makeups)) <= Cap(r)
    BY DEF WeekOf
  <2> DEFINE T == Counted(r, others, makeups)
  <2>1. Counted(r, R, makeups) \in SUBSET (T \cup {r}) /\ r \notin T
    BY <1>5, <1>6 DEF Counted, WeekMates
  <2>2. T = {s \in WeekMates(r, others) : ~Landed(s)}
    BY DEF Counted, Landed, LandedAt
  <2>3. Hours(T) + Span(r) <= Cap(r)
    BY <1>2, <2>2 DEF Limits, WeekHours
  <2>4. Sheet(T)
    BY <1>6, CountedSheet
  <2> HIDE DEF T
  <2>5. Sheet(T \cup {r}) /\ (T \cup {r}) \ {r} = T
    BY <1>4, <2>1, <2>4, SheetOne, SheetJoin
  <2>6. \A x \in T \cup {r} : Spans[x] \in Nat
    BY <2>5, LineNumbers DEF Sheet
  <2>7. IsFiniteSet(T \cup {r}) /\ r \in T \cup {r}
    BY <2>5 DEF Sheet
  <2>8. SumOf(Spans, T \cup {r}) = Spans[r] + SumOf(Spans, (T \cup {r}) \ {r})
    BY <2>6, <2>7, SumTake
  <2>9. SumOf(Spans, T \cup {r}) <= Cap(r)
    <3>1. Hours(T) = SumOf(Spans, T) /\ Spans[r] = Span(r)
      BY <1>4, <2>4, HoursIs, LineNumbers
    <3>2. Hours(T) \in Nat /\ Span(r) \in Nat
      BY <1>4, <2>4, HoursIs, LineNumbers
    <3>3. SumOf(Spans, T \cup {r}) = Span(r) + Hours(T)
      BY <2>5, <2>8, <3>1
    <3> QED
      BY <2>3, <3>2, <3>3
  <2>10. SumOf(Spans, Counted(r, R, makeups)) <= SumOf(Spans, T \cup {r})
         /\ SumOf(Spans, Counted(r, R, makeups)) \in Nat /\ SumOf(Spans, T \cup {r}) \in Nat
    BY <2>1, <2>5, SpansAdd
  <2>11. Cap(r) \in Nat
    BY <1>4, LineNumbers
  <2> QED
    BY <2>9, <2>10, <2>11
<1>9. DayOf(r.day, R)
  <2> DEFINE T == OnDay(Live(others), r.day) \cup {r}
  <2>1. Baht(T) <= DayBaht
    BY <1>2 DEF DayPay
  <2>2. OnDay(Live(others), r.day) \in SUBSET others
    BY DEF OnDay, Live
  <2>3. Sheet(T)
    BY <1>4, <1>6, <2>2, SheetPart, SheetOne, SheetJoin
  <2>4. Regulars(r.day, R) \in SUBSET T
    BY <1>6, <1>7 DEF Regulars, OnDay, Live, InReview, Has
  <2> HIDE DEF T
  <2>5. Regulars(r.day, R) \in SUBSET Priced(T) /\ Priced(T) \in SUBSET T
    BY <2>3, <2>4, RegularPriced DEF Priced, Regulars
  <2>6. Sheet(Priced(T))
    BY <2>3, <2>5, SheetPart
  <2>7. SumOf(Prices, Regulars(r.day, R)) <= SumOf(Prices, Priced(T))
        /\ SumOf(Prices, Regulars(r.day, R)) \in Nat /\ SumOf(Prices, Priced(T)) \in Nat
    BY <2>5, <2>6, PricesAdd
  <2>8. DayBaht \in Nat
    BY TimesheetsAssumption
  <2> QED
    BY <2>1, <2>3, <2>7, <2>8, BahtIs DEF DayOf
<1> QED
  BY <1>1, <1>8, <1>9 DEF Holds, R

(* A look leaves its gate fine.                                              *)
GateLook(i, q) == /\ Look(i, q) /\ GateFine(q, InReview(rows), makeups)

LEMMA LooksFine ==
  ASSUME Shapes, NEW i \in Calls, Looks(i)
  PROVE  \/ \E q : GateLook(i, q)
         \/ \E a, ms : Reject(i, a, ms)
<1>1. ASSUME NEW q, Look(i, q), q.op \notin Gates PROVE GateLook(i, q)
  BY <1>1 DEF GateLook, GateFine, Gates
<1>2. ASSUME NEW a, GenerateRead(i, a) PROVE \E q : GateLook(i, q)
  <2>1. PICK q : Look(i, q) /\ q.op = "generate"
    BY <1>2 DEF GenerateRead
  <2> QED
    BY <1>1, <2>1 DEF Gates
<1>3. ASSUME NEW e, NEW who, UpsertNew(i, e, who) PROVE \E q : GateLook(i, q)
  <2>1. PICK q : Look(i, q) /\ q.op = "new"
    BY <1>3 DEF UpsertNew
  <2> QED
    BY <1>1, <2>1 DEF Gates
<1>4. ASSUME NEW r, NEW e, UpsertEdit(i, r, e) \/ LecturerAdjust(i, r, e) PROVE \E q : GateLook(i, q)
  <2>1. PICK q : Look(i, q) /\ q.op \in {"edit", "adjust"}
    BY <1>4 DEF UpsertEdit, LecturerAdjust
  <2> QED
    BY <1>1, <2>1 DEF Gates
<1>5. ASSUME NEW r, DeleteLook(i, r) \/ LecturerCut(i, r) PROVE \E q : GateLook(i, q)
  <2>1. PICK q : Look(i, q) /\ q.op \in {"delete", "cut"}
    BY <1>5 DEF DeleteLook, LecturerCut
  <2> QED
    BY <1>1, <2>1 DEF Gates
<1>6. ASSUME NEW a, NEW ms, Submit(i, a, ms) PROVE \E q : GateLook(i, q)
  <2>1. PICK q : Look(i, q) /\ q.op = "submit"
    BY <1>6 DEF Submit
  <2> QED
    BY <1>1, <2>1 DEF Gates
<1>7. ASSUME NEW m, AddMakeup(i, m) PROVE \E q : GateLook(i, q)
  <2>1. PICK q : Look(i, q) /\ q.op = "file"
    BY <1>7 DEF AddMakeup
  <2> QED
    BY <1>1, <2>1 DEF Gates
<1>8. ASSUME NEW h, HolidayCreate(i, h) PROVE \E q : GateLook(i, q)
  <2>1. PICK q : Look(i, q) /\ q.op = "holiday"
    BY <1>8 DEF HolidayCreate
  <2> QED
    BY <1>1, <2>1 DEF Gates
<1>9. ASSUME NEW a, NEW ms, Approve(i, a, ms) PROVE \E q : GateLook(i, q)
  <2>1. PICK q : Look(i, q) /\ q.op = "approve" /\ q.asg = a /\ q.months = ms
    BY <1>9 DEF Approve
  <2> QED
    BY <1>9, <2>1, ApproveLooks DEF GateLook, GateFine
<1>10. ASSUME NEW r \in rows, NEW e \in work.lines, StaffUpsert(i, r, e) PROVE \E q : GateLook(i, q)
  <2>1. PICK q : Look(i, q) /\ q.op = "staff" /\ q.ids = {r.id} /\ q.line = e
    BY <1>10 DEF StaffUpsert
  <2>2. \A x \in Those(InReview(rows), q.ids) : x = r
    BY <2>1, InReviewSheet DEF Those, Shapes, Proper, Keyed
  <2> QED
    BY <1>10, <2>1, <2>2, StaffLooks DEF GateLook, GateFine
<1>11. ASSUME NEW m, WaiveMakeup(i, m) PROVE \E q : GateLook(i, q)
  <2>1. PICK q : Look(i, q) /\ q.op = "waive" /\ q.filing = m
    BY <1>11 DEF WaiveMakeup
  <2>2. \A k \in makeups : SamePeriod(k, m) => k.to = 0
    BY <1>11 DEF WaiveMakeup, Filed
  <2> QED
    BY <2>1, <2>2 DEF GateLook, GateFine
<1>12. ASSUME NEW m, DeleteMakeup(i, m) PROVE \E q : GateLook(i, q)
  <2>1. PICK q : Look(i, q) /\ q.op = "unfile" /\ q.filing = m
    BY <1>12 DEF DeleteMakeup
  <2>2. m.to # 0 => \A r \in InReview(rows) : ~(r.asg = m.asg /\ r.day = m.to)
    BY <1>12 DEF DeleteMakeup, InReview, Has, OnDay, OfAsg
  <2> QED
    BY <2>1, <2>2 DEF GateLook, GateFine
<1> QED
  BY <1>2, <1>3, <1>4, <1>5, <1>6, <1>7, <1>8, <1>9, <1>10, <1>11, <1>12 DEF Looks

(* What a fine gate writes keeps the caps when it is committed.              *)
Approves(n, S, P) == /\ \A x \in S : Marking(x, n[x]) /\ n[x].id = x.id /\ n[x] \in P
                     /\ \A p \in P : \E x \in S : p = n[x]

LEMMA ApprovalMarks ==
  ASSUME NEW S, \A x \in S : Line(x)
  PROVE  \E n : Approves(n, S, {[r EXCEPT !.status = "approved"] : r \in S})
<1> DEFINE a(r) == [r EXCEPT !.status = "approved"]
           n == [x \in S |-> a(x)]
           P == {a(r) : r \in S}
<1>1. \A x \in S : Marking(x, a(x)) /\ a(x).id = x.id
  BY MarkedLine DEF Marking, Statuses
<1> HIDE DEF a
<1>2. Approves(n, S, P)
  BY <1>1 DEF Approves
<1> QED
  BY <1>2 DEF a

LEMMA ApprovalHolds ==
  ASSUME NEW R, Sheet(R), NEW S \in SUBSET R, NEW M, Holds(S, R, M), NEW P, NEW n, Approves(n, S, P)
  PROVE  Holds(P, After(P, R), M)
<1> DEFINE m == [x \in R |-> IF x \in S THEN n[x] ELSE x]
<1>1. \A x \in R : Line(x)
  BY DEF Sheet
<1>2. \A x \in R : Marking(x, m[x])
  BY <1>1 DEF Marking, Approves
<1>3. \A p \in P : \E x \in S : p = m[x]
  BY DEF Approves
<1>4. ASSUME NEW y \in After(P, R) PROVE \E x \in R : y = m[x]
  <2>1. CASE y \in P
    BY <1>3, <2>1
  <2>2. CASE y \notin P
    <3>1. y \in R /\ y.id \notin Ids(P)
      BY <2>2 DEF After, Has, Those
    <3>2. y \notin S
      BY <3>1 DEF Ids, Approves
    <3> QED
      BY <3>1, <3>2
  <2> QED
    BY <2>1, <2>2
<1> HIDE DEF m
<1> QED
  BY <1>2, <1>3, <1>4, MarkedHolds

LEMMA CorrectionHolds ==
  ASSUME NEW R, Sheet(R), NEW x \in R, NEW r, Line(r), r.id = x.id, NEW M,
         Holds({r}, (R \ {x}) \cup {r}, M)
  PROVE  Holds({r}, After({r}, R), M)
<1> DEFINE S == (R \ {x}) \cup {r}
           T == After({r}, R)
<1>1. T \subseteq S
  BY DEF After, Has, Those, Ids
<1>2. R \ {x} \in SUBSET R
  OBVIOUS
<1>3. Sheet(S) /\ r \in S
  BY <1>2, SheetPart, SheetOne, SheetJoin
<1> HIDE DEF S, T
<1>4. WeekOf(r, S, M) /\ DayOf(r.day, S)
  BY DEF Holds, S
<1>5. Counted(r, T, M) \subseteq Counted(r, S, M) /\ Regulars(r.day, T) \subseteq Regulars(r.day, S)
  BY <1>1 DEF Counted, WeekMates, Regulars
<1>6. WeekOf(r, T, M) /\ DayOf(r.day, T)
  BY <1>3, <1>4, <1>5, FewerWeek, FewerDay
<1> QED
  BY <1>6 DEF Holds, T

-----------------------------------------------------------------------------
(* A gate stays fine until it writes, unless it is overtaken.                *)
LEMMA GatesInit == TimesheetInit => GatesFine
  BY DEF TimesheetInit, GatesFine, GateFine, Idle

LEMMA CommitGates ==
  ASSUME Shapes, GatesFine, NEW i \in Calls, NEW lost, Commits(i, lost)
  PROVE  GatesFine'
<1>1. /\ req' = [j \in Calls |-> IF j = i \/ j \in lost THEN Idle ELSE req[j]]
      /\ overtaken' = {j \in Calls \ ({i} \cup lost) : req[j].op \in Gates /\
            (j \in overtaken \/ InReview(rows') # InReview(rows) \/ makeups' # makeups)}
  BY DEF Commits
<1>2. ASSUME NEW j \in Calls \ overtaken' PROVE GateFine(req'[j], InReview(rows'), makeups')
  <2>1. CASE j = i \/ j \in lost
    BY <1>1, <2>1 DEF GateFine, Idle
  <2>2. CASE ~(j = i \/ j \in lost) /\ req[j].op \notin Gates
    BY <1>1, <2>2 DEF GateFine, Gates
  <2>3. CASE ~(j = i \/ j \in lost) /\ req[j].op \in Gates
    <3>1. req'[j] = req[j] /\ j \notin overtaken /\ InReview(rows') = InReview(rows) /\ makeups' = makeups
      BY <1>1, <1>2, <2>3
    <3>2. GateFine(req[j], InReview(rows), makeups)
      BY <3>1 DEF GatesFine
    <3> QED
      BY <3>1, <3>2
  <2> QED
    BY <2>1, <2>2, <2>3
<1> QED
  BY <1>2 DEF GatesFine

LEMMA OneGate ==
  ASSUME Shapes, GatesFine, NEW i \in Calls, NEW q, rows' = rows, makeups' = makeups,
         overtaken \subseteq overtaken' \cup {i}, req' = [req EXCEPT ![i] = q],
         i \notin overtaken' => GateFine(q, InReview(rows), makeups)
  PROVE  GatesFine'
<1>1. ASSUME NEW j \in Calls \ overtaken' PROVE GateFine(req'[j], InReview(rows'), makeups')
  <2>1. CASE j = i
    <3>1. req'[j] = q
      BY <2>1 DEF Shapes
    <3> QED
      BY <1>1, <2>1, <3>1
  <2>2. CASE j # i
    <3>1. req'[j] = req[j] /\ j \notin overtaken
      BY <1>1, <2>2 DEF Shapes
    <3> QED
      BY <3>1 DEF GatesFine
  <2> QED
    BY <2>1, <2>2
<1> QED
  BY <1>1 DEF GatesFine

LEMMA WriteGate ==
  ASSUME Shapes, GatesFine, NEW i \in Calls, NEW P, NEW locks, Writes(i, P, locks),
         i \notin overtaken => Holds(P, After(P, InReview(rows)), makeups)
  PROVE  GatesFine'
<1>1. PICK q : q = [op |-> "written", puts |-> P, locks |-> locks]
  OBVIOUS
<1>2. rows' = rows /\ makeups' = makeups /\ overtaken' = overtaken /\ req' = [req EXCEPT ![i] = q]
  BY <1>1 DEF Writes
<1>3. q.op = "written" /\ q.puts = P
  BY <1>1
<1>4. i \notin overtaken' => GateFine(q, InReview(rows), makeups)
  BY <1>2, <1>3 DEF GateFine
<1> QED
  BY <1>2, <1>4, OneGate

LEMMA GatesStep ==
  ASSUME Shapes, GatesFine, [TimesheetNext]_tsVars
  PROVE  GatesFine'
<1>1. ASSUME UNCHANGED <<rows, makeups, req, overtaken>> PROVE GatesFine'
  BY <1>1 DEF GatesFine
<1>2. ASSUME NEW i \in Calls, Looks(i) PROVE GatesFine'
  <2>1. CASE \E q : GateLook(i, q)
    <3>1. PICK q : GateLook(i, q)
      BY <2>1
    <3> QED
      BY <3>1, OneGate DEF GateLook, Look
  <2>2. CASE \E a, ms : Reject(i, a, ms)
    <3>1. Commits(i, {})
      BY <2>2 DEF Reject
    <3> QED
      BY <3>1, CommitGates
  <2> QED
    BY <1>2, <2>1, <2>2, LooksFine
<1>3. ASSUME NEW i \in Calls, ApproveRows(i) PROVE GatesFine'
  <2> DEFINE R == InReview(rows)
             S == Sendable(R, req[i].asg, req[i].months)
             P == {[r EXCEPT !.status = "approved"] : r \in S}
  <2>1. S = Chosen(req[i].asg, req[i].months, {"submitted"})
    BY DEF Sendable, Chosen, OfAsg, InReview, Has
  <2>2. req[i].op = "approve" /\ Writes(i, P, Locks(req[i]))
    BY <1>3, <2>1 DEF ApproveRows
  <2>3. Sheet(R) /\ S \in SUBSET R
    BY InReviewSheet DEF Sendable
  <2>4. i \notin overtaken => Holds(S, R, makeups)
    BY <2>2 DEF GatesFine, GateFine
  <2>5. PICK n : Approves(n, S, P)
    <3>1. \A x \in S : Line(x)
      BY <2>3 DEF Sheet
    <3> QED
      BY <3>1, ApprovalMarks
  <2> HIDE DEF R, S, P
  <2>6. i \notin overtaken => Holds(P, After(P, R), makeups)
    BY <2>3, <2>4, <2>5, ApprovalHolds
  <2> QED
    BY <2>2, <2>6, WriteGate DEF R
<1>4. ASSUME NEW i \in Calls, StaffCorrect(i) PROVE GatesFine'
  <2> DEFINE R == InReview(rows)
  <2>1. PICK q, r : /\ q \in rows
                    /\ req[i].op = "staff" /\ q.id \in req[i].ids /\ q.status = "approved" /\ req[i].was
                    /\ r = Retyped(q, req[i].line) /\ Writes(i, {r}, {})
    BY <1>4 DEF StaffCorrect, Those, Aims
  <2>2. Line(r) /\ r.id = q.id
    BY <2>1, RowLine, AskedLine, AimedLine, RetypedLine DEF Shapes
  <2>3. q \in R /\ q \in Those(R, req[i].ids) /\ Sheet(R)
    BY <2>1, InReviewSheet DEF InReview, Has, Those
  <2>4. i \notin overtaken => Holds({r}, (R \ {q}) \cup {r}, makeups)
    BY <2>1, <2>3 DEF GatesFine, GateFine, Recast
  <2> HIDE DEF R
  <2>5. i \notin overtaken => Holds({r}, After({r}, R), makeups)
    BY <2>2, <2>3, <2>4, CorrectionHolds
  <2> QED
    BY <2>1, <2>5, WriteGate DEF R
<1>5. ASSUME NEW i \in Calls, Drop(i) PROVE GatesFine'
  <2>1. GateFine(Idle, InReview(rows), makeups)
    BY DEF GateFine, Idle
  <2> QED
    BY <1>5, <2>1, OneGate DEF Drop
<1>6. ASSUME NEW i \in Calls, Commit(i) PROVE GatesFine'
  BY <1>6, CommitGates DEF Commit
<1>7. ASSUME NEW i \in Calls, Ends(i) PROVE GatesFine'
  BY <1>3, <1>4, <1>5, <1>6, <1>7, OthersApproveNothing, CommitGates DEF Ends
<1>8. ASSUME NEW h, HolidayDelete(h) PROVE GatesFine'
  BY <1>1, <1>8 DEF HolidayDelete
<1>9. ASSUME NEW mm, CloseMonth(mm) PROVE GatesFine'
  BY <1>1, <1>9 DEF CloseMonth
<1>10. CASE UNCHANGED tsVars
  BY <1>1, <1>10 DEF tsVars
<1> QED
  BY <1>2, <1>7, <1>8, <1>9, <1>10 DEF TimesheetNext

-----------------------------------------------------------------------------
(* The caps, from one commit to the next.                                    *)
Appr     == Has(rows, {"approved"})
WeeksFit == \A r \in Appr : WeekOf(r, Appr, makeups)
DaysFit  == \A d \in Days : DayOf(d, Appr)
FitKept  == (WeeksFit => WeeksFit') /\ (DaysFit => DaysFit')

LEMMA ApprSheet ==
  ASSUME Shapes
  PROVE  Sheet(Appr) /\ Appr \in SUBSET rows
<1>1. Appr \in SUBSET rows
  BY DEF Appr, Has
<1> QED
  BY <1>1, InReviewSheet, SheetPart

LEMMA FewerKept ==
  ASSUME Shapes, NothingApproved, \A s \in Appr' : LandedAt(s, makeups) => LandedAt(s, makeups')
  PROVE  FitKept
<1>1. Sheet(Appr) /\ Appr' \subseteq Appr
  BY ApprSheet DEF NothingApproved, Appr
<1>2. ASSUME WeeksFit, NEW r \in Appr' PROVE WeekOf(r, Appr', makeups')
  <2>1. Counted(r, Appr', makeups') \subseteq Counted(r, Appr, makeups)
    BY <1>1 DEF Counted, WeekMates
  <2>2. r \in Appr /\ WeekOf(r, Appr, makeups)
    BY <1>1, <1>2 DEF WeeksFit
  <2> QED
    BY <1>1, <2>1, <2>2, FewerWeek
<1>3. ASSUME DaysFit, NEW d \in Days PROVE DayOf(d, Appr')
  <2>1. Regulars(d, Appr') \subseteq Regulars(d, Appr)
    BY <1>1 DEF Regulars
  <2> QED
    BY <1>1, <1>3, <2>1, FewerDay DEF DaysFit
<1> QED
  BY <1>2, <1>3 DEF FitKept, WeeksFit, DaysFit

LEMMA QuietKept ==
  ASSUME Shapes, NothingApproved, makeups' = makeups
  PROVE  FitKept
  BY FewerKept

(* An approved row stays where its makeup put it: a makeup goes, or turns    *)
(* into a waiver, only with nothing in review on its day, unless the request *)
(* was overtaken.                                                            *)
LEMMA MovedKept ==
  ASSUME Shapes, GatesFine, NEW i \in Calls, File(i) \/ Waive(i) \/ Unfile(i), ~Overtaken
  PROVE  FitKept
<1>1. NothingApproved
  BY OthersApproveNothing
<1>2. Appr' \subseteq Appr /\ Appr \subseteq InReview(rows)
  BY <1>1 DEF NothingApproved, Appr, InReview, Has
<1>3. \A s \in Appr : s.day # 0
  <2>1. \A d \in Days : d # 0
    BY TimesheetsAssumption DEF Days
  <2> QED
    BY <2>1, RowLine DEF Shapes, Appr, Has, RowSet, Lines
<1>4. ASSUME NEW s \in Appr', LandedAt(s, makeups) PROVE LandedAt(s, makeups')
  <2>1. PICK k \in makeups : s.auto /\ k.asg = s.asg /\ k.to = s.day /\ k.kind = s.act
    BY <1>4 DEF LandedAt
  <2>2. k.to # 0 /\ s \in InReview(rows)
    BY <1>2, <1>3, <2>1
  <2>3. k \in makeups'
    <3>1. CASE File(i)
      BY <3>1 DEF File
    <3>2. CASE Waive(i)
      <4>1. i \notin overtaken /\ req[i].op = "waive"
        BY <3>2 DEF Overtaken, Waive
      <4>2. ~SamePeriod(k, req[i].filing)
        BY <2>2, <4>1 DEF GatesFine, GateFine
      <4> QED
        BY <3>2, <4>2 DEF Waive, Filed
    <3>3. CASE Unfile(i)
      <4>1. i \notin overtaken /\ req[i].op = "unfile"
        BY <3>3 DEF Overtaken, Unfile
      <4>2. k # req[i].filing
        BY <2>1, <2>2, <4>1 DEF GatesFine, GateFine
      <4> QED
        BY <2>2, <3>3, <4>2 DEF Unfile
    <3> QED
      BY <3>1, <3>2, <3>3
  <2> QED
    BY <2>1, <2>3 DEF LandedAt
<1> QED
  BY <1>1, <1>4, FewerKept

LEMMA CommitKept ==
  ASSUME Shapes, Shapes', GatesFine, NEW i \in Calls, Commit(i), ~Overtaken
  PROVE  FitKept
<1> DEFINE P == req[i].puts
           R == InReview(rows)
           T == Has(rows', {"approved"})
<1>1. req[i].op = "written" /\ i \notin overtaken /\ Puts(req[i]) = P
  BY DEF Commit, Overtaken, Puts
<1>2. rows' = (rows \ Those(rows, Ids(P))) \cup P /\ makeups' = makeups
  BY <1>1 DEF Commit
<1>3. \A p \in P : p.status = "approved"
  BY <1>1 DEF Shapes, Fine, Asked
<1>4. Holds(P, After(P, R), makeups)
  BY <1>1 DEF GatesFine, GateFine
<1>5. T = After(P, R)
  BY <1>2, <1>3 DEF After, Those, InReview, Has
<1>6. Appr' = T
  BY DEF Appr
<1>7. Sheet(Appr) /\ Sheet(T)
  <2>1. Proper(rows')
    BY DEF Shapes
  <2>2. Sheet(rows') /\ T \in SUBSET rows'
    BY <2>1, ProperSheet DEF Has
  <2> QED
    BY <2>2, ApprSheet, SheetPart
<1>8. T \subseteq Appr \cup P
  BY <1>2 DEF Appr, Has
<1> HIDE DEF P, R, T
<1>9. Holds(P, T, makeups)
  BY <1>4, <1>5
<1>10. /\ (\A r \in Appr : WeekOf(r, Appr, makeups)) => \A r \in T : WeekOf(r, T, makeups)
       /\ (\A d \in Days : DayOf(d, Appr)) => \A d \in Days : DayOf(d, T)
  BY <1>7, <1>8, <1>9, PutHolds
<1> QED
  BY <1>2, <1>6, <1>10 DEF FitKept, WeeksFit, DaysFit

LEMMA CapsKept ==
  ASSUME Shapes, Shapes', GatesFine, [TimesheetNext]_tsVars, ~Overtaken
  PROVE  FitKept
<1>1. ASSUME rows' = rows, makeups' = makeups PROVE FitKept
  BY <1>1, QuietKept DEF NothingApproved
<1>2. ASSUME NEW i \in Calls, Looks(i) PROVE FitKept
  <2>1. CASE \E q : GateLook(i, q)
    BY <1>1, <2>1 DEF GateLook, Look
  <2>2. CASE \E a, ms : Reject(i, a, ms)
    BY <2>2, RejectApprovesNothing, QuietKept DEF Reject
  <2> QED
    BY <1>2, <2>1, <2>2, LooksFine
<1>3. ASSUME NEW i \in Calls, ApproveRows(i) \/ StaffCorrect(i) \/ Drop(i) PROVE FitKept
  <2>1. rows' = rows /\ makeups' = makeups
    BY <1>3 DEF ApproveRows, StaffCorrect, Drop, Writes
  <2> QED
    BY <1>1, <2>1
<1>4. ASSUME NEW i \in Calls, \/ Generate(i) \/ Insert(i) \/ Edit(i) \/ Delete(i) \/ StaffEdit(i)
                              \/ Adjust(i) \/ Cut(i) \/ Send(i) \/ Declare(i)
      PROVE  FitKept
  <2>1. makeups' = makeups
    BY <1>4, Zenon DEF Generate, Insert, Edit, Delete, StaffEdit, Adjust, Cut, Send, Declare
  <2> QED
    BY <1>4, <2>1, OthersApproveNothing, QuietKept
<1>5. ASSUME NEW i \in Calls, Ends(i) PROVE FitKept
  BY <1>3, <1>4, <1>5, CommitKept, MovedKept DEF Ends
<1>6. ASSUME NEW h, HolidayDelete(h) PROVE FitKept
  BY <1>1, <1>6 DEF HolidayDelete
<1>7. ASSUME NEW mm, CloseMonth(mm) PROVE FitKept
  BY <1>1, <1>7 DEF CloseMonth
<1>8. CASE UNCHANGED tsVars
  BY <1>1, <1>8 DEF tsVars
<1> QED
  BY <1>2, <1>5, <1>6, <1>7, <1>8 DEF TimesheetNext

LEMMA CapsAre == Shapes => (WeekQuotaHeld <=> WeeksFit) /\ (DayPayHeld <=> DaysFit)
<1> SUFFICES ASSUME Shapes PROVE (WeekQuotaHeld <=> WeeksFit) /\ (DayPayHeld <=> DaysFit)
  OBVIOUS
<1>1. Sheet(Appr)
  BY ApprSheet
<1>2. \A r \in Appr : r.asg \in Asgs
  BY <1>1 DEF Sheet, Line, RowSet, Lines
<1>3. ASSUME NEW a \in Asgs, NEW r \in Appr, r.asg = a
      PROVE  (Cap(r) > 0 => WeekHours(r, InReview(OfAsg(Appr, a))) <= Cap(r)) <=> WeekOf(r, Appr, makeups)
  <2>1. {s \in WeekMates(r, InReview(OfAsg(Appr, a))) : ~Landed(s)} = Counted(r, Appr, makeups)
    BY <1>3 DEF Counted, WeekMates, InReview, OfAsg, Has, Landed, LandedAt, Appr
  <2>2. WeekHours(r, InReview(OfAsg(Appr, a))) = Hours(Counted(r, Appr, makeups))
    BY <2>1 DEF WeekHours
  <2>3. Sheet(Counted(r, Appr, makeups))
    BY <1>1, CountedSheet
  <2> QED
    BY <2>2, <2>3, HoursIs DEF WeekOf
<1>4. WeekQuotaHeld <=> WeeksFit
  <2>1. \A a \in Asgs : InReview(OfAsg(Appr, a)) = {r \in Appr : r.asg = a}
    BY DEF InReview, OfAsg, Has, Appr
  <2>2. WeekQuotaHeld <=> \A a \in Asgs : \A r \in InReview(OfAsg(Appr, a)) :
                              Cap(r) > 0 => WeekHours(r, InReview(OfAsg(Appr, a))) <= Cap(r)
    BY DEF WeekQuotaHeld, WeeksHold, Appr
  <2> QED
    BY <1>2, <1>3, <2>1, <2>2 DEF WeeksFit
<1>5. ASSUME NEW d \in Days
      PROVE  Baht({r \in OnDay(Appr, d) : Info[r.asg].regular}) = SumOf(Prices, Regulars(d, Appr))
  <2>1. {r \in OnDay(Appr, d) : Info[r.asg].regular} = Regulars(d, Appr)
    BY DEF OnDay, Regulars
  <2>2. Sheet(Regulars(d, Appr))
    BY <1>1, RegularsSheet
  <2>3. Priced(Regulars(d, Appr)) = Regulars(d, Appr)
    <3>1. \A r \in Regulars(d, Appr) : r \in Priced(Regulars(d, Appr))
      BY <2>2, RegularPriced DEF Regulars
    <3> QED
      BY <3>1 DEF Priced
  <2> QED
    BY <2>1, <2>2, <2>3, BahtIs
<1>6. DayPayHeld <=> DaysFit
  BY <1>5 DEF DayPayHeld, DaysFit, DayOf, Appr
<1> QED
  BY <1>4, <1>6

LEMMA CapsAreNext == Shapes' => ((WeekQuotaHeld <=> WeeksFit) /\ (DayPayHeld <=> DaysFit))'
  BY CapsAre, PTL

LEMMA GatesHold == TimesheetSpec => [](Shapes /\ GatesFine)
<1>1. Shapes /\ GatesFine /\ [TimesheetNext]_tsVars => (Shapes /\ GatesFine)'
  BY ShapesStep, GatesStep
<1> QED
  BY <1>1, ShapesInit, GatesInit, PTL DEF TimesheetSpec

(* However the requests interleave, only a gate overtaken between its look   *)
(* and its commit pushes the approved hours of a week over the quota: what   *)
(* it relied on at its look holds until something in review, or a makeup,    *)
(* changes (recheckCapsForApproval, validateOnBehalfWrite, DeleteMakeup).    *)
THEOREM WeekQuotaIsKept == TimesheetSpec => WeekQuotaKept
<1>1. Shapes /\ GatesFine /\ Shapes' /\ [TimesheetNext]_tsVars
      => [WeekQuotaHeld /\ ~Overtaken => WeekQuotaHeld']_<<rows, makeups>>
  BY CapsKept, CapsAre, CapsAreNext DEF FitKept
<1> QED
  BY <1>1, GatesHold, PTL DEF TimesheetSpec, WeekQuotaKept

(* Nor does anything else push what is approved for a day, over all courses, *)
(* past the day's pay (recheckDailyBahtForApproval, enforceDailyBahtCap).    *)
THEOREM DayPayIsKept == TimesheetSpec => DayPayKept
<1>1. Shapes /\ GatesFine /\ Shapes' /\ [TimesheetNext]_tsVars
      => [DayPayHeld /\ ~Overtaken => DayPayHeld']_<<rows, makeups>>
  BY CapsKept, CapsAre, CapsAreNext DEF FitKept
<1> QED
  BY <1>1, GatesHold, PTL DEF TimesheetSpec, DayPayKept

-----------------------------------------------------------------------------
(* Generating twice.                                                        *)
Open(v, a) == {r \in Own(a) : MonthOf(r) \notin KeptMonths(v, a)}

LEMMA LessonOpen ==
  ASSUME NEW v, NEW a, NEW k \in Turns(Timetable), Lessons(v, a)[k].holds
  PROVE  MonthOf(Lessons(v, a)[k].row) \notin KeptMonths(v, a)
<1> DEFINE d == DayAt(Timetable, k)
           p == SlotAt(Timetable, k)
<1>1. Lessons(v, a)[k] = [row |-> RowOf(v, d, p).row, holds |-> Falls(p, a, d) /\ Happens(v, d, p)]
  BY DEF Lessons
<1> HIDE DEF d, p
<1>2. PICK h : h = (Falls(p, a, d) /\ Happens(v, d, p))
  OBVIOUS
<1>3. Lessons(v, a)[k] = [row |-> RowOf(v, d, p).row, holds |-> h]
  BY <1>1, <1>2, Zenon
<1>4. h /\ Lessons(v, a)[k].row = RowOf(v, d, p).row
  BY <1>3
<1>5. Falls(p, a, d) /\ Happens(v, d, p)
  BY <1>2, <1>4, Zenon
<1>6. p.asg = a /\ MonthOf(RowOf(v, d, p).row) \notin KeptMonths(v, p.asg)
  BY <1>5, Zenon DEF Falls, Happens
<1> QED
  BY <1>4, <1>6

LEMMA GradingOpen ==
  ASSUME NEW v, NEW a, NEW k \in Turns(Duties), Gradings(v, a)[k].holds
  PROVE  MonthOf(Gradings(v, a)[k].row) \notin KeptMonths(v, a)
<1> DEFINE d == DayAt(Duties, k)
           u == SlotAt(Duties, k)
<1>1. Gradings(v, a)[k] = [row |-> DutyRow(d, u), holds |-> Falls(u, a, d) /\ DutyHappens(v, d, u)]
  BY DEF Gradings
<1> HIDE DEF d, u
<1>2. PICK h : h = (Falls(u, a, d) /\ DutyHappens(v, d, u))
  OBVIOUS
<1>3. Gradings(v, a)[k] = [row |-> DutyRow(d, u), holds |-> h]
  BY <1>1, <1>2, Zenon
<1>4. h /\ Gradings(v, a)[k].row = DutyRow(d, u)
  BY <1>3
<1>5. Falls(u, a, d) /\ DutyHappens(v, d, u)
  BY <1>2, <1>4, Zenon
<1>6. u.asg = a /\ Calendar[d].month \notin KeptMonths(v, u.asg)
  BY <1>5, Zenon DEF Falls, DutyHappens
<1>7. MonthOf(DutyRow(d, u)) = Calendar[d].month
  BY DEF MonthOf, DutyRow
<1> QED
  BY <1>4, <1>6, <1>7

LEMMA AdmitOpen ==
  ASSUME NEW v, ViewFine(v), NEW a \in Asgs, NEW base, IsFiniteSet(base), NEW r \in Open(v, a),
         NEW made \in Drafts(a), made \subseteq Open(v, a)
  PROVE  /\ Admit(v, a, base, made, r) \in Drafts(a)
         /\ Admit(v, a, base, made, r) \subseteq Open(v, a)
<1>1. PICK t : t = [r EXCEPT !.to = Fit(v, a, made, r)]
  OBVIOUS
<1>2. PICK k : k = Keep(t, base \cup made)
  OBVIOUS
<1>3. r \in Own(a) /\ MonthOf(r) \notin KeptMonths(v, a)
  BY DEF Open
<1>4. Admit(v, a, base, made, r) \in Drafts(a)
  BY <1>3, AdmitStays
<1>5. \/ Admit(v, a, base, made, r) = made
      \/ Admit(v, a, base, made, r) = made \cup {k} /\ t.from < t.to
  BY <1>1, <1>2 DEF Admit
<1>6. Fit(v, a, made, r) \in Nat /\ r \in RowSet /\ Line(r)
  BY <1>3, FitFine DEF Own
<1>7. t \in RowSet /\ t.day = r.day /\ t.asg = r.asg /\ t.act = r.act
  BY <1>1, <1>6 DEF RowSet, Lines
<1>8. ASSUME t.from < t.to PROVE MonthOf(k) \notin KeptMonths(v, a)
  <2>1. Line(t)
    BY <1>6, <1>7, <1>8 DEF Line
  <2>2. IsFiniteSet(base \cup made)
    BY FS_Union DEF Drafts
  <2>3. k.day = r.day
    BY <1>2, <1>7, <2>1, <2>2, KeepLine
  <2> QED
    BY <1>3, <2>3 DEF MonthOf
<1>9. \A x \in Admit(v, a, base, made, r) : x \in Own(a) /\ MonthOf(x) \notin KeptMonths(v, a)
  BY <1>4, <1>5, <1>8 DEF Drafts, Open
<1> QED
  BY <1>4, <1>9 DEF Open

(* What Generate makes lies in months it may write.                          *)
LEMMA MadeOpen ==
  ASSUME NEW v, ViewFine(v), NEW a \in Asgs, NEW base, IsFiniteSet(base)
  PROVE  Made(v, a, base) \subseteq Open(v, a)
<1>1. Len(Calendar) \in Nat /\ Len(Timetable) \in Nat /\ Len(Duties) \in Nat
  BY TimesheetsAssumption
<1> DEFINE n == Len(Calendar) * Len(Timetable)
           o == Len(Calendar) * Len(Duties)
           half == Filled(v, a, base, {}, Lessons(v, a))
           A == {S \in Drafts(a) : S \subseteq Open(v, a)}
<1>2. n \in Nat /\ o \in Nat
  BY <1>1
<1>3. DOMAIN Lessons(v, a) = 1..n /\ DOMAIN Gradings(v, a) = 1..o
      /\ Turns(Timetable) = 1..n /\ Turns(Duties) = 1..o
  BY DEF Lessons, Gradings, Turns
<1>4. \A k \in 1..n, y \in A : Turn(v, a, base, y, Lessons(v, a)[k]) \in A
  BY <1>3, LessonFine, LessonOpen, AdmitOpen DEF Turn, Open
<1>5. \A k \in 1..o, y \in A : Turn(v, a, base, y, Gradings(v, a)[k]) \in A
  BY <1>3, GradingFine, GradingOpen, AdmitOpen DEF Turn, Open
<1>6. {} \in A
  BY FS_EmptySet DEF Drafts
<1> HIDE DEF n, o, A
<1>7. half \in A
  BY <1>2, <1>3, <1>4, <1>6, FilledStays
<1>8. Made(v, a, base) = Filled(v, a, base, half, Gradings(v, a))
  BY DEF Made
<1> HIDE DEF half
<1>9. Made(v, a, base) \in A
  BY <1>2, <1>3, <1>5, <1>7, <1>8, FilledStays
<1> QED
  BY <1>9 DEF A

(* The same turns make the same rows.                                        *)
LEMMA FilledSame ==
  ASSUME NEW v, NEW w, NEW a, NEW base, NEW C, NEW n \in Nat, DOMAIN C = 1..n, NEW made,
         \A k \in 1..n : \A y : Turn(v, a, base, y, C[k]) = Turn(w, a, base, y, C[k])
  PROVE  Filled(v, a, base, made, C) = Filled(w, a, base, made, C)
<1> DEFINE Step(x, it, s) == IF s = {} THEN made ELSE Turn(x, a, base, it[s \ {Max(s)}], C[Max(s)])
           It(x, it) == it = [s \in SUBSET (1..n) |-> Step(x, it, s)]
<1>1. /\ Filled(v, a, base, made, C) = (CHOOSE it : It(v, it))[1..n]
      /\ Filled(w, a, base, made, C) = (CHOOSE it : It(w, it))[1..n]
  BY DEF Filled, FoldLeft, MapThenFoldSet
<1>2. \A it : \A s \in SUBSET (1..n) : Step(v, it, s) = Step(w, it, s)
  BY PickMax
<1> HIDE DEF Step
<1>3. \A it : It(v, it) <=> It(w, it)
  BY <1>2
<1>4. (CHOOSE it : It(v, it)) = (CHOOSE it : It(w, it))
  BY <1>3, Zenon
<1> QED
  BY <1>1, <1>4

(* What Generate reads of the other rows.                                    *)
Past(v, a)   == {q \in OfAsg(v.rows, a) : q.status # "draft" \/ MonthOf(q) \in KeptMonths(v, a)}
Standing(v, a) == Live(v.rows) \ Wiped(v, a, v.rows)

LEMMA AdmitSame ==
  ASSUME NEW v, NEW w, NEW a, Standing(w, a) = Standing(v, a), Past(w, a) = Past(v, a)
  PROVE  \A base, made, r : Admit(w, a, base, made, r) = Admit(v, a, base, made, r)
<1> SUFFICES ASSUME NEW base, NEW made, NEW r
             PROVE  Admit(w, a, base, made, r) = Admit(v, a, base, made, r)
  OBVIOUS
<1>1. OnDay(Live(w.rows), r.day) \ Wiped(w, a, w.rows) = OnDay(Live(v.rows), r.day) \ Wiped(v, a, v.rows)
  BY DEF Standing, OnDay
<1>2. Fit(w, a, made, r) = Fit(v, a, made, r)
  BY <1>1, Zenon DEF Fit
<1> QED
  BY <1>2, Zenon DEF Admit, Past

LEMMA RowSame ==
  ASSUME NEW v, NEW w, w.makeups = v.makeups
  PROVE  \A d, p : RowOf(w, d, p) = RowOf(v, d, p)
<1> SUFFICES ASSUME NEW d, NEW p PROVE RowOf(w, d, p) = RowOf(v, d, p)
  OBVIOUS
<1>1. Moved(w, p.asg, d, p.kind) = Moved(v, p.asg, d, p.kind)
  BY DEF Moved
<1> QED
  BY <1>1, Zenon DEF RowOf

LEMMA LessonsSame ==
  ASSUME NEW v, NEW w, NEW a, w.makeups = v.makeups, w.holidays = v.holidays,
         KeptMonths(w, a) = KeptMonths(v, a)
  PROVE  Lessons(w, a) = Lessons(v, a) /\ Gradings(w, a) = Gradings(v, a)
<1>1. \A d, p : (Falls(p, a, d) /\ Happens(w, d, p)) = (Falls(p, a, d) /\ Happens(v, d, p))
  <2> SUFFICES ASSUME NEW d, NEW p, p.asg = a PROVE Happens(w, d, p) <=> Happens(v, d, p)
    BY DEF Falls
  <2>1. RowOf(w, d, p) = RowOf(v, d, p) /\ (Waived(w, p.asg, d, p.kind) <=> Waived(v, p.asg, d, p.kind))
    BY RowSame DEF Waived
  <2> QED
    BY <2>1, Zenon DEF Happens
<1>2. \A d, u : (Falls(u, a, d) /\ DutyHappens(w, d, u)) = (Falls(u, a, d) /\ DutyHappens(v, d, u))
  BY DEF Falls, DutyHappens
<1> DEFINE L(x, k) == [row |-> RowOf(x, DayAt(Timetable, k), SlotAt(Timetable, k)).row,
                       holds |-> /\ Falls(SlotAt(Timetable, k), a, DayAt(Timetable, k))
                                 /\ Happens(x, DayAt(Timetable, k), SlotAt(Timetable, k))]
           G(x, k) == [row |-> DutyRow(DayAt(Duties, k), SlotAt(Duties, k)),
                       holds |-> /\ Falls(SlotAt(Duties, k), a, DayAt(Duties, k))
                                 /\ DutyHappens(x, DayAt(Duties, k), SlotAt(Duties, k))]
<1>3. \A k : L(w, k) = L(v, k)
  <2> TAKE k
  <2>1. RowOf(w, DayAt(Timetable, k), SlotAt(Timetable, k)) = RowOf(v, DayAt(Timetable, k), SlotAt(Timetable, k))
    BY RowSame
  <2> QED
    BY <1>1, <2>1, Zenon
<1>4. \A k : G(w, k) = G(v, k)
  BY <1>2, Zenon
<1>5. /\ Lessons(v, a) = [k \in Turns(Timetable) |-> L(v, k)]
      /\ Lessons(w, a) = [k \in Turns(Timetable) |-> L(w, k)]
  BY Zenon DEF Lessons
<1>6. /\ Gradings(v, a) = [k \in Turns(Duties) |-> G(v, k)]
      /\ Gradings(w, a) = [k \in Turns(Duties) |-> G(w, k)]
  BY Zenon DEF Gradings
<1> HIDE DEF L, G
<1> QED
  BY <1>3, <1>4, <1>5, <1>6

LEMMA MadeSame ==
  ASSUME NEW v, NEW w, NEW a, w.makeups = v.makeups, w.holidays = v.holidays,
         KeptMonths(w, a) = KeptMonths(v, a), Standing(w, a) = Standing(v, a), Past(w, a) = Past(v, a)
  PROVE  \A base : Made(w, a, base) = Made(v, a, base)
<1> SUFFICES ASSUME NEW base PROVE Made(w, a, base) = Made(v, a, base)
  OBVIOUS
<1>1. Len(Calendar) \in Nat /\ Len(Timetable) \in Nat /\ Len(Duties) \in Nat
  BY TimesheetsAssumption
<1> DEFINE n == Len(Calendar) * Len(Timetable)
           o == Len(Calendar) * Len(Duties)
<1>2. n \in Nat /\ o \in Nat
  BY <1>1
<1>3. DOMAIN Lessons(v, a) = 1..n /\ DOMAIN Gradings(v, a) = 1..o
  BY DEF Lessons, Gradings, Turns
<1>4. \A y, c : Turn(v, a, base, y, c) = Turn(w, a, base, y, c)
  BY AdmitSame DEF Turn
<1> HIDE DEF n, o
<1>5. PICK C : C = Lessons(v, a)
  OBVIOUS
<1>6. PICK D : D = Gradings(v, a)
  OBVIOUS
<1>7. Filled(v, a, base, {}, C) = Filled(w, a, base, {}, C)
  BY <1>2, <1>3, <1>4, <1>5, FilledSame
<1>8. PICK half : half = Filled(v, a, base, {}, C)
  OBVIOUS
<1>9. Filled(v, a, base, half, D) = Filled(w, a, base, half, D)
  BY <1>2, <1>3, <1>4, <1>6, FilledSame
<1>10. C = Lessons(w, a) /\ D = Gradings(w, a)
  BY <1>5, <1>6, LessonsSame
<1> QED
  BY <1>5, <1>6, <1>7, <1>8, <1>9, <1>10 DEF Made

LEMMA AgainSame ==
  ASSUME NEW v, ViewFine(v), NEW a \in Asgs, NEW w,
         w.makeups = v.makeups, w.holidays = v.holidays, w.closed = v.closed,
         w.rows = Outcome(v, a, v.rows)
  PROVE  Outcome(w, a, w.rows) = w.rows
<1>1. PICK base : base = v.rows \ Wiped(v, a, v.rows)
  OBVIOUS
<1>2. PICK made : made = Made(v, a, base)
  OBVIOUS
<1>3. w.rows = base \cup made
  BY <1>1, <1>2, Zenon DEF Outcome
<1>4. \A r \in made : r.asg = a /\ r.status = "draft" /\ MonthOf(r) \notin KeptMonths(v, a)
  <2>1. IsFiniteSet(base)
    BY <1>1, FS_Subset DEF ViewFine, Sheet
  <2>2. made \subseteq Open(v, a)
    BY <1>2, <2>1, MadeOpen
  <2> QED
    BY <2>2 DEF Open, Own
<1>5. KeptMonths(w, a) = KeptMonths(v, a)
  <2>1. {q \in OfAsg(w.rows, a) : q.status \in {"submitted", "approved", "rejected"}}
        = {q \in OfAsg(v.rows, a) : q.status \in {"submitted", "approved", "rejected"}}
    BY <1>1, <1>3, <1>4 DEF OfAsg, Wiped
  <2> QED
    BY <2>1 DEF KeptMonths
<1>6. \A r \in base : ~(r.asg = a /\ r.status = "draft" /\ MonthOf(r) \notin KeptMonths(v, a))
  BY <1>1 DEF Wiped, OfAsg
<1>7. Wiped(w, a, w.rows) = made
  BY <1>3, <1>4, <1>5, <1>6 DEF Wiped, OfAsg
<1>8. w.rows \ Wiped(w, a, w.rows) = base
  BY <1>3, <1>4, <1>6, <1>7
<1>9. Standing(w, a) = Standing(v, a)
  BY <1>1, <1>8 DEF Standing, Live
<1>10. Past(w, a) = Past(v, a)
  BY <1>1, <1>3, <1>4, <1>5 DEF Past, OfAsg, Wiped
<1>11. Made(w, a, base) = made
  BY <1>2, <1>5, <1>9, <1>10, MadeSame
<1> QED
  BY <1>3, <1>8, <1>11, Zenon DEF Outcome

(* Generating again changes nothing when nothing else changed: what a run    *)
(* wipes is what the run before it wrote, so it reads the same other rows    *)
(* and admits the same candidates (Generate).                                *)
THEOREM RegeneratingIsStable == TimesheetSpec => RegenerationStable
<1>1. ASSUME Shapes, NEW i \in Calls, Undisturbed(i), Generate(i)
      PROVE  Outcome([req[i].view EXCEPT !.rows = rows'], req[i].asg, rows') = rows'
  <2>1. PICK v, a : v = req[i].view /\ a = req[i].asg
    OBVIOUS
  <2>2. rows' = Outcome(v, a, rows) /\ req[i].op = "generate"
    BY <1>1, <2>1, Zenon DEF Generate
  <2>3. v = View
    BY <1>1, <2>1 DEF Undisturbed
  <2>4. ViewFine(v) /\ a \in Asgs
    BY <1>1, <2>1, <2>2 DEF Shapes, Fine, Asked
  <2>5. v.rows = rows
    BY <2>3 DEF View
  <2>6. PICK w : w = [v EXCEPT !.rows = rows']
    OBVIOUS
  <2>7. /\ w.rows = rows' /\ w.makeups = v.makeups
        /\ w.holidays = v.holidays /\ w.closed = v.closed
    BY <2>3, <2>6 DEF View
  <2>8. w.rows = Outcome(v, a, v.rows)
    BY <2>2, <2>5, <2>7
  <2>9. Outcome(w, a, w.rows) = w.rows
    BY <2>4, <2>7, <2>8, AgainSame
  <2> QED
    BY <2>1, <2>6, <2>7, <2>9
<1>2. Shapes => \A i \in Calls : Undisturbed(i) /\ Generate(i) =>
          Outcome([req[i].view EXCEPT !.rows = rows'], req[i].asg, rows') = rows'
  BY <1>1
<1>3. Shapes =>
        [\A i \in Calls : Undisturbed(i) /\ Generate(i) =>
            Outcome([req[i].view EXCEPT !.rows = rows'], req[i].asg, rows') = rows']_tsVars
  BY <1>2, Zenon
<1> QED
  BY <1>3, ShapesInit, ShapesStep, PTL DEF TimesheetSpec, RegenerationStable

-----------------------------------------------------------------------------
(* What Generate adds up to.  A copy of a sitting a special sibling bills is *)
(* let in at no cost: the regular copy, which sets the price once both are   *)
(* sent, must not be the dearer one, as it is for a graduate, who is paid    *)
(* nothing by the hour in a special section.                                 *)
PaidByTheHour == \A a \in Asgs :
    /\ Info[a].rate > 0
    /\ Info[a].regular => \A b \in Asgs : Info[a].group # 0 /\ Info[b].group = Info[a].group
                                          => Info[a].rate <= Info[b].rate

Free(S, q)        == \E s \in S : Copy(q, s)
Old(v, a, d)      == OnDay(Live(v.rows), d) \ Wiped(v, a, v.rows)
Mine(v, a, M, d)  == {q \in OnDay(M, d) : ~Free(Old(v, a, d), q)}
Spent(v, a, M, d) == Baht(Old(v, a, d)) + MapThenSumSet(Paid, Mine(v, a, M, d))
WeekKept(a, K, r) == {q \in WeekMates(r, OfAsg(K, a)) : ~Landed(q)}

DaysPart(a, M)      == \A d \in Days : Hours(OnDay(M, d)) <= Info[a].dayHours
ApartPart(K, M)     == \A r \in M : \A q \in Live(K) \cup M : ~Clash(r, q)
WeeksPart(a, K, M)  == \A r \in M : Cap(r) > 0 =>
                          Hours(WeekKept(a, K, r)) + Hours(WeekMates(r, M)) <= Cap(r)
PayPart(v, a, M)    == \A r \in M : Spent(v, a, M, r.day) <= DayBaht

LEMMA ClashSame ==
  ASSUME NEW r, NEW s, NEW m, NEW n, m # n, Clash(m, n),
         m.asg = r.asg /\ m.day = r.day /\ m.from = r.from /\ m.to = r.to,
         n.asg = s.asg /\ n.day = s.day /\ n.from = s.from /\ n.to = s.to,
         r # s
  PROVE  Clash(r, s)
  BY DEF Clash, Busy, Overlap, Twins

LEMMA ClashSymmetric ==
  ASSUME NEW r, NEW s, Clash(r, s)
  PROVE  Clash(s, r)
  BY DEF Clash, Busy, Overlap, Twins

LEMMA OwnSheet ==
  ASSUME NEW a, NEW M \in Drafts(a)
  PROVE  Sheet(M) /\ \A r \in M : Line(r) /\ r.asg = a /\ r.status = "draft"
  BY DEF Drafts, Own, Sheet

LEMMA SpansJoin ==
  ASSUME NEW S, Sheet(S), NEW t, Line(t)
  PROVE  /\ Sheet(S \cup {t}) /\ Hours(S) \in Nat /\ Hours(S \cup {t}) \in Nat /\ Span(t) \in Nat
         /\ Hours(S \cup {t}) <= Hours(S) + Span(t)
<1>1. Sheet(S \cup {t})
  BY SheetJoin, SheetOne
<1>2. Hours(S) = SumOf(Spans, S) /\ Hours(S) \in Nat
  BY HoursIs
<1>3. Hours(S \cup {t}) = SumOf(Spans, S \cup {t}) /\ Hours(S \cup {t}) \in Nat
  BY <1>1, HoursIs
<1>4. Spans[t] = Span(t) /\ Span(t) \in Nat
  BY LineNumbers
<1>5. CASE t \in S
  <2>1. S \cup {t} = S
    BY <1>5
  <2>2. Hours(S \cup {t}) = Hours(S)
    BY <2>1, Zenon
  <2> QED
    BY <1>1, <1>2, <1>3, <1>4, <2>2
<1>6. CASE t \notin S
  <2>1. (S \cup {t}) \ {t} = S /\ t \in S \cup {t}
    BY <1>6
  <2>2. \A x \in S \cup {t} : Spans[x] \in Nat
    BY <1>1, LineNumbers DEF Sheet
  <2>3. IsFiniteSet(S \cup {t})
    BY <1>1 DEF Sheet
  <2>4. SumOf(Spans, S \cup {t}) = Spans[t] + SumOf(Spans, S)
    BY <2>1, <2>2, <2>3, SumTake
  <2> QED
    BY <1>1, <1>2, <1>3, <1>4, <2>4
<1> QED
  BY <1>5, <1>6

LEMMA PricesJoin ==
  ASSUME NEW S, Sheet(S), NEW t, Line(t)
  PROVE  /\ SumOf(Prices, S) \in Nat /\ SumOf(Prices, S \cup {t}) \in Nat /\ Paid(t) \in Nat
         /\ SumOf(Prices, S \cup {t}) <= SumOf(Prices, S) + Paid(t)
<1>1. Sheet(S \cup {t})
  BY SheetJoin, SheetOne
<1>2. SumOf(Prices, S) \in Nat /\ SumOf(Prices, S \cup {t}) \in Nat
  BY <1>1, PricesAdd
<1>4. Prices[t] = Paid(t) /\ Paid(t) \in Nat
  BY LineNumbers
<1>5. CASE t \in S
  <2>1. S \cup {t} = S
    BY <1>5
  <2>2. SumOf(Prices, S \cup {t}) = SumOf(Prices, S)
    BY <2>1, Zenon
  <2> QED
    BY <1>2, <1>4, <2>2
<1>6. CASE t \notin S
  <2>1. (S \cup {t}) \ {t} = S /\ t \in S \cup {t}
    BY <1>6
  <2>2. \A x \in S \cup {t} : Prices[x] \in Nat
    BY <1>1, LineNumbers DEF Sheet
  <2>3. IsFiniteSet(S \cup {t})
    BY <1>1 DEF Sheet
  <2>4. SumOf(Prices, S \cup {t}) = Prices[t] + SumOf(Prices, S)
    BY <2>1, <2>2, <2>3, SumTake
  <2> QED
    BY <1>2, <1>4, <2>4
<1> QED
  BY <1>5, <1>6

LEMMA HoursPart ==
  ASSUME NEW S, Sheet(S), NEW T \in SUBSET S
  PROVE  Sheet(T) /\ Hours(T) \in Nat /\ Hours(S) \in Nat /\ Hours(T) <= Hours(S)
<1>1. Sheet(T)
  BY SheetPart
<1>2. Hours(T) = SumOf(Spans, T) /\ Hours(S) = SumOf(Spans, S)
  BY <1>1, HoursIs
<1> QED
  BY <1>1, <1>2, SpansAdd

Trimmed(v, a, M, r) == [r EXCEPT !.to = Fit(v, a, M, r)]

(* The row as it is let in: no longer than it was, and paid for.             *)
LEMMA FitSpends ==
  ASSUME PaidByTheHour, NEW v, ViewFine(v), NEW a \in Asgs, NEW made \in Drafts(a), NEW r \in Own(a),
         NEW t, t = Trimmed(v, a, made, r), t.from < t.to
  PROVE  /\ t \in Own(a) /\ t.day = r.day /\ t.act = r.act /\ t.from = r.from /\ t.to <= r.to
         /\ Span(t) <= Span(r) /\ Spent(v, a, made, r.day) \in Nat
         /\ Spent(v, a, made, r.day) + (IF Free(Old(v, a, r.day), t) THEN 0 ELSE Paid(t)) <= DayBaht
<1> DEFINE rate  == Info[a].rate
           old   == Old(v, a, r.day)
           spent == Spent(v, a, made, r.day)
           cost  == IF Free(old, r) THEN 0 ELSE Paid(r)
           room  == (DayBaht - spent) \div rate
           fit   == Fit(v, a, made, r)
<1>1. fit = IF rate = 0 \/ spent + cost <= DayBaht THEN r.to
            ELSE r.from + (IF room < 0 THEN 0 ELSE IF room > Span(r) THEN Span(r) ELSE room)
  <2> DEFINE free(q) == \E s \in old : Twins(q, s) /\ s.day = q.day /\ s.from = q.from /\ s.to = q.to
  <2>1. \A q : free(q) <=> Free(old, q)
    BY DEF Free, Copy
  <2>2. {q \in OnDay(made, r.day) : ~free(q)} = Mine(v, a, made, r.day)
    BY <2>1 DEF Mine
  <2>3. Fit(v, a, made, r) =
           IF rate = 0 \/ (Baht(old) + MapThenSumSet(Paid, {q \in OnDay(made, r.day) : ~free(q)}))
                           + (IF free(r) THEN 0 ELSE Paid(r)) <= DayBaht THEN r.to
           ELSE LET rm == (DayBaht - (Baht(old) + MapThenSumSet(Paid, {q \in OnDay(made, r.day) : ~free(q)})))
                             \div rate
                IN  r.from + (IF rm < 0 THEN 0 ELSE IF rm > Span(r) THEN Span(r) ELSE rm)
    BY DEF Fit, Old
  <2>4. (IF free(r) THEN 0 ELSE Paid(r)) = cost
    BY <2>1
  <2> HIDE DEF free, old
  <2> QED
    BY <2>2, <2>3, <2>4 DEF Spent, old
<1>2. old \in SUBSET v.rows
  BY DEF Old, OnDay, Live
<1>3. Baht(old) \in Nat
  BY <1>2, SheetPart, BahtIs DEF ViewFine
<1>4. Sheet(made) /\ Mine(v, a, made, r.day) \in SUBSET made
  BY OwnSheet DEF Mine, OnDay
<1>5. spent \in Nat
  BY <1>3, <1>4, SheetPart, PriceIs DEF Spent
<1>6. rate \in Nat \ {0} /\ DayBaht \in Nat
  BY TimesheetsAssumption DEF PaidByTheHour
<1>7. r \in RowSet /\ Line(r) /\ r.asg = a /\ r.status = "draft" /\ r.auto = TRUE
  BY DEF Own
<1>8. r.from \in Nat /\ r.to \in Nat /\ r.from < r.to /\ Span(r) \in Nat /\ Span(r) = r.to - r.from
      /\ Paid(r) \in Nat
  BY <1>7, LineNumbers DEF Span
<1>9. fit \in Nat
  BY FitFine
<1> HIDE DEF fit
<1>10. /\ t \in RowSet /\ t.day = r.day /\ t.act = r.act /\ t.from = r.from /\ t.to = fit
       /\ t.id = r.id /\ t.asg = a /\ t.status = "draft" /\ t.auto = TRUE
  BY <1>7, <1>9 DEF RowSet, Lines, Trimmed, fit
<1>11. t \in Own(a)
  BY <1>7, <1>10 DEF Own, Line
<1>12. Span(t) = fit - r.from /\ Paid(t) = (fit - r.from) * rate /\ Paid(t) \in Nat
  BY <1>10, <1>11, LineNumbers DEF Span, Paid, Own
<1> HIDE DEF spent, rate, old
<1>13. CASE spent + cost <= DayBaht
  <2>1. fit = r.to
    BY <1>1, <1>13
  <2>2. t = r
    BY <1>7, <1>10, <2>1 DEF RowSet, Lines
  <2>3. spent + (IF Free(old, t) THEN 0 ELSE Paid(t)) <= DayBaht
    BY <1>13, <2>2
  <2>4. t.to <= r.to /\ Span(t) <= Span(r)
    BY <1>8, <1>10, <1>12, <2>1
  <2> QED
    BY <1>5, <1>10, <1>11, <2>3, <2>4 DEF old, spent
<1>14. CASE ~(spent + cost <= DayBaht)
  <2>1. PICK x : x = DayBaht - spent
    OBVIOUS
  <2>2. PICK rm : rm = x \div rate
    OBVIOUS
  <2>3. x \in Int
    BY <1>5, <1>6, <2>1
  <2>4. rm \in Int /\ rate * rm <= x
    BY <1>6, <2>2, <2>3
  <2>5. fit = r.from + (IF rm < 0 THEN 0 ELSE IF rm > Span(r) THEN Span(r) ELSE rm)
    BY <1>1, <1>6, <1>14, <2>1, <2>2
  <2>6. PICK n : n = fit - r.from
    OBVIOUS
  <2>7. n \in Nat /\ n <= Span(r) /\ n <= rm /\ 0 < n
    BY <1>8, <1>9, <1>10, <2>4, <2>5, <2>6
  <2>8. n * rate <= rate * rm
    <3>1. \A i \in Nat, j \in Int, k \in Nat : i <= j => i * k <= k * j
      OBVIOUS
    <3> QED
      BY <1>6, <2>4, <2>7, <3>1
  <2>9. Paid(t) <= x
    BY <1>6, <1>12, <2>3, <2>4, <2>6, <2>7, <2>8
  <2>10. fit <= r.to /\ Span(t) <= Span(r)
    BY <1>8, <1>9, <1>12, <2>6, <2>7
  <2>11. spent + Paid(t) <= DayBaht /\ spent <= DayBaht
    BY <1>5, <1>6, <1>12, <2>1, <2>9
  <2> QED
    BY <1>5, <1>10, <1>11, <2>10, <2>11 DEF old, spent
<1> QED
  BY <1>13, <1>14

(* One row more keeps each limit.                                            *)
LEMMA DaysPartKept ==
  ASSUME NEW a \in Asgs, NEW M \in Drafts(a), DaysPart(a, M), NEW r \in Own(a), NEW t \in Own(a),
         t.day = r.day, Span(t) <= Span(r), Hours(OnDay(M, r.day)) + Span(r) <= Info[a].dayHours
  PROVE  DaysPart(a, M \cup {t})
<1> SUFFICES ASSUME NEW d \in Days PROVE Hours(OnDay(M \cup {t}, d)) <= Info[a].dayHours
  BY DEF DaysPart
<1>1. Hours(OnDay(M, d)) <= Info[a].dayHours
  BY DEF DaysPart
<1>2. CASE t.day # d
  <2>1. OnDay(M \cup {t}, d) = OnDay(M, d)
    BY <1>2 DEF OnDay
  <2> QED
    BY <1>1, <2>1
<1>3. CASE t.day = d
  <2>1. PICK D : D = OnDay(M, d)
    OBVIOUS
  <2>2. OnDay(M \cup {t}, d) = D \cup {t}
    BY <1>3, <2>1 DEF OnDay
  <2>3. Sheet(D)
    BY <2>1, OwnSheet, SheetPart DEF OnDay
  <2>4. Line(t) /\ Line(r)
    BY DEF Own
  <2>5. Hours(D) \in Nat /\ Hours(D \cup {t}) \in Nat /\ Span(t) \in Nat
        /\ Hours(D \cup {t}) <= Hours(D) + Span(t)
    BY <2>3, <2>4, SpansJoin
  <2>6. Span(r) \in Nat /\ Info[a].dayHours \in Nat
    BY <2>4, LineNumbers, TimesheetsAssumption
  <2>7. Hours(D) + Span(r) <= Info[a].dayHours
    BY <1>3, <2>1
  <2>8. Hours(D \cup {t}) <= Info[a].dayHours
    BY <2>5, <2>6, <2>7
  <2> QED
    BY <2>2, <2>8, Zenon
<1> QED
  BY <1>2, <1>3

LEMMA ApartPartKept ==
  ASSUME NEW a, NEW K, Sheet(K), NEW M \in Drafts(a), ApartPart(K, M), NEW r \in Own(a), NEW t \in Own(a),
         t.day = r.day, t.from = r.from, t.to <= r.to,
         \A q \in Live(K) \cup M : ~Busy(r, q)
  PROVE  ApartPart(K, M \cup {t})
<1>1. t.asg = a /\ r.asg = a /\ t.to \in Nat /\ r.to \in Nat /\ r.from \in Nat
  BY DEF Own, RowSet, Lines
<1>2. \A q \in Live(K) \cup M : q.from \in Nat /\ q.to \in Nat
  BY DEF Drafts, Own, RowSet, Lines, Sheet, Line, Live
<1>3. \A q \in Live(K) \cup M : Overlap(t, q) => Overlap(r, q)
  BY <1>1, <1>2 DEF Overlap
<1>4. \A q : Twins(t, q) <=> Twins(r, q)
  BY <1>1 DEF Twins
<1>5. \A q \in Live(K) \cup M : ~Clash(t, q) /\ ~Clash(q, t)
  BY <1>3, <1>4, ClashSymmetric DEF Clash, Busy
<1>6. ~Clash(t, t)
  BY DEF Clash
<1> QED
  BY <1>5, <1>6 DEF ApartPart

LEMMA WeeksPartKept ==
  ASSUME NEW a \in Asgs, NEW K, Sheet(K), NEW M \in Drafts(a), WeeksPart(a, K, M), NEW r \in Own(a),
         NEW t \in Own(a), t.day = r.day, t.act = r.act,
         Cap(r) > 0 => Hours(WeekKept(a, K, r)) + Hours(WeekMates(r, M)) + Span(t) <= Cap(r)
  PROVE  WeeksPart(a, K, M \cup {t})
<1> SUFFICES ASSUME NEW x \in M \cup {t}, Cap(x) > 0
             PROVE  Hours(WeekKept(a, K, x)) + Hours(WeekMates(x, M \cup {t})) <= Cap(x)
  BY DEF WeeksPart
<1>1. t.asg = a /\ r.asg = a /\ x.asg = a /\ Line(t) /\ Line(r) /\ Line(x)
  BY DEF Own, Drafts
<1>2. Pool(t) = Pool(r)
  BY <1>1 DEF Pool
<1>3. CASE Pool(x) = Pool(t) /\ Calendar[x.day].week = Calendar[t.day].week
  <2>1. /\ WeekMates(x, M \cup {t}) = WeekMates(r, M) \cup {t}
        /\ WeekKept(a, K, x) = WeekKept(a, K, r)
    BY <1>1, <1>2, <1>3 DEF WeekMates, WeekKept, OfAsg
  <2>2. Cap(x) = Cap(r)
    BY <1>1, <1>2, <1>3, CapSame
  <2>3. PICK W : W = WeekMates(r, M)
    OBVIOUS
  <2>4. Sheet(W)
    BY <2>3, OwnSheet, SheetPart DEF WeekMates
  <2>5. Hours(W) \in Nat /\ Hours(W \cup {t}) \in Nat /\ Span(t) \in Nat
        /\ Hours(W \cup {t}) <= Hours(W) + Span(t)
    BY <1>1, <2>4, SpansJoin
  <2>6. PICK k : k = Hours(WeekKept(a, K, r))
    OBVIOUS
  <2>7. k \in Nat
    BY <2>6, HoursPart DEF WeekKept, WeekMates, OfAsg
  <2>8. Cap(r) \in Nat
    BY <1>1, LineNumbers
  <2>9. k + Hours(W) + Span(t) <= Cap(r)
    BY <2>2, <2>3, <2>6
  <2>10. k + Hours(W \cup {t}) <= Cap(r)
    BY <2>5, <2>7, <2>8, <2>9
  <2> QED
    BY <2>1, <2>2, <2>3, <2>6, <2>10
<1>4. CASE ~(Pool(x) = Pool(t) /\ Calendar[x.day].week = Calendar[t.day].week)
  <2>1. WeekMates(x, M \cup {t}) = WeekMates(x, M)
    BY <1>4 DEF WeekMates
  <2>2. x \in M
    BY <1>4
  <2> QED
    BY <2>1, <2>2 DEF WeeksPart
<1> QED
  BY <1>3, <1>4

LEMMA PayPartKept ==
  ASSUME NEW v, ViewFine(v), NEW a \in Asgs, NEW M \in Drafts(a), PayPart(v, a, M), NEW t \in Own(a),
         Spent(v, a, M, t.day) + (IF Free(Old(v, a, t.day), t) THEN 0 ELSE Paid(t)) <= DayBaht
  PROVE  PayPart(v, a, M \cup {t})
<1> SUFFICES ASSUME NEW x \in M \cup {t} PROVE Spent(v, a, M \cup {t}, x.day) <= DayBaht
  BY DEF PayPart
<1> DEFINE d == t.day
<1>1. CASE x.day # d
  <2>1. Mine(v, a, M \cup {t}, x.day) = Mine(v, a, M, x.day)
    BY <1>1 DEF Mine, OnDay
  <2>2. x \in M
    BY <1>1
  <2> QED
    BY <2>1, <2>2 DEF PayPart, Spent
<1>2. CASE x.day = d
  <2>1. PICK S : S = Mine(v, a, M, d)
    OBVIOUS
  <2>2. Sheet(S)
    BY <2>1, OwnSheet, SheetPart DEF Mine, OnDay
  <2>3. Line(t)
    BY DEF Own
  <2>4. PICK b : b = Baht(Old(v, a, d))
    OBVIOUS
  <2>5. b \in Nat
    <3>1. Sheet(Old(v, a, d))
      BY SheetPart DEF Old, OnDay, Live, ViewFine
    <3> QED
      BY <2>4, <3>1, BahtIs
  <2>6. DayBaht \in Nat
    BY TimesheetsAssumption
  <2>7. MapThenSumSet(Paid, S) = SumOf(Prices, S) /\ SumOf(Prices, S) \in Nat
    BY <2>2, PriceIs
  <2>8. CASE Free(Old(v, a, d), t)
    <3>1. Mine(v, a, M \cup {t}, d) = S
      BY <2>1, <2>8 DEF Mine, OnDay
    <3>2. b + SumOf(Prices, S) + 0 <= DayBaht
      BY <2>1, <2>4, <2>7, <2>8 DEF Spent
    <3> QED
      BY <1>2, <2>4, <2>5, <2>6, <2>7, <3>1, <3>2 DEF Spent
  <2>9. CASE ~Free(Old(v, a, d), t)
    <3>1. Mine(v, a, M \cup {t}, d) = S \cup {t}
      BY <2>1, <2>9 DEF Mine, OnDay
    <3>2. b + SumOf(Prices, S) + Paid(t) <= DayBaht
      BY <2>1, <2>4, <2>7, <2>9 DEF Spent
    <3>3. /\ SumOf(Prices, S \cup {t}) \in Nat /\ Paid(t) \in Nat
          /\ SumOf(Prices, S \cup {t}) <= SumOf(Prices, S) + Paid(t)
      BY <2>2, <2>3, PricesJoin
    <3>4. Sheet(S \cup {t})
      BY <2>2, <2>3, SheetJoin, SheetOne
    <3>5. MapThenSumSet(Paid, S \cup {t}) = SumOf(Prices, S \cup {t})
      BY <3>4, PriceIs
    <3>6. b + SumOf(Prices, S \cup {t}) <= DayBaht
      BY <2>5, <2>6, <2>7, <3>2, <3>3
    <3> QED
      BY <1>2, <2>4, <3>1, <3>5, <3>6 DEF Spent
  <2> QED
    BY <2>8, <2>9
<1> QED
  BY <1>1, <1>2

Fitting(v, a, K) == {M \in Drafts(a) : /\ M \subseteq Open(v, a)
                                       /\ DaysPart(a, M) /\ ApartPart(K, M)
                                       /\ WeeksPart(a, K, M) /\ PayPart(v, a, M)}

LEMMA AdmitFits ==
  ASSUME PaidByTheHour, NEW v, ViewFine(v), NEW a \in Asgs, NEW K, Sheet(K),
         NEW M \in Fitting(v, a, K), NEW r \in Open(v, a)
  PROVE  Admit(v, a, K, M, r) \in Fitting(v, a, K)
<1>1. PICK t : t = Trimmed(v, a, M, r)
  OBVIOUS
<1>2. PICK k : k = Keep(t, K \cup M)
  OBVIOUS
<1>3. M \in Drafts(a) /\ M \subseteq Open(v, a) /\ r \in Own(a) /\ IsFiniteSet(K)
  BY DEF Fitting, Open, Sheet
<1>4. Admit(v, a, K, M, r) \in Drafts(a) /\ Admit(v, a, K, M, r) \subseteq Open(v, a)
  BY <1>3, AdmitOpen
<1>5. CASE Admit(v, a, K, M, r) = M
  BY <1>5
<1>6. CASE Admit(v, a, K, M, r) # M
  <2>1. /\ Admit(v, a, K, M, r) = M \cup {k}
        /\ Hours(OnDay(M, r.day)) + Span(r) <= Info[a].dayHours
        /\ \A q \in Live(K) \cup M : ~Busy(r, q)
        /\ t.from < t.to
        /\ Cap(r) > 0 => Hours(WeekKept(a, K, r)) + Hours(WeekMates(r, M)) + Span(t) <= Cap(r)
    BY <1>1, <1>2, <1>6 DEF Admit, WeekKept, Trimmed
  <2>2. /\ t \in Own(a) /\ t.day = r.day /\ t.act = r.act /\ t.from = r.from /\ t.to <= r.to
        /\ Span(t) <= Span(r)
        /\ Spent(v, a, M, r.day) + (IF Free(Old(v, a, r.day), t) THEN 0 ELSE Paid(t)) <= DayBaht
    BY <1>1, <1>3, <2>1, FitSpends
  <2>3. IsFiniteSet(K \cup M)
    BY <1>3, FS_Union DEF Drafts
  <2>4. /\ Line(k) /\ k.asg = t.asg /\ k.day = t.day /\ k.act = t.act /\ k.from = t.from
        /\ k.to = t.to /\ k.status = t.status /\ k.auto = t.auto
    BY <1>2, <2>2, <2>3, KeepLine DEF Own
  <2>5. k \in Own(a) /\ k.day = r.day /\ k.act = r.act /\ k.from = r.from /\ k.to <= r.to
    BY <2>2, <2>4 DEF Own, Line
  <2>6. Span(k) = Span(t) /\ Paid(k) = Paid(t) /\ (Free(Old(v, a, r.day), k) <=> Free(Old(v, a, r.day), t))
    BY <2>4 DEF Span, Paid, Free, Copy, Twins
  <2>7. Spent(v, a, M, k.day) + (IF Free(Old(v, a, k.day), k) THEN 0 ELSE Paid(k)) <= DayBaht
    BY <2>2, <2>5, <2>6
  <2>8. DaysPart(a, M \cup {k})
    BY <1>3, <2>1, <2>2, <2>5, <2>6, DaysPartKept DEF Fitting
  <2>9. ApartPart(K, M \cup {k})
    BY <1>3, <2>1, <2>5, ApartPartKept DEF Fitting
  <2>10. WeeksPart(a, K, M \cup {k})
    BY <1>3, <2>1, <2>5, <2>6, WeeksPartKept DEF Fitting
  <2>11. PayPart(v, a, M \cup {k})
    BY <1>3, <2>5, <2>7, PayPartKept DEF Fitting
  <2> QED
    BY <1>4, <2>1, <2>8, <2>9, <2>10, <2>11 DEF Fitting
<1> QED
  BY <1>5, <1>6

LEMMA NoneFits ==
  ASSUME NEW v, NEW a \in Asgs, NEW K
  PROVE  {} \in Fitting(v, a, K)
<1>1. {} \in Drafts(a)
  BY FS_EmptySet DEF Drafts
<1>2. Sheet({})
  BY FS_EmptySet DEF Sheet
<1>3. Hours({}) = 0
  BY <1>2, HoursIs, SumEmpty
<1>4. \A d : OnDay({}, d) = {}
  BY DEF OnDay
<1>5. DaysPart(a, {})
  <2>1. Info[a].dayHours \in Nat
    BY TimesheetsAssumption
  <2> QED
    BY <1>3, <1>4, <2>1 DEF DaysPart
<1> QED
  BY <1>1, <1>5 DEF Fitting, ApartPart, WeeksPart, PayPart

(* Everything Generate makes fits what it read and what it makes.            *)
LEMMA MadeFits ==
  ASSUME PaidByTheHour, NEW v, ViewFine(v), NEW a \in Asgs, NEW K, Sheet(K)
  PROVE  Made(v, a, K) \in Fitting(v, a, K)
<1>1. Len(Calendar) \in Nat /\ Len(Timetable) \in Nat /\ Len(Duties) \in Nat
  BY TimesheetsAssumption
<1> DEFINE n == Len(Calendar) * Len(Timetable)
           o == Len(Calendar) * Len(Duties)
           half == Filled(v, a, K, {}, Lessons(v, a))
<1>2. n \in Nat /\ o \in Nat
  BY <1>1
<1>3. DOMAIN Lessons(v, a) = 1..n /\ DOMAIN Gradings(v, a) = 1..o
      /\ Turns(Timetable) = 1..n /\ Turns(Duties) = 1..o
  BY DEF Lessons, Gradings, Turns
<1>4. \A k \in 1..n, y \in Fitting(v, a, K) : Turn(v, a, K, y, Lessons(v, a)[k]) \in Fitting(v, a, K)
  BY <1>3, LessonFine, LessonOpen, AdmitFits DEF Turn, Open
<1>5. \A k \in 1..o, y \in Fitting(v, a, K) : Turn(v, a, K, y, Gradings(v, a)[k]) \in Fitting(v, a, K)
  BY <1>3, GradingFine, GradingOpen, AdmitFits DEF Turn, Open
<1>6. {} \in Fitting(v, a, K)
  BY NoneFits
<1> HIDE DEF n, o
<1>7. half \in Fitting(v, a, K)
  BY <1>2, <1>3, <1>4, <1>6, FilledStays
<1>8. Made(v, a, K) = Filled(v, a, K, half, Gradings(v, a))
  BY DEF Made
<1> HIDE DEF half
<1> QED
  BY <1>2, <1>3, <1>5, <1>7, <1>8, FilledStays

-----------------------------------------------------------------------------
(* Everything the TA holds, sent.                                            *)
Sending == [r \in RowSet |-> IF r.status = "draft" THEN [r EXCEPT !.status = "submitted"] ELSE r]
Over(S) == {Sending[r] : r \in S}

LEMMA SendingSame ==
  ASSUME NEW r, Line(r)
  PROVE  /\ Line(Sending[r])
         /\ Sending[r].asg = r.asg /\ Sending[r].day = r.day /\ Sending[r].act = r.act
         /\ Sending[r].auto = r.auto /\ Sending[r].from = r.from /\ Sending[r].to = r.to
         /\ Sending[r].status = (IF r.status = "draft" THEN "submitted" ELSE r.status)
         /\ r.status # "draft" => Sending[r] = r
         /\ Pool(Sending[r]) = Pool(r) /\ Cap(Sending[r]) = Cap(r)
         /\ Landed(Sending[r]) <=> Landed(r)
         /\ Spans[Sending[r]] = Spans[r] /\ Prices[Sending[r]] = Prices[r]
<1>1. r \in RowSet
  BY DEF Line
<1>2. PICK x : x = Sending[r]
  OBVIOUS
<1>3. CASE r.status = "draft"
  <2>1. x = [r EXCEPT !.status = "submitted"]
    BY <1>1, <1>2, <1>3 DEF Sending
  <2>2. /\ Line(x) /\ x.status = "submitted" /\ x.asg = r.asg /\ x.day = r.day
        /\ x.act = r.act /\ x.auto = r.auto /\ x.from = r.from /\ x.to = r.to
    BY <2>1, MarkedLine DEF Statuses
  <2>3. Pool(x) = Pool(r) /\ Cap(x) = Cap(r)
    BY <2>2 DEF Pool, Cap
  <2>4. Landed(x) <=> Landed(r)
    BY <2>2 DEF Landed
  <2>5. Span(x) = Span(r) /\ Paid(x) = Paid(r)
    BY <2>2 DEF Span, Paid
  <2>6. Spans[x] = Spans[r] /\ Prices[x] = Prices[r]
    BY <2>2, <2>5, LineNumbers
  <2> QED
    BY <1>2, <1>3, <2>2, <2>3, <2>4, <2>6
<1>4. CASE r.status # "draft"
  BY <1>1, <1>4 DEF Sending
<1> QED
  BY <1>3, <1>4

LEMMA AsSentIs ==
  ASSUME NEW S, Sheet(S)
  PROVE  AsSent(S) = Over(S)
<1>1. \A r \in S : Sending[r] = IF r.status = "draft" THEN [r EXCEPT !.status = "submitted"] ELSE r
  BY DEF Sheet, Line, Sending
<1> QED
  BY <1>1, Zenon DEF AsSent, Over

LEMMA OverSheet ==
  ASSUME NEW S, Sheet(S)
  PROVE  Sheet(Over(S))
<1>1. IsFiniteSet(Over(S))
  BY ImageFinite DEF Sheet, Over
<1>2. \A x \in Over(S) : Line(x)
  BY SendingSame DEF Over, Sheet
<1> QED
  BY <1>1, <1>2 DEF Sheet

LEMMA OverHours ==
  ASSUME NEW S, Sheet(S), NEW T \in SUBSET Over(S)
  PROVE  Sheet(T) /\ Hours(T) \in Nat /\ Hours(S) \in Nat /\ Hours(T) <= Hours(S)
<1>1. Sheet(Over(S))
  BY OverSheet
<1>2. Sheet(T) /\ Hours(T) \in Nat /\ Hours(T) <= Hours(Over(S)) /\ Hours(Over(S)) \in Nat
  BY <1>1, HoursPart
<1>3. Hours(S) = SumOf(Spans, S) /\ Hours(S) \in Nat /\ Hours(Over(S)) = SumOf(Spans, Over(S))
  BY <1>1, HoursIs
<1>4. \A x \in S : Spans[x] \in Nat /\ Spans[Sending[x]] \in Nat /\ Spans[Sending[x]] <= Spans[x]
  BY SendingSame, LineNumbers DEF Sheet
<1>5. IsFiniteSet(S)
  BY DEF Sheet
<1>6. SumOf(Spans, Over(S)) <= SumOf(Spans, S)
  BY <1>4, <1>5, SumImageLeq DEF Over
<1> QED
  BY <1>2, <1>3, <1>6

LEMMA HoursUnion ==
  ASSUME NEW S, NEW T, Sheet(S), Sheet(T)
  PROVE  /\ Sheet(S \cup T) /\ Hours(S \cup T) \in Nat /\ Hours(S) \in Nat /\ Hours(T) \in Nat
         /\ Hours(S \cup T) <= Hours(S) + Hours(T)
<1>1. PICK U : U = S \cup T
  OBVIOUS
<1>2. Sheet(U)
  BY <1>1, SheetJoin
<1>3. U \ S \in SUBSET T /\ S \in SUBSET U
  BY <1>1
<1>4. /\ Hours(S) = SumOf(Spans, S) /\ Hours(T) = SumOf(Spans, T) /\ Hours(U) = SumOf(Spans, U)
      /\ Hours(S) \in Nat /\ Hours(T) \in Nat /\ Hours(U) \in Nat
  BY <1>2, HoursIs
<1>5. SumOf(Spans, U \ S) <= SumOf(Spans, T) /\ SumOf(Spans, U \ S) \in Nat
  BY <1>3, SpansAdd
<1>6. \A x \in U : Spans[x] \in Nat
  BY <1>2, LineNumbers DEF Sheet
<1>7. IsFiniteSet(U)
  BY <1>2 DEF Sheet
<1>8. SumOf(Spans, U) = SumOf(Spans, S) + SumOf(Spans, U \ S)
  BY <1>3, <1>6, <1>7, SumSplit
<1>9. Hours(U) <= Hours(S) + Hours(T)
  BY <1>4, <1>5, <1>8
<1> QED
  BY <1>1, <1>2, <1>4, <1>9

(* What stays of the assignment's own rows lies in months Generate leaves.   *)
Stays(v, a) == v.rows \ Wiped(v, a, v.rows)

LEMMA StaysKept ==
  ASSUME NEW v, ViewFine(v), NEW a, NEW K, K = Stays(v, a)
  PROVE  /\ Sheet(K)
         /\ \A k \in K : k.asg = a => MonthOf(k) \in KeptMonths(v, a)
<1>1. Sheet(K)
  BY SheetPart DEF ViewFine, Stays
<1>2. ASSUME NEW k \in K, k.asg = a, MonthOf(k) \notin KeptMonths(v, a)
      PROVE  FALSE
  <2>1. k \in OfAsg(v.rows, a) /\ k.status # "draft"
    BY <1>2 DEF Stays, Wiped, OfAsg
  <2>2. k.status \in {"submitted", "approved", "rejected"}
    BY <1>1, <1>2, <2>1 DEF Sheet, Line, RowSet, Lines, Statuses
  <2> QED
    BY <1>2, <2>1, <2>2 DEF KeptMonths
<1> QED
  BY <1>1, <1>2

LEMMA ApprovedApart ==
  ASSUME NEW v, NEW a, NEW K, Sheet(K), NEW M \in Fitting(v, a, K)
  PROVE  NotApprovedTwice(Over(M), Over(K \cup M))
<1>1. Sheet(M) /\ M \in Drafts(a)
  BY OwnSheet DEF Fitting
<1> SUFFICES ASSUME NEW c \in Over(M), NEW o \in Over(K \cup M), o.status = "approved", Clash(c, o)
             PROVE  FALSE
  BY DEF NotApprovedTwice, Has
<1>2. PICK r \in M : c = Sending[r]
  BY DEF Over
<1>3. PICK q \in K \cup M : o = Sending[q]
  BY DEF Over
<1>4. Line(r) /\ Line(q) /\ r.status = "draft"
  BY <1>1, OwnSheet DEF Sheet
<1>5. q.status = "approved" /\ o = q
  BY <1>3, <1>4, SendingSame
<1>6. q \in Live(K) /\ r # q
  BY <1>1, <1>3, <1>4, <1>5, OwnSheet DEF Live
<1>7. c # o /\ c.asg = r.asg /\ c.day = r.day /\ c.from = r.from /\ c.to = r.to
  BY <1>2, <1>4, SendingSame DEF Clash
<1>8. Clash(r, q)
  BY <1>5, <1>6, <1>7, ClashSame
<1> QED
  BY <1>6, <1>8 DEF Fitting, ApartPart

LEMMA SentDays ==
  ASSUME NEW v, ViewFine(v), NEW a \in Asgs, NEW K, K = Stays(v, a), NEW M \in Fitting(v, a, K),
         DayHoursHold(a, Over(K))
  PROVE  DayHoursHold(a, Over(K \cup M))
<1>1. Sheet(M) /\ M \in Drafts(a) /\ DaysPart(a, M) /\ M \subseteq Open(v, a)
  BY OwnSheet DEF Fitting
<1>2. Sheet(K) /\ \A k \in K : k.asg = a => MonthOf(k) \in KeptMonths(v, a)
  BY StaysKept
<1>3. \A x \in K \cup M : Line(x)
  BY <1>1, <1>2 DEF Sheet
<1> SUFFICES ASSUME NEW d \in Days
             PROVE  Hours(OnDay(InReview(OfAsg(Over(K \cup M), a)), d)) <= Info[a].dayHours
  BY DEF DayHoursHold
<1>4. PICK T : T = OnDay(InReview(OfAsg(Over(K \cup M), a)), d)
  OBVIOUS
<1>5. \A t \in T : \E x \in K \cup M : t = Sending[x] /\ x.asg = a /\ x.day = d
  BY <1>3, <1>4, SendingSame DEF OnDay, InReview, Has, OfAsg, Over
<1>6. CASE \E r \in M : r.day = d
  <2>1. \A x \in K : ~(x.asg = a /\ x.day = d)
    BY <1>1, <1>2, <1>6 DEF Open, MonthOf
  <2>2. PICK D : D = OnDay(M, d)
    OBVIOUS
  <2>3. T \in SUBSET Over(D)
    BY <1>5, <2>1, <2>2 DEF Over, OnDay
  <2>4. Sheet(D)
    BY <1>1, <2>2, SheetPart DEF OnDay
  <2>5. Hours(T) \in Nat /\ Hours(D) \in Nat /\ Hours(T) <= Hours(D)
    BY <2>3, <2>4, OverHours
  <2>6. Hours(D) <= Info[a].dayHours
    BY <1>1, <2>2 DEF DaysPart
  <2>7. Info[a].dayHours \in Nat
    BY TimesheetsAssumption
  <2>8. Hours(T) <= Info[a].dayHours
    BY <2>5, <2>6, <2>7
  <2> QED
    BY <1>4, <2>8, Zenon
<1>7. CASE ~\E r \in M : r.day = d
  <2>1. OnDay(InReview(OfAsg(Over(K \cup M), a)), d) \subseteq OnDay(InReview(OfAsg(Over(K), a)), d)
    BY <1>4, <1>5, <1>7 DEF OnDay, InReview, Has, OfAsg, Over
  <2>2. OnDay(InReview(OfAsg(Over(K), a)), d) \subseteq OnDay(InReview(OfAsg(Over(K \cup M), a)), d)
    BY DEF OnDay, InReview, Has, OfAsg, Over
  <2>3. OnDay(InReview(OfAsg(Over(K \cup M), a)), d) = OnDay(InReview(OfAsg(Over(K), a)), d)
    BY <2>1, <2>2
  <2> QED
    BY <2>3, Zenon DEF DayHoursHold
<1> QED
  BY <1>6, <1>7

LEMMA SentWeeks ==
  ASSUME NEW v, NEW a \in Asgs, NEW K, Sheet(K), NEW M \in Fitting(v, a, K),
         WeeksHold(a, Over(K))
  PROVE  WeeksHold(a, Over(K \cup M))
<1>1. Sheet(M) /\ M \in Drafts(a) /\ WeeksPart(a, K, M) /\ \A r \in M : Line(r) /\ r.asg = a
  BY OwnSheet DEF Fitting
<1>2. \A x \in K \cup M : Line(x)
  BY <1>1 DEF Sheet
<1> DEFINE Rev == InReview(OfAsg(Over(K \cup M), a))
           RevK == InReview(OfAsg(Over(K), a))
<1> SUFFICES ASSUME NEW w \in Rev, Cap(w) > 0
             PROVE  WeekHours(w, Rev) <= Cap(w)
  BY DEF WeeksHold
<1>3. PICK W : W = {s \in WeekMates(w, Rev) : ~Landed(s)}
  OBVIOUS
<1>4. WeekHours(w, Rev) = Hours(W)
  BY <1>3, Zenon DEF WeekHours
<1>5. \A s \in W : /\ s.asg = w.asg /\ Pool(s) = Pool(w) /\ ~Landed(s)
                   /\ Calendar[s.day].week = Calendar[w.day].week /\ s \in Rev
  BY <1>3 DEF WeekMates
<1>6. \A s \in Rev : /\ s.asg = a /\ Line(s)
                     /\ \E x \in K \cup M : s = Sending[x]
  BY <1>2, SendingSame DEF InReview, Has, OfAsg, Over
<1>7. Cap(w) \in Nat
  BY <1>6, LineNumbers
<1>8. CASE \E q \in M : Sending[q] \in W
  <2>1. PICK q \in M : Sending[q] \in W
    BY <1>8
  <2>2. /\ Sending[q].asg = q.asg /\ Sending[q].day = q.day /\ Pool(Sending[q]) = Pool(q)
        /\ Cap(Sending[q]) = Cap(q)
    BY <1>1, SendingSame
  <2>3. Cap(q) = Cap(w)
    BY <1>5, <2>1, <2>2, CapSame
  <2>4. PICK A : A = WeekKept(a, K, q)
    OBVIOUS
  <2>5. PICK B : B = WeekMates(q, M)
    OBVIOUS
  <2>6. A \subseteq K /\ B \subseteq M
    BY <2>4, <2>5 DEF WeekKept, WeekMates, OfAsg
  <2>7. Sheet(A) /\ Sheet(B)
    BY <1>1, <2>6, SheetPart
  <2>8. ASSUME NEW s \in W
        PROVE  s \in Over(A \cup B)
    <3>1. PICK x \in K \cup M : s = Sending[x]
      BY <1>5, <1>6
    <3>2. /\ x.asg = s.asg /\ x.day = s.day /\ Pool(x) = Pool(s) /\ (Landed(x) <=> Landed(s))
      BY <1>2, <3>1, SendingSame
    <3>3. /\ x.asg = q.asg /\ x.asg = a /\ Pool(x) = Pool(q) /\ ~Landed(x)
          /\ Calendar[x.day].week = Calendar[q.day].week
      BY <1>1, <1>5, <2>1, <2>2, <3>2
    <3>4. x \in A \cup B
      BY <2>4, <2>5, <3>3 DEF WeekKept, WeekMates, OfAsg
    <3> QED
      BY <3>1, <3>4 DEF Over
  <2>9. PICK U : U = A \cup B
    OBVIOUS
  <2>10. /\ Sheet(U) /\ Hours(U) \in Nat /\ Hours(A) \in Nat /\ Hours(B) \in Nat
         /\ Hours(U) <= Hours(A) + Hours(B)
    BY <2>7, <2>9, HoursUnion
  <2>11. W \in SUBSET Over(U)
    BY <2>8, <2>9
  <2>12. Hours(W) \in Nat /\ Hours(W) <= Hours(U)
    BY <2>10, <2>11, OverHours
  <2>13. Hours(A) + Hours(B) <= Cap(q)
    BY <1>1, <2>3, <2>4, <2>5 DEF WeeksPart
  <2>14. Hours(W) <= Cap(w)
    BY <1>7, <2>3, <2>10, <2>12, <2>13
  <2> QED
    BY <1>4, <2>14
<1>9. CASE ~\E q \in M : Sending[q] \in W
  <2>1. CASE W = {}
    <3>1. Sheet({})
      BY FS_EmptySet DEF Sheet
    <3>2. Hours({}) = 0
      BY <3>1, HoursIs, SumEmpty
    <3> QED
      BY <1>4, <1>7, <2>1, <3>2
  <2>2. CASE W # {}
    <3>1. W \subseteq RevK
      BY <1>5, <1>6, <1>9 DEF InReview, Has, OfAsg, Over
    <3>2. PICK s \in W : TRUE
      BY <2>2
    <3>3. s \in RevK /\ Cap(s) = Cap(w)
      BY <1>5, <3>1, CapSame
    <3>4. PICK X : X = {u \in WeekMates(s, RevK) : ~Landed(u)}
      OBVIOUS
    <3>5. W \in SUBSET X
      BY <1>5, <3>1, <3>4 DEF WeekMates
    <3>6. Hours(X) <= Cap(w)
      <4>1. WeekHours(s, RevK) <= Cap(s)
        BY <3>3 DEF WeeksHold
      <4>2. WeekHours(s, RevK) = Hours(X)
        BY <3>4, Zenon DEF WeekHours
      <4> QED
        BY <3>3, <4>1, <4>2
    <3>7. X \subseteq Over(K)
      BY <3>4 DEF WeekMates, InReview, Has, OfAsg
    <3>8. Sheet(X)
      BY <3>7, OverSheet, SheetPart
    <3>9. Hours(W) \in Nat /\ Hours(X) \in Nat /\ Hours(W) <= Hours(X)
      BY <3>5, <3>8, HoursPart
    <3> QED
      BY <1>4, <1>7, <3>6, <3>9
  <2> QED
    BY <2>1, <2>2
<1> QED
  BY <1>8, <1>9

-----------------------------------------------------------------------------
(* The day's pay with everything sent: each row priced then was priced or    *)
(* counted before.  A sitting a sibling billed is priced at the regular copy *)
(* once there is one.                                                        *)
LEMMA SiblingPays ==
  ASSUME PaidByTheHour, NEW r, NEW s, Line(r), Line(s), Copy(s, r), Info[r.asg].regular
  PROVE  Prices[r] <= Prices[s]
<1>1. /\ s.from = r.from /\ s.to = r.to
      /\ Info[r.asg].group # 0 /\ Info[s.asg].group = Info[r.asg].group
  BY DEF Copy, Twins
<1>2. r.asg \in Asgs /\ s.asg \in Asgs
  BY DEF Line, RowSet, Lines
<1>3. Info[r.asg].rate <= Info[s.asg].rate
  BY <1>1, <1>2 DEF PaidByTheHour
<1>4. Info[r.asg].rate \in Nat /\ Info[s.asg].rate \in Nat
  BY <1>2, TimesheetsAssumption
<1>5. Span(r) \in Nat /\ Span(s) = Span(r)
  BY <1>1, LineNumbers DEF Span
<1>6. \A n \in Nat, i \in Nat, j \in Nat : i <= j => n * i <= n * j
  OBVIOUS
<1>7. Span(r) * Info[r.asg].rate <= Span(s) * Info[s.asg].rate
  BY <1>3, <1>4, <1>5, <1>6
<1> QED
  BY <1>7, LineNumbers DEF Paid

LEMMA SentPay ==
  ASSUME PaidByTheHour, NEW v, ViewFine(v), NEW a \in Asgs, NEW K, K = Stays(v, a),
         NEW M \in Fitting(v, a, K)
  PROVE  DayBahtHolds(Over(M), Over(K \cup M))
<1>1. /\ Sheet(M) /\ M \in Drafts(a) /\ PayPart(v, a, M) /\ ApartPart(K, M) /\ M \subseteq Open(v, a)
      /\ \A r \in M : Line(r) /\ r.asg = a /\ r.status = "draft"
  BY OwnSheet DEF Fitting
<1>2. Sheet(K) /\ \A k \in K : k.asg = a => MonthOf(k) \in KeptMonths(v, a)
  BY StaysKept
<1>3. \A x \in K \cup M : Line(x)
  BY <1>1, <1>2 DEF Sheet
<1> SUFFICES ASSUME NEW d, \E c \in Over(M) : c.day = d
             PROVE  Baht(OnDay(InReview(Over(K \cup M)), d)) <= DayBaht
  BY DEF DayBahtHolds
<1>4. PICK r0 \in M : r0.day = d
  BY <1>1, SendingSame DEF Over
<1>5. PICK O : O = Old(v, a, d)
  OBVIOUS
<1>6. PICK N : N = OnDay(M, d)
  OBVIOUS
<1>7. PICK Y : Y = OnDay(InReview(Over(K \cup M)), d)
  OBVIOUS
<1>8. PICK Q : Q = Mine(v, a, M, d)
  OBVIOUS
<1>9. O = OnDay(Live(K), d) /\ O \subseteq K /\ \A x \in O : x.day = d /\ x.asg # a
  <2>1. O = OnDay(Live(K), d)
    BY <1>5 DEF Old, OnDay, Live, Stays
  <2>2. \A x \in O : x \in K /\ x.day = d
    BY <2>1 DEF OnDay, Live
  <2>3. MonthOf(r0) \notin KeptMonths(v, a)
    BY <1>1, <1>4 DEF Open
  <2>4. \A x \in O : x.asg # a
    BY <1>2, <1>4, <2>2, <2>3 DEF MonthOf
  <2> QED
    BY <2>1, <2>2, <2>4
<1>10. N \subseteq M /\ \A x \in N : x.day = d /\ x.asg = a /\ Line(x)
  BY <1>1, <1>6 DEF OnDay
<1>11. Q \subseteq N /\ \A x \in N : x \in Q \/ \E s \in O : Copy(x, s)
  BY <1>5, <1>6, <1>8 DEF Mine, Free
<1>12. \A x \in O \cup N : Sending[x] \in Y
  <2> SUFFICES ASSUME NEW x \in O \cup N PROVE Sending[x] \in Y
    OBVIOUS
  <2>1. x \in K \cup M /\ Line(x) /\ x.day = d
    BY <1>3, <1>9, <1>10
  <2>2. x.status # "rejected"
    BY <1>1, <1>9, <1>10 DEF OnDay, Live
  <2>3. x.status \in Statuses
    BY <2>1 DEF Line, RowSet, Lines
  <2>4. Sending[x].status \in {"submitted", "approved"} /\ Sending[x].day = d
    BY <2>1, <2>2, <2>3, SendingSame DEF Statuses
  <2> QED
    BY <1>7, <2>1, <2>4 DEF OnDay, InReview, Has, Over
<1>13. \A y \in Y : \E x \in O \cup N : y = Sending[x]
  <2> SUFFICES ASSUME NEW y \in Y PROVE \E x \in O \cup N : y = Sending[x]
    OBVIOUS
  <2>1. PICK x \in K \cup M : y = Sending[x]
    BY <1>7 DEF OnDay, InReview, Has, Over
  <2>2. y.day = d /\ y.status # "rejected"
    BY <1>7 DEF OnDay, InReview, Has
  <2>3. x.day = d /\ x.status # "rejected"
    BY <1>3, <2>1, <2>2, SendingSame
  <2>4. x \in O \cup N
    BY <1>6, <1>9, <2>1, <2>3 DEF OnDay, Live
  <2> QED
    BY <2>1, <2>4
<1>14. \A x \in O \cup N : Line(x)
  BY <1>3, <1>9, <1>10
<1>15. \A x \in O \cup N, s \in O \cup N :
          Copy(x, s) => Copy(Sending[x], Sending[s]) /\ Info[Sending[s].asg].regular = Info[s.asg].regular
  BY <1>14, SendingSame DEF Copy, Twins
<1>16. \A x \in O, r \in N : Copy(x, r) => \A q \in N : Copy(x, q) => q = r
  <2> SUFFICES ASSUME NEW x \in O, NEW r \in N, NEW q \in N, Copy(x, r), Copy(x, q), q # r
               PROVE  FALSE
    OBVIOUS
  <2>1. q.day = r.day /\ q.from = r.from /\ q.to = r.to /\ q.asg = a /\ r.asg = a
    BY <1>10 DEF Copy
  <2>2. r.from \in Nat /\ r.to \in Nat /\ r.from < r.to
    BY <1>10, LineNumbers
  <2>3. Overlap(q, r) /\ ~Twins(q, r)
    BY <2>1, <2>2 DEF Overlap, Twins
  <2>4. Clash(q, r)
    BY <2>3 DEF Clash, Busy
  <2> QED
    BY <1>1, <1>10, <2>4 DEF ApartPart
<1> DEFINE Took(x, r) == Copy(x, r) /\ Info[a].regular
           Pays(x)    == CHOOSE r \in N : Took(x, r)
           m == [x \in O \cup N |-> IF x \in O /\ \E r \in N : Took(x, r) THEN Sending[Pays(x)] ELSE Sending[x]]
           S == Priced(O) \cup Q
<1>17. Priced(O) \subseteq O /\ S \subseteq O \cup N
  BY <1>11 DEF Priced
<1>18. \A x \in O, r \in N : Took(x, r) => Pays(x) = r
  <2> SUFFICES ASSUME NEW x \in O, NEW r \in N, Took(x, r) PROVE Pays(x) = r
    OBVIOUS
  <2>1. \A q \in N : Took(x, q) => q = r
    BY <1>16
  <2> HIDE DEF Took
  <2> QED
    BY <2>1
<1> HIDE DEF Pays
<1>19. \A x \in S : Prices[x] \in Nat /\ Prices[m[x]] \in Nat /\ Prices[m[x]] <= Prices[x]
  <2> SUFFICES ASSUME NEW x \in O \cup N
               PROVE  Prices[x] \in Nat /\ Prices[m[x]] \in Nat /\ Prices[m[x]] <= Prices[x]
    BY <1>17
  <2>1. Line(x) /\ Prices[x] \in Nat
    BY <1>14, LineNumbers
  <2>2. CASE x \in O /\ \E r \in N : Took(x, r)
    <3>1. PICK r \in N : Took(x, r)
      BY <2>2
    <3>2. m[x] = Sending[r]
      BY <1>18, <2>2, <3>1
    <3>3. Line(r) /\ r.asg = a
      BY <1>10
    <3>4. Prices[Sending[r]] = Prices[r] /\ Prices[r] \in Nat
      BY <3>3, SendingSame, LineNumbers
    <3>5. Copy(x, r) /\ Info[r.asg].regular
      BY <3>1, <3>3
    <3>6. Prices[r] <= Prices[x]
      BY <2>1, <3>3, <3>5, SiblingPays
    <3> QED
      BY <2>1, <3>2, <3>4, <3>6
  <2>3. CASE ~(x \in O /\ \E r \in N : Took(x, r))
    <3>1. m[x] = Sending[x]
      BY <2>3
    <3> QED
      BY <2>1, <3>1, SendingSame
  <2> QED
    BY <2>2, <2>3
<1>20. \A y \in Priced(Y) : y \in {m[x] : x \in S}
  <2> SUFFICES ASSUME NEW y \in Priced(Y) PROVE \E x \in S : y = m[x]
    OBVIOUS
  <2>1. y \in Y /\ ~\E s \in Y : Copy(y, s) /\ Info[s.asg].regular
    BY DEF Priced
  <2>2. PICK x \in O \cup N : y = Sending[x]
    BY <1>13, <2>1
  <2>3. \A s \in O \cup N : Copy(x, s) => ~Info[s.asg].regular
    BY <1>12, <1>15, <2>1, <2>2
  <2>4. CASE x \in O
    <3>1. x \in Priced(O)
      BY <2>3, <2>4 DEF Priced
    <3>2. ~\E r \in N : Took(x, r)
      BY <1>10, <2>3
    <3>3. m[x] = y
      BY <2>2, <2>4, <3>2
    <3> QED
      BY <3>1, <3>3
  <2>5. CASE x \in N /\ x \in Q
    <3>1. x \notin O
      BY <1>9, <1>10, <2>5
    <3>2. m[x] = y
      BY <2>2, <3>1
    <3> QED
      BY <2>5, <3>2
  <2>6. CASE x \in N /\ x \notin Q
    <3>1. PICK s \in O : Copy(x, s)
      BY <1>11, <2>6
    <3>2. ~Info[s.asg].regular
      BY <2>3, <3>1
    <3>3. /\ x.asg = a /\ s.asg # a /\ s.asg \in Asgs
          /\ Info[a].group # 0 /\ Info[s.asg].group = Info[a].group
      BY <1>9, <1>10, <1>14, <2>6, <3>1 DEF Copy, Twins, Line, RowSet, Lines
    <3>4. Info[a].regular
      BY <3>2, <3>3, TimesheetsAssumption
    <3>5. ASSUME NEW t \in O, Copy(s, t), Info[t.asg].regular
          PROVE  FALSE
      <4>1. t.asg \in Asgs /\ t.asg # a /\ Info[t.asg].group = Info[a].group
        BY <1>9, <1>14, <3>3, <3>5 DEF Copy, Twins, Line, RowSet, Lines
      <4>2. Info[t.asg].regular # Info[a].regular
        BY <3>3, <4>1, TimesheetsAssumption
      <4>3. Info[t.asg].regular \in BOOLEAN /\ Info[a].regular \in BOOLEAN
        BY <4>1, TimesheetsAssumption
      <4> QED
        BY <3>4, <3>5, <4>2, <4>3
    <3>6. s \in Priced(O)
      BY <3>5 DEF Priced
    <3>7. Took(s, x)
      BY <3>1, <3>3, <3>4 DEF Copy, Twins
    <3>8. m[s] = y
      BY <1>18, <2>2, <2>6, <3>7
    <3> QED
      BY <3>6, <3>8
  <2> QED
    BY <2>4, <2>5, <2>6
<1>21. PICK f : f = m
  OBVIOUS
<1>22. PICK P : P = S
  OBVIOUS
<1> HIDE DEF m, S, Took
<1>23. Sheet(O) /\ Sheet(N) /\ Sheet(P) /\ Sheet(Y)
  <2>1. Sheet(O) /\ Sheet(N)
    BY <1>1, <1>2, <1>9, <1>10, SheetPart
  <2>2. Sheet(O \cup N)
    BY <2>1, SheetJoin
  <2>3. Sheet(P)
    BY <1>17, <1>22, <2>2, SheetPart
  <2>4. Sheet(Over(K \cup M))
    BY <1>1, <1>2, SheetJoin, OverSheet
  <2>5. Y \subseteq Over(K \cup M)
    BY <1>7 DEF OnDay, InReview, Has
  <2> QED
    BY <2>1, <2>3, <2>4, <2>5, SheetPart
<1>24. PICK I : I = {f[x] : x \in P}
  OBVIOUS
<1>25. IsFiniteSet(P) /\ IsFiniteSet(I)
  BY <1>23, <1>24, ImageFinite DEF Sheet
<1>26. \A x \in P : Prices[x] \in Nat /\ Prices[f[x]] \in Nat /\ Prices[f[x]] <= Prices[x]
  BY <1>19, <1>21, <1>22
<1>27. SumOf(Prices, I) <= SumOf(Prices, P)
  BY <1>24, <1>25, <1>26, SumImageLeq
<1>28. Priced(Y) \in SUBSET I /\ \A y \in I : Prices[y] \in Nat
  BY <1>20, <1>21, <1>22, <1>24, <1>26
<1>29. SumOf(Prices, Priced(Y)) <= SumOf(Prices, I)
  BY <1>25, <1>28, SumPart
<1>30. Baht(Y) = SumOf(Prices, Priced(Y)) /\ Baht(Y) \in Nat
  BY <1>23, BahtIs
<1>31. SumOf(Prices, P) = SumOf(Prices, Priced(O)) + SumOf(Prices, Q)
  <2>1. P \ Priced(O) = Q /\ Priced(O) \in SUBSET P
    BY <1>9, <1>10, <1>11, <1>17, <1>22 DEF S
  <2>2. \A x \in P : Prices[x] \in Nat
    BY <1>26
  <2> QED
    BY <1>25, <2>1, <2>2, SumSplit
<1>32. Spent(v, a, M, d) = SumOf(Prices, Priced(O)) + SumOf(Prices, Q)
  <2>1. Baht(O) = SumOf(Prices, Priced(O))
    BY <1>23, BahtIs
  <2>2. Sheet(Q)
    BY <1>11, <1>23, SheetPart
  <2>3. MapThenSumSet(Paid, Q) = SumOf(Prices, Q)
    BY <2>2, PriceIs
  <2>4. Spent(v, a, M, d) = Baht(O) + MapThenSumSet(Paid, Q)
    BY <1>5, <1>8, Zenon DEF Spent
  <2> QED
    BY <2>1, <2>3, <2>4
<1>33. Spent(v, a, M, d) <= DayBaht
  BY <1>1, <1>4 DEF PayPart
<1>34. SumOf(Prices, I) \in Nat /\ SumOf(Prices, P) \in Nat
  BY <1>25, <1>26, <1>28, SumNat
<1>35. Baht(Y) <= DayBaht
  <2>1. DayBaht \in Nat
    BY TimesheetsAssumption
  <2> QED
    BY <1>27, <1>29, <1>30, <1>31, <1>32, <1>33, <1>34, <2>1
<1> QED
  BY <1>7, <1>35, Zenon

(* "so generation can never mint a row the approval-time recheck would then  *)
(* reject", for a TA paid by the hour in every section, and by a regular one *)
(* no more than by the special one taught with it (what a row is let in      *)
(* under, Generate, against recheckCapsForApproval and                       *)
(* recheckDailyBahtForApproval).                                             *)
THEOREM GeneratedRowsPass ==
  ASSUME PaidByTheHour
  PROVE  TimesheetSpec => GeneratedPasses
<1>1. ASSUME Shapes, NEW i \in Calls, Undisturbed(i), Generate(i)
      PROVE  LET a    == req[i].asg
                 kept == rows \ Wiped(req[i].view, a, rows)
             IN  CapsHold(a, {}, AsSent(kept)) =>
                     CapsHold(a, AsSent(rows' \ kept), AsSent(rows'))
  <2>1. PICK v : v = req[i].view
    OBVIOUS
  <2>2. PICK a : a = req[i].asg
    OBVIOUS
  <2>3. rows' = Outcome(v, a, rows) /\ req[i].op = "generate"
    BY <1>1, <2>1, <2>2, Zenon DEF Generate
  <2>4. v.rows = rows /\ v = View
    BY <1>1, <2>1 DEF Undisturbed, View
  <2>5. a \in Asgs /\ ViewFine(v)
    BY <1>1, <2>1, <2>2, <2>3 DEF Shapes, Fine, Asked
  <2>6. PICK K : K = rows \ Wiped(v, a, rows)
    OBVIOUS
  <2>7. PICK M : M = Made(v, a, K)
    OBVIOUS
  <2>8. K = Stays(v, a)
    BY <2>4, <2>6 DEF Stays
  <2>9. Sheet(K) /\ \A k \in K : k.asg = a => MonthOf(k) \in KeptMonths(v, a)
    BY <2>5, <2>8, StaysKept
  <2>10. M \in Fitting(v, a, K)
    BY <2>5, <2>7, <2>9, MadeFits
  <2>11. Sheet(M) /\ M \subseteq Open(v, a) /\ \A r \in M : r.asg = a
    BY <2>10, OwnSheet DEF Fitting
  <2>12. rows' = K \cup M
    BY <2>6, <2>7, <2>3, Zenon DEF Outcome
  <2>13. rows' \ K = M
    BY <2>9, <2>11, <2>12 DEF Open
  <2>14. AsSent(K) = Over(K) /\ AsSent(M) = Over(M) /\ AsSent(rows') = Over(K \cup M)
    BY <2>9, <2>11, <2>12, SheetJoin, AsSentIs
  <2>15. CapsHold(a, {}, Over(K)) => CapsHold(a, Over(M), Over(K \cup M))
    BY <2>5, <2>8, <2>9, <2>10, ApprovedApart, SentDays, SentWeeks, SentPay DEF CapsHold
  <2> QED
    BY <2>1, <2>2, <2>6, <2>13, <2>14, <2>15, Zenon
<1>2. Shapes => \A i \in Calls : Undisturbed(i) /\ Generate(i) =>
         LET a    == req[i].asg
             kept == rows \ Wiped(req[i].view, a, rows)
         IN  CapsHold(a, {}, AsSent(kept)) =>
                 CapsHold(a, AsSent(rows' \ kept), AsSent(rows'))
  BY <1>1
<1>3. Shapes =>
        [\A i \in Calls : Undisturbed(i) /\ Generate(i) =>
         LET a    == req[i].asg
             kept == rows \ Wiped(req[i].view, a, rows)
         IN  CapsHold(a, {}, AsSent(kept)) =>
                 CapsHold(a, AsSent(rows' \ kept), AsSent(rows'))]_tsVars
  BY <1>2, Zenon
<1> QED
  BY <1>3, ShapesInit, ShapesStep, PTL DEF TimesheetSpec, GeneratedPasses
=============================================================================
