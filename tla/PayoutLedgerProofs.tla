------------------------- MODULE PayoutLedgerProofs -------------------------
(***************************************************************************)
(* What is settled with the lock of a month stays settled, whatever the    *)
(* months, TAs, rates, lumps, pools and downloads in flight.               *)
(*                                                                         *)
(* LumpInv: a month has one frozen row, and a pack past Freeze prints what *)
(* is frozen.  Frozen rows are only added, and only for months that have   *)
(* none, so what was printed stays printed.                                *)
(*                                                                         *)
(* Typed: figures are amounts and none is more than the hours cost, which  *)
(* the shares of a pool need; it rests on what the operators of Settlement *)
(* return (FillFills to FrozenPays).  LockInv: a locked month has one row  *)
(* with the time of its lock, and no later one.  TurnInv: with one         *)
(* download at a time a pack on its way out prints the figures of the      *)
(* months locked, and the pool covers them and what the pack will add.     *)
(***************************************************************************)
EXTENDS PayoutLedger, Sums, TLAPS

Agrees(p) == \A m \in p.months : m \in DOMAIN FrozenLump /\ p.lump[m] = FrozenLump[m]

OneRowAMonth == \A r, q \in frozen : r.month = q.month => r = q

CallInv == /\ DOMAIN call = Calls
           /\ \A i \in Calls : /\ DOMAIN call[i] = DOMAIN Idle
                               /\ call[i].at = "send" => Agrees(call[i])

LumpInv == OneRowAMonth /\ CallInv /\ PacksPrintFrozenLump

-----------------------------------------------------------------------------
(* A month that is locked before a step and after it is not one the step    *)
(* locked, and only a month's own rows decide its figure.                   *)
LEMMA FigureFrame ==
  ASSUME NEW c \in Cells, cell'[c] = cell[c],
         {r \in ledger' : r.cell = c} = {r \in ledger : r.cell = c}
  PROVE  InForce(c)' = InForce(c)
<1>1. \A r : (r \in ledger' /\ r.cell = c) <=> (r \in ledger /\ r.cell = c)
  OBVIOUS
<1>2. Locked(c)' <=> Locked(c)
  BY DEF Locked
<1> QED
  BY <1>1, <1>2 DEF InForce

LEMMA LockFigures ==
  ASSUME NEW i \in Calls, Lock(i), NEW c \in Cells, Locked(c)
  PROVE  {r \in ledger' : r.cell = c} = {r \in ledger : r.cell = c}
<1>1. CASE call[i].read # In(hours, call[i].months)
  BY <1>1 DEF Lock
<1>2. CASE call[i].read = In(hours, call[i].months)
  <2>1. c \notin NewlyLocked(i)
    BY DEF NewlyLocked, Locked
  <2> DEFINE row(d) == [cell |-> d, earned |-> call[i].earned[d], paid |-> call[i].paid[d],
                        at |-> time']
  <2>2. ledger' = ledger \cup {row(d) : d \in NewlyLocked(i)}
    BY <1>2 DEF Lock
  <2>3. \A d : row(d).cell = d
    OBVIOUS
  <2> QED
    BY <2>1, <2>2, <2>3
<1> QED
  BY <1>1, <1>2

(* While a month stays locked by one export, no step moves its figure.      *)
THEOREM LockedFiguresStand == LedgerSpec => LockedFigureStands
<1>1. ASSUME LedgerNext, NEW c \in Cells, Locked(c), cell'[c] = cell[c]
      PROVE  InForce(c)' = InForce(c)
  <2>1. CASE \E i \in Calls : Lock(i)
    BY <1>1, <2>1, LockFigures, FigureFrame
  <2>2. CASE UNCHANGED ledger
    BY <1>1, <2>2, FigureFrame
  <2> QED
    BY <1>1, <2>1, <2>2
       DEF LedgerNext, Start, Build, Freeze, Send, SetHours, SignOff, SendBack, Reprice
<1>2. ASSUME UNCHANGED ledgerVars, NEW c \in Cells
      PROVE  InForce(c)' = InForce(c)
  BY <1>2, FigureFrame DEF ledgerVars
<1>3. [LedgerNext]_ledgerVars =>
        \A c \in Cells : (Locked(c) /\ cell'[c] = cell[c]) => InForce(c)' = InForce(c)
  BY <1>1, <1>2
<1> QED
  BY <1>3, PTL DEF LedgerSpec, LockedFigureStands

-----------------------------------------------------------------------------
LEMMA PacksAgree == PacksPrintFrozenLump <=> \A p \in sent : Agrees(p)
  BY DEF PacksPrintFrozenLump, Agrees

LEMMA LumpInit == LedgerInit => LumpInv
  BY DEF LedgerInit, LumpInv, OneRowAMonth, CallInv, PacksPrintFrozenLump, Idle, None

(* The frozen rows that were there stay the rows of their months.           *)
LEMMA FrozenGrows ==
  ASSUME OneRowAMonth, OneRowAMonth', frozen \subseteq frozen', NEW p, Agrees(p)
  PROVE  Agrees(p)'
<1> SUFFICES ASSUME NEW m \in p.months
             PROVE  (m \in DOMAIN FrozenLump /\ p.lump[m] = FrozenLump[m])'
  BY DEF Agrees
<1>1. m \in DOMAIN FrozenLump /\ p.lump[m] = FrozenLump[m]
  BY DEF Agrees
<1>2. PICK r \in frozen : r.month = m
  BY <1>1 DEF FrozenLump
<1>3. (CHOOSE q \in frozen : q.month = m) = r /\ (CHOOSE q \in frozen' : q.month = m) = r
  BY <1>2 DEF OneRowAMonth
<1>4. m \in DOMAIN FrozenLump' /\ FrozenLump[m] = r.baht /\ FrozenLump'[m] = r.baht
  BY <1>2, <1>3 DEF FrozenLump
<1> QED
  BY <1>1, <1>4

(* A step that leaves the frozen rows alone, and what call i is sending.     *)
LEMMA LumpFrame ==
  ASSUME LumpInv, UNCHANGED frozen, CallInv',
         \A p \in sent' : p \in sent \/ Agrees(p)
  PROVE  LumpInv'
<1>1. \A p : Agrees(p)' <=> Agrees(p)
  BY DEF Agrees, FrozenLump
<1>2. PacksPrintFrozenLump'
  <2>1. \A p \in sent' : Agrees(p)
    BY PacksAgree DEF LumpInv
  <2>2. \A p \in sent' : Agrees(p)'
    BY <1>1, <2>1
  <2> QED
    BY <2>2 DEF PacksPrintFrozenLump, Agrees
<1> QED
  BY <1>2 DEF LumpInv, OneRowAMonth

(* One call moves to a record of the same fields that is not at "send".      *)
LEMMA CallFrame ==
  ASSUME LumpInv, UNCHANGED <<frozen, sent>>, NEW i \in Calls, NEW c, To(i, c),
         DOMAIN c = DOMAIN Idle, c.at # "send"
  PROVE  LumpInv'
<1>1. \A p : Agrees(p)' <=> Agrees(p)
  BY DEF Agrees, FrozenLump
<1>2. CallInv'
  BY <1>1 DEF LumpInv, CallInv, To
<1> QED
  BY <1>2, LumpFrame

LEMMA FreezeKeeps ==
  ASSUME LumpInv, NEW i \in Calls, Freeze(i)
  PROVE  LumpInv'
<1>1. CASE ~PrintedAsFrozen(i)
  BY <1>1, CallFrame DEF Freeze, Idle
<1>2. CASE PrintedAsFrozen(i)
  <2> DEFINE row(m) == [month |-> m, baht |-> call[i].lump[m], basis |-> call[i].basis]
             new    == call[i].months \ DOMAIN FrozenLump
             done   == [call[i] EXCEPT !.at = "send"]
  <2>1. /\ frozen' = frozen \cup {row(m) : m \in new}
        /\ call' = [call EXCEPT ![i] = done]
        /\ sent' = sent
    BY <1>2 DEF Freeze, To
  <2>2. \A m \in new : row(m).month = m /\ row(m).baht = call[i].lump[m]
    OBVIOUS
  <2>3. \A r \in frozen : r.month \notin new
    BY DEF FrozenLump
  <2> HIDE DEF new, row
  <2>4. OneRowAMonth'
    BY <2>1, <2>2, <2>3 DEF LumpInv, OneRowAMonth
  <2>5. \A p : Agrees(p) => Agrees(p)'
    BY <2>1, <2>4, FrozenGrows DEF LumpInv
  <2>6. DOMAIN done = DOMAIN Idle /\ done.months = call[i].months /\ done.lump = call[i].lump
    BY DEF LumpInv, CallInv, Idle
  <2>7. ASSUME NEW m \in call[i].months
        PROVE  m \in DOMAIN FrozenLump' /\ call[i].lump[m] = FrozenLump'[m]
    <3>1. PICK r \in frozen' : r.month = m /\ r.baht = call[i].lump[m]
      <4>1. CASE m \in new
        BY <4>1, <2>1, <2>2
      <4>2. CASE m \notin new
        <5>1. m \in DOMAIN FrozenLump
          BY <4>2 DEF new
        <5>2. PICK r \in frozen : r.month = m
          BY <5>1 DEF FrozenLump
        <5> QED
          BY <5>2, <1>2, <2>1 DEF PrintedAsFrozen
      <4> QED
        BY <4>1, <4>2
    <3>2. (CHOOSE q \in frozen' : q.month = m) = r
      BY <3>1, <2>4 DEF OneRowAMonth
    <3> QED
      BY <3>1, <3>2 DEF FrozenLump
  <2>8. CallInv'
    <3>1. call'[i].months = call[i].months /\ call'[i].lump = call[i].lump
      BY <2>1, <2>6 DEF LumpInv, CallInv
    <3>2. Agrees(call[i])'
      BY <3>1, <2>7 DEF Agrees
    <3>3. ASSUME NEW j \in Calls, j # i
          PROVE  (call[j].at = "send" => Agrees(call[j]))' /\ call'[j] = call[j]
      BY <3>3, <2>1, <2>5 DEF LumpInv, CallInv
    <3> QED
      BY <2>1, <2>6, <3>2, <3>3 DEF LumpInv, CallInv
  <2>9. \A p \in sent' : Agrees(p)'
    BY <2>1, <2>5, PacksAgree DEF LumpInv
  <2> QED
    BY <2>4, <2>8, <2>9 DEF LumpInv, PacksPrintFrozenLump, Agrees
<1> QED
  BY <1>1, <1>2

LEMMA SendKeeps ==
  ASSUME LumpInv, NEW i \in Calls, Send(i)
  PROVE  LumpInv'
<1> DEFINE pack == [months |-> call[i].months, lump |-> call[i].lump]
<1>1. Agrees(call[i]) /\ UNCHANGED frozen /\ sent' = sent \cup {pack} /\ To(i, Idle)
  BY DEF LumpInv, CallInv, Send
<1>2. Agrees(pack)
  BY <1>1 DEF Agrees
<1>3. \A p : Agrees(p)' <=> Agrees(p)
  BY <1>1 DEF Agrees, FrozenLump
<1>4. CallInv'
  BY <1>1, <1>3 DEF LumpInv, CallInv, To, Idle
<1> QED
  BY <1>1, <1>2, <1>4, LumpFrame

LEMMA LumpStep == LumpInv /\ [LedgerNext]_ledgerVars => LumpInv'
<1> SUFFICES ASSUME LumpInv, [LedgerNext]_ledgerVars
             PROVE  LumpInv'
  OBVIOUS
<1>1. ASSUME NEW i \in Calls, Start(i) PROVE LumpInv'
  <2> SUFFICES ASSUME NEW S,
                      To(i, [Idle EXCEPT !.at = "build", !.months = S, !.read = In(hours, S)]),
                      UNCHANGED <<frozen, sent>>
               PROVE  LumpInv'
    BY <1>1 DEF Start
  <2> QED
    BY CallFrame DEF Idle
<1>2. ASSUME NEW i \in Calls, Build(i) PROVE LumpInv'
  <2>1. CASE To(i, Idle)
    BY <2>1, <1>2, CallFrame DEF Build, Idle
  <2>2. CASE ~To(i, Idle)
    BY <2>2, <1>2, CallFrame DEF Build, LumpInv, CallInv, Idle
  <2> QED
    BY <2>1, <2>2
<1>3. ASSUME NEW i \in Calls, Lock(i) PROVE LumpInv'
  <2>1. CASE To(i, Idle)
    BY <2>1, <1>3, CallFrame DEF Lock, Idle
  <2>2. CASE To(i, [call[i] EXCEPT !.at = "freeze"])
    BY <2>2, <1>3, CallFrame DEF Lock, LumpInv, CallInv, Idle
  <2> QED
    BY <1>3, <2>1, <2>2 DEF Lock
<1>4. CASE UNCHANGED <<frozen, sent, call>>
  <2>1. \A p : Agrees(p)' <=> Agrees(p)
    BY <1>4 DEF Agrees, FrozenLump
  <2> QED
    BY <1>4, <2>1, LumpFrame DEF LumpInv, CallInv
<1>5. CASE \E c \in Cells : SetHours(c) \/ SignOff(c) \/ SendBack(c)
  BY <1>4, <1>5 DEF SetHours, SignOff, SendBack
<1>6. CASE Reprice \/ UNCHANGED ledgerVars
  BY <1>4, <1>6 DEF Reprice, ledgerVars
<1> QED
  BY <1>1, <1>2, <1>3, <1>5, <1>6, FreezeKeeps, SendKeeps DEF LedgerNext

(* Every pack that left the server prints, for each of its months, the lump  *)
(* the ledger holds, and the ledger holds one.                               *)
THEOREM PacksPrintTheFrozenLump == LedgerSpec => []PacksPrintFrozenLump
<1>1. LumpInv => PacksPrintFrozenLump
  BY DEF LumpInv
<1> QED
  BY <1>1, LumpInit, LumpStep, PTL DEF LedgerSpec

-----------------------------------------------------------------------------
(* How a pool is shared.  The total of a fold is the sum of its function.    *)
LEMMA TotalIsSum ==
  ASSUME NEW S, IsFiniteSet(S), NEW f
  PROVE  Total(f, S) = SumOf(f, S)
<1> DEFINE It(it) == it = [s \in SUBSET S |-> IF s = {} THEN 0
                                              ELSE f[CHOOSE x \in s : TRUE] + it[s \ {CHOOSE x \in s : TRUE}]]
           iter == CHOOSE it : It(it)
<1>1. Total(f, S) = iter[S]
  BY DEF Total, SumFunctionOnSet, FoldFunctionOnSet, MapThenFoldSet
<1>2. \A it : It(it) <=> Adds(it, f, S)
  BY DEF Adds, AnyOf
<1>3. It(iter)
  <2> HIDE DEF It
  <2> QED
    BY <1>2, AddsExist
<1> HIDE DEF iter
<1>4. Adds(iter, f, S)
  BY <1>2, <1>3
<1> QED
  BY <1>1, <1>4, SumIs

(* The grid.                                                                *)
LEMMA Grid ==
  /\ IsFiniteSet(Cells) /\ IsFiniteSet(TAs) /\ IsFiniteSet(Months)
  /\ \A c \in Cells : c[1] \in TAs /\ c[2] \in Months /\ c = <<c[1], c[2]>>
  /\ \A t \in TAs, m \in Months : <<t, m>> \in Cells
<1>1. IsFiniteSet(TAs \X Months)
  BY SettlementAssumption, FS_Product
<1> QED
  BY <1>1, SettlementAssumption DEF Cells

(* The rows of the people add up to all there is.                           *)
LEMMA RowsAdd ==
  ASSUME NEW f, \A c \in Cells : f[c] \in Nat,
         NEW g, \A t \in TAs : g[t] = SumOf(Row(f, t), Months)
  PROVE  SumOf(f, Cells) = SumOf(g, TAs)
<1> DEFINE k == [c \in Cells |-> c[1]]
           part == [t \in TAs |-> {c \in Cells : c[1] = t}]
<1>1. \A c \in Cells : k[c] \in TAs
  BY Grid
<1>2. \A t \in TAs : /\ part[t] \subseteq Cells
                     /\ \A c \in Cells : c \in part[t] <=> k[c] = t
  OBVIOUS
<1>3. ASSUME NEW t \in TAs PROVE g[t] = SumOf(f, part[t])
  <2> DEFINE m == [n \in Months |-> <<t, n>>]
             M == part[t]
             h == Row(f, t)
  <2>1. \A n \in Months : m[n] \in M /\ f[m[n]] \in Nat /\ h[n] = f[m[n]]
    BY Grid DEF Row
  <2>2. \A c \in M : \E n \in Months : c = m[n]
    BY Grid
  <2>3. \A x, y \in Months : m[x] = m[y] => x = y
    OBVIOUS
  <2>4. g[t] = SumOf(h, Months)
    OBVIOUS
  <2>6. IsFiniteSet(Months)
    BY Grid
  <2> HIDE DEF m, M, h
  <2>5. SumOf(f, M) = SumOf(h, Months)
    BY <2>1, <2>2, <2>3, <2>6, SumImage
  <2> QED
    BY <2>4, <2>5 DEF M
<1> HIDE DEF k, part
<1> QED
  BY <1>1, <1>2, <1>3, Grid, SumGroups

(* Division and rounding.                                                   *)
LEMMA DivFloor ==
  ASSUME NEW n \in Nat, NEW d \in Nat \ {0}
  PROVE  n \div d \in Nat /\ d * (n \div d) <= n /\ n < d * (n \div d) + d
  OBVIOUS

LEMMA DivScaled ==
  ASSUME NEW a \in Nat, NEW d \in Nat \ {0}, NEW k \in Nat, a <= d * k
  PROVE  a \div d <= k
  OBVIOUS

LEMMA Multiplied ==
  ASSUME NEW a \in Nat, NEW b \in Nat, NEW k \in Nat, a <= b
  PROVE  k * a \in Nat /\ k * a <= k * b
  OBVIOUS

LEMMA Rounded ==
  ASSUME NEW x \in Nat
  PROVE  WholeBaht(x) \in Nat /\ WholeBaht(x) <= x /\ x < WholeBaht(x) + Baht
  BY SettlementAssumption, DivFloor DEF WholeBaht

(* Parts of k in proportion do not exceed k, and rounded to whole baht fall  *)
(* short of it by less than a baht each.                                    *)
LEMMA Proportions ==
  ASSUME NEW S, IsFiniteSet(S), NEW f, \A x \in S : f[x] \in Nat,
         NEW all \in Nat \ {0}, all = SumOf(f, S), NEW k \in Nat,
         NEW q, \A x \in S : q[x] = WholeBaht((k * f[x]) \div all)
  PROVE  /\ \A x \in S : q[x] \in Nat
         /\ SumOf(q, S) \in Nat /\ SumOf(q, S) <= k
         /\ k < SumOf(q, S) + Cardinality(S) * Baht
<1> DEFINE kf == [x \in S |-> k * f[x]]
           aq == [x \in S |-> all * q[x]]
           up == [x \in S |-> q[x] + Baht]
           au == [x \in S |-> all * up[x]]
           bs == [x \in S |-> Baht]
           one == [x \in S |-> 1]
<1>1. ASSUME NEW x \in S
      PROVE  /\ q[x] \in Nat /\ f[x] \in Nat /\ kf[x] = k * f[x] /\ kf[x] \in Nat
             /\ aq[x] = all * q[x] /\ aq[x] \in Nat /\ aq[x] <= kf[x]
             /\ up[x] = q[x] + Baht /\ up[x] \in Nat /\ au[x] = all * up[x]
             /\ au[x] \in Nat /\ kf[x] < au[x]
             /\ bs[x] = Baht * one[x] /\ bs[x] \in Nat /\ one[x] = 1
  <2> DEFINE d == kf[x] \div all
  <2>1. f[x] \in Nat /\ kf[x] = k * f[x] /\ kf[x] \in Nat
    BY Multiplied
  <2>2. d \in Nat /\ all * d <= kf[x] /\ kf[x] < all * d + all
    BY <2>1, DivFloor
  <2>3. q[x] = WholeBaht(d)
    OBVIOUS
  <2> HIDE DEF d
  <2>4. q[x] \in Nat /\ q[x] <= d /\ d + 1 <= q[x] + Baht /\ Baht \in Nat
    BY <2>2, <2>3, Rounded, SettlementAssumption
  <2>5. all * q[x] \in Nat /\ all * q[x] <= all * d
    BY <2>2, <2>4, Multiplied
  <2>6. all * (d + 1) <= all * (q[x] + Baht) /\ all * (q[x] + Baht) \in Nat
    <3> DEFINE e == d + 1
               u == q[x] + Baht
    <3>1. e \in Nat /\ u \in Nat /\ e <= u
      BY <2>2, <2>4
    <3> HIDE DEF e, u
    <3>2. all * e <= all * u /\ all * u \in Nat
      BY <3>1, Multiplied
    <3> QED
      BY <3>2 DEF e, u
  <2>7. all * (d + 1) = all * d + all
    BY <2>2
  <2>8. all * d \in Nat
    BY <2>2, Multiplied
  <2> QED
    BY <2>1, <2>2, <2>4, <2>5, <2>6, <2>7, <2>8
<1> HIDE DEF kf, aq, up, au, bs, one
<1>2. SumOf(kf, S) = k * all
  <2>1. \A x \in S : f[x] \in Nat /\ kf[x] = k * f[x]
    BY <1>1
  <2> QED
    BY <2>1, SumScale
<1>3. SumOf(q, S) \in Nat /\ SumOf(aq, S) = all * SumOf(q, S)
  BY <1>1, SumNat, SumScale
<1>4. SumOf(aq, S) <= SumOf(kf, S)
  BY <1>1, SumLeq
<1>5. SumOf(q, S) <= k
  BY <1>2, <1>3, <1>4
<1>6. S # {}
  BY SumEmpty
<1>7. PICK p \in S : TRUE
  BY <1>6
<1>8. SumOf(kf, S) < SumOf(au, S)
  <2>1. IsFiniteSet(S \ {p})
    BY FS_Subset
  <2>2. SumOf(kf, S \ {p}) <= SumOf(au, S \ {p})
    BY <1>1, <2>1, SumLeq
  <2>3. SumOf(kf, S \ {p}) \in Nat /\ SumOf(au, S \ {p}) \in Nat
    BY <1>1, <2>1, SumNat
  <2>4. SumOf(kf, S) = kf[p] + SumOf(kf, S \ {p}) /\ SumOf(au, S) = au[p] + SumOf(au, S \ {p})
    BY <1>1, <1>7, SumTake
  <2> QED
    BY <1>1, <1>7, <2>2, <2>3, <2>4
<1>9. SumOf(up, S) \in Nat /\ SumOf(au, S) = all * SumOf(up, S)
  BY <1>1, SumNat, SumScale
<1>10. SumOf(bs, S) = Baht * Cardinality(S) /\ Cardinality(S) \in Nat
  <2>1. \A x \in S : one[x] \in Nat /\ bs[x] = Baht * one[x] /\ one[x] = 1
    BY <1>1
  <2>2. SumOf(one, S) = Cardinality(S) /\ Cardinality(S) \in Nat
    BY <2>1, SumOnes, FS_CardinalityType
  <2>3. Baht \in Nat
    BY SettlementAssumption
  <2>4. SumOf(bs, S) = Baht * SumOf(one, S)
    BY <2>1, <2>3, SumScale
  <2> QED
    BY <2>2, <2>4
<1>11. SumOf(up, S) = SumOf(q, S) + SumOf(bs, S)
  <2>1. \A x \in S : q[x] \in Nat /\ bs[x] \in Nat /\ up[x] = q[x] + bs[x]
    BY <1>1, SettlementAssumption
  <2> QED
    BY <2>1, SumPlus
<1>12. k < SumOf(up, S)
  BY <1>2, <1>8, <1>9
<1>13. Baht * Cardinality(S) = Cardinality(S) * Baht
  BY <1>10, SettlementAssumption
<1> QED
  BY <1>1, <1>3, <1>5, <1>10, <1>11, <1>12, <1>13

-----------------------------------------------------------------------------
(* Paying in order pays as much of the share as there is to pay.            *)
LEMMA FillFills ==
  ASSUME NEW cost, DOMAIN cost = Months, \A m \in Months : cost[m] \in Nat, NEW share \in Nat
  PROVE  LET fill == FillInOrder(share, cost) IN
         /\ DOMAIN fill = Months
         /\ \A m \in Months : fill[m] \in Nat /\ fill[m] <= cost[m]
         /\ SumOf(fill, Months) = Less(share, SumOf(cost, Months))
<1> DEFINE fill == FillInOrder(share, cost)
           Under(m) == {n \in Months : n < m}
           Down(s) == \A m \in s, n \in Months : n < m => n \in s
           T == {s \in SUBSET Months : Down(s) => SumOf(fill, s) = Less(share, SumOf(cost, s))}
<1>1. \A s \in SUBSET Months : IsFiniteSet(s) /\ SumOf(cost, s) \in Nat
  BY Grid, FS_Subset, SumNat
<1>2. ASSUME NEW m \in Months
      PROVE  /\ fill[m] = Less(cost[m], Minus(share, SumOf(cost, Under(m))))
             /\ SumOf(cost, Under(m)) \in Nat
             /\ fill[m] \in Nat /\ fill[m] <= cost[m]
  <2>1. IsFiniteSet(Under(m)) /\ SumOf(cost, Under(m)) \in Nat
    BY <1>1
  <2>2. Before(cost, m) = SumOf(cost, Under(m))
    BY <2>1, TotalIsSum DEF Before
  <2>3. fill[m] = Less(cost[m], Minus(share, Before(cost, m)))
    BY DEF FillInOrder
  <2> QED
    BY <2>1, <2>2, <2>3 DEF Less, Minus
<1>3. DOMAIN fill = Months
  BY DEF FillInOrder
<1> HIDE DEF fill
<1>4. ASSUME NEW s \in SUBSET Months, \A u \in SUBSET s : u # s => u \in T PROVE s \in T
  <2> SUFFICES ASSUME Down(s) PROVE SumOf(fill, s) = Less(share, SumOf(cost, s))
    OBVIOUS
  <2>1. CASE s = {}
    BY <2>1, SumEmpty DEF Less
  <2>2. CASE s # {}
    <3>1. s \subseteq Nat
      BY SettlementAssumption
    <3>2. PICK m \in s : \A n \in s : n <= m
      BY <1>1, <2>2, <3>1, GreatestNat
    <3>3. m \in Nat /\ \A n \in s : n \in Nat
      BY <3>1
    <3>4. s \ {m} = Under(m)
      <4>1. \A n \in s \ {m} : n < m
        BY <3>2, <3>3
      <4>2. \A n \in Under(m) : n \in s /\ n # m
        BY <3>2, <3>3
      <4> QED
        BY <4>1, <4>2
    <3>5. Down(s \ {m})
      <4>1. ASSUME NEW k \in s \ {m}, NEW n \in Months, n < k PROVE n \in s \ {m}
        <5>1. n \in s /\ k <= m /\ n \in Nat /\ k \in Nat
          BY <3>2, <3>3, <4>1
        <5> QED
          BY <3>3, <4>1, <5>1
      <4> QED
        BY <4>1
    <3>6. SumOf(fill, s \ {m}) = Less(share, SumOf(cost, s \ {m}))
      <4>1. s \ {m} \in SUBSET s /\ s \ {m} # s
        BY <3>2
      <4>2. s \ {m} \in T
        BY <1>4, <4>1
      <4> QED
        BY <3>5, <4>2
    <3> DEFINE b == SumOf(cost, s \ {m})
    <3>7. SumOf(cost, s) = cost[m] + b /\ SumOf(fill, s) = fill[m] + SumOf(fill, s \ {m})
      <4>1. \A n \in s : cost[n] \in Nat /\ fill[n] \in Nat
        BY <1>2
      <4> QED
        BY <1>1, <3>2, <4>1, SumTake
    <3>8. fill[m] = Less(cost[m], Minus(share, b)) /\ cost[m] \in Nat /\ b \in Nat
      BY <1>1, <1>2, <3>2, <3>4
    <3> HIDE DEF b
    <3>9. SumOf(fill, s) = Less(share, cost[m] + b)
      BY <3>6, <3>7, <3>8 DEF Less, Minus, b
    <3> QED
      BY <3>7, <3>9
  <2> QED
    BY <2>1, <2>2
<1> HIDE DEF T
<1>5. \A s \in SUBSET Months : s \in T
  <2>1. IsFiniteSet(Months)
    BY Grid
  <2> QED
    BY <1>4, <2>1, SetInduction
<1>6. SumOf(fill, Months) = Less(share, SumOf(cost, Months))
  BY <1>5 DEF T
<1> QED
  BY <1>2, <1>3, <1>6 DEF fill

(* A share of no more than the months cost is spent to the last satang.     *)
LEMMA SpreadSpends ==
  ASSUME NEW cost, DOMAIN cost = Months, \A m \in Months : cost[m] \in Nat,
         NEW share \in Nat, share <= SumOf(cost, Months)
  PROVE  LET out == SpreadOver(share, cost) IN
         /\ DOMAIN out = Months
         /\ \A m \in Months : out[m] \in Nat /\ out[m] <= cost[m]
         /\ SumOf(out, Months) = share
<1> DEFINE all   == Total(cost, Months)
           floor == [m \in Months |-> IF all = 0 THEN 0 ELSE WholeBaht((share * cost[m]) \div all)]
           room  == [m \in Months |-> cost[m] - floor[m]]
           given == Total(floor, Months)
           more  == FillInOrder(Minus(share, given), room)
           out   == [m \in Months |-> floor[m] + more[m]]
<1>1. IsFiniteSet(Months)
  BY Grid
<1>2. SpreadOver(share, cost) = out
  BY DEF SpreadOver
<1>3. all = SumOf(cost, Months) /\ all \in Nat /\ share <= all
  BY <1>1, TotalIsSum, SumNat
<1>4. \A m \in Months : room[m] = cost[m] - floor[m]
  OBVIOUS
<1>5. \A m \in Months : floor[m] \in Nat /\ floor[m] <= cost[m]
  <2>1. CASE all = 0
    BY <2>1
  <2>2. ASSUME all # 0, NEW m \in Months
        PROVE  floor[m] \in Nat /\ floor[m] <= cost[m]
    <3> DEFINE d == (share * cost[m]) \div all
    <3>1. cost[m] \in Nat /\ all \in Nat \ {0}
      BY <1>3, <2>2
    <3>2. share * cost[m] \in Nat /\ share * cost[m] <= all * cost[m]
      <4>1. cost[m] * share \in Nat /\ cost[m] * share <= cost[m] * all
        BY <1>3, <3>1, Multiplied
      <4> HIDE DEF all
      <4> QED
        BY <1>3, <3>1, <4>1
    <3>3. d \in Nat /\ d <= cost[m]
      BY <3>1, <3>2, DivFloor, DivScaled
    <3>4. floor[m] = WholeBaht(d)
      BY <2>2
    <3> HIDE DEF d, floor
    <3> QED
      BY <3>1, <3>3, <3>4, Rounded
  <2> QED
    BY <2>1, <2>2
<1>6. SumOf(floor, Months) \in Nat /\ SumOf(floor, Months) <= share
  <2>1. CASE all = 0
    <3>1. \A m \in Months : floor[m] = 0
      BY <2>1
    <3> HIDE DEF floor
    <3> QED
      BY <1>1, <3>1, SumZero
  <2>2. CASE all # 0
    <3>1. \A m \in Months : floor[m] = WholeBaht((share * cost[m]) \div all)
      BY <2>2
    <3> HIDE DEF floor, all
    <3>2. all \in Nat \ {0} /\ all = SumOf(cost, Months)
      BY <1>3, <2>2
    <3> QED
      BY <1>1, <3>1, <3>2, Proportions
  <2> QED
    BY <2>1, <2>2
<1>7. given = SumOf(floor, Months)
  BY <1>1, TotalIsSum
<1> HIDE DEF floor, all, given
<1>8. \A m \in Months : room[m] \in Nat /\ cost[m] = floor[m] + room[m]
  BY <1>4, <1>5
<1>9. DOMAIN room = Months
  OBVIOUS
<1> HIDE DEF room
<1>10. SumOf(cost, Months) = given + SumOf(room, Months) /\ SumOf(room, Months) \in Nat
  <2>1. \A m \in Months : floor[m] \in Nat /\ room[m] \in Nat /\ cost[m] = floor[m] + room[m]
    BY <1>5, <1>8
  <2> QED
    BY <1>1, <1>7, <2>1, SumPlus, SumNat
<1>11. Minus(share, given) \in Nat /\ Minus(share, given) = share - given
  BY <1>6, <1>7 DEF Minus
<1>12. /\ \A m \in Months : more[m] \in Nat /\ more[m] <= room[m]
       /\ SumOf(more, Months) = Less(Minus(share, given), SumOf(room, Months))
  BY <1>8, <1>9, <1>11, FillFills
<1> HIDE DEF more
<1>13. SumOf(more, Months) = share - given
  BY <1>3, <1>6, <1>7, <1>10, <1>11, <1>12 DEF Less
<1>14. \A m \in Months : out[m] = floor[m] + more[m]
  OBVIOUS
<1>15. DOMAIN out = Months
  OBVIOUS
<1> HIDE DEF out
<1>16. SumOf(out, Months) = share
  <2>1. \A m \in Months : floor[m] \in Nat /\ more[m] \in Nat /\ out[m] = floor[m] + more[m]
    BY <1>5, <1>12, <1>14
  <2>2. SumOf(out, Months) = SumOf(floor, Months) + SumOf(more, Months)
    BY <1>1, <2>1, SumPlus
  <2> QED
    BY <1>6, <1>7, <1>13, <2>2
<1>17. \A m \in Months : out[m] \in Nat /\ out[m] <= cost[m]
  BY <1>4, <1>5, <1>8, <1>12, <1>14
<1> QED
  BY <1>2, <1>15, <1>16, <1>17

(* A pool of k that is short: each gets the same share of it.               *)
Owed(cost, t) == SumOf(Row(cost, t), Months)
Short(k, cost) == k \in Nat \ {0} /\ k < SumOf(cost, Cells)

LEMMA OwedAdd ==
  ASSUME NEW cost, \A c \in Cells : cost[c] \in Nat
  PROVE  /\ \A t \in TAs : /\ DOMAIN Row(cost, t) = Months
                           /\ \A m \in Months : Row(cost, t)[m] = cost[<<t, m>>] /\ Row(cost, t)[m] \in Nat
                           /\ Owed(cost, t) \in Nat /\ Owed(cost, t) = Total(Row(cost, t), Months)
         /\ SumOf(cost, Cells) = SumOf([t \in TAs |-> Owed(cost, t)], TAs)
         /\ SumOf(cost, Cells) \in Nat /\ SumOf(cost, Cells) = Total(cost, Cells)
         /\ \A t \in TAs : Owed(cost, t) <= SumOf(cost, Cells)
<1>1. IsFiniteSet(Months) /\ IsFiniteSet(Cells) /\ IsFiniteSet(TAs)
  BY Grid
<1>2. \A t \in TAs : /\ DOMAIN Row(cost, t) = Months
                     /\ \A m \in Months : Row(cost, t)[m] = cost[<<t, m>>] /\ Row(cost, t)[m] \in Nat
  BY Grid DEF Row
<1>3. \A t \in TAs : Owed(cost, t) \in Nat /\ Owed(cost, t) = Total(Row(cost, t), Months)
  BY <1>1, <1>2, SumNat, TotalIsSum DEF Owed
<1> DEFINE g == [t \in TAs |-> Owed(cost, t)]
<1>4. \A t \in TAs : g[t] = SumOf(Row(cost, t), Months) /\ g[t] = Owed(cost, t) /\ g[t] \in Nat
  BY <1>3 DEF Owed
<1> HIDE DEF g
<1>5. SumOf(cost, Cells) = SumOf(g, TAs)
  BY <1>4, RowsAdd
<1>6. SumOf(cost, Cells) \in Nat /\ SumOf(cost, Cells) = Total(cost, Cells)
  BY <1>1, SumNat, TotalIsSum
<1>7. ASSUME NEW t \in TAs PROVE Owed(cost, t) <= SumOf(cost, Cells)
  <2>1. IsFiniteSet(TAs \ {t})
    BY <1>1, FS_Subset
  <2>2. SumOf(g, TAs \ {t}) \in Nat
    BY <1>4, <2>1, SumNat
  <2>3. SumOf(g, TAs) = g[t] + SumOf(g, TAs \ {t})
    BY <1>1, <1>4, SumTake
  <2> QED
    BY <1>4, <1>5, <2>2, <2>3
<1> QED
  BY <1>2, <1>3, <1>5, <1>6, <1>7 DEF g

LEMMA SettleShort ==
  ASSUME NEW mode, NEW k, NEW cost, \A c \in Cells : cost[c] \in Nat, Short(k, cost),
         NEW out, out = Settle(mode, k, 0, cost)
  PROVE  /\ \A c \in Cells : out[c] \in Nat /\ out[c] <= cost[c]
         /\ \A t \in TAs : Owed(out, t) = Share(k, Owed(cost, t), SumOf(cost, Cells))
<1> DEFINE all == SumOf(cost, Cells)
           share(t) == Share(k, Owed(cost, t), all)
           placed(t) == IF mode = "spread" THEN SpreadOver(share(t), Row(cost, t))
                        ELSE FillInOrder(share(t), Row(cost, t))
<1>1. all = Total(cost, Cells) /\ all \in Nat \ {0} /\ k \in Nat \ {0} /\ k < all
  <2>1. all = Total(cost, Cells) /\ all \in Nat
    BY OwedAdd
  <2>2. k \in Nat \ {0} /\ k < all
    BY DEF Short
  <2> HIDE DEF all
  <2> QED
    BY <2>1, <2>2
<1>2. Minus(k, 0) = k
  BY <1>1 DEF Minus
<1>3. \A t \in TAs : Total(Row(cost, t), Months) = Owed(cost, t)
  BY OwedAdd
<1>4. out = [c \in Cells |-> placed(c[1])[c[2]]]
  <2> DEFINE own(t) == Row(cost, t)
             p2(t) == LET sh == Share(k, Total(own(t), Months), Total(cost, Cells))
                      IN  IF mode = "spread" THEN SpreadOver(sh, own(t)) ELSE FillInOrder(sh, own(t))
  <2>1. Settle(mode, k, 0, cost) = [c \in Cells |-> p2(c[1])[c[2]]]
    BY <1>1, <1>2 DEF Settle
  <2>2. \A t \in TAs : p2(t) = placed(t)
    BY <1>1, <1>3
  <2>3. \A c \in Cells : p2(c[1])[c[2]] = placed(c[1])[c[2]]
    BY <2>2, Grid
  <2> HIDE DEF p2, placed
  <2> QED
    BY <2>1, <2>3
<1>5. ASSUME NEW t \in TAs
      PROVE  /\ share(t) \in Nat /\ share(t) <= Owed(cost, t)
             /\ DOMAIN placed(t) = Months
             /\ \A m \in Months : placed(t)[m] \in Nat /\ placed(t)[m] <= Row(cost, t)[m]
             /\ SumOf(placed(t), Months) = share(t)
  <2> DEFINE own == Row(cost, t)
             o == Owed(cost, t)
             d == (k * o) \div all
             sh == share(t)
  <2>1. DOMAIN own = Months /\ (\A m \in Months : own[m] \in Nat) /\ o \in Nat /\ o = SumOf(own, Months)
    BY OwedAdd DEF Owed
  <2>2. k * o \in Nat /\ k * o <= all * o
    <3> HIDE DEF all, o
    <3>1. o * k \in Nat /\ o * k <= o * all
      BY <1>1, <2>1, Multiplied
    <3> QED
      BY <1>1, <2>1, <3>1
  <2>3. sh = WholeBaht(d)
    BY DEF Share
  <2> HIDE DEF sh, o, all, own
  <2>4. d \in Nat /\ d <= o
    BY <1>1, <2>1, <2>2, DivFloor, DivScaled
  <2> HIDE DEF d
  <2>5. sh \in Nat /\ sh <= o
    BY <2>1, <2>3, <2>4, Rounded
  <2>6. CASE mode = "spread"
    <3>1. placed(t) = SpreadOver(sh, own)
      BY <2>6 DEF sh, own, all
    <3>2. sh <= SumOf(own, Months)
      BY <2>1, <2>5
    <3> HIDE DEF placed
    <3> DEFINE q == SpreadOver(sh, own)
    <3>3. DOMAIN q = Months /\ (\A m \in Months : q[m] \in Nat /\ q[m] <= own[m]) /\ SumOf(q, Months) = sh
      BY <2>1, <2>5, <3>2, SpreadSpends
    <3> HIDE DEF q
    <3>4. placed(t) = q
      BY <3>1 DEF q
    <3> QED
      BY <2>5, <3>3, <3>4 DEF sh, own, o, all
  <2>7. CASE mode # "spread"
    <3>1. placed(t) = FillInOrder(sh, own)
      BY <2>7 DEF sh, own, all
    <3> HIDE DEF placed
    <3> DEFINE q == FillInOrder(sh, own)
    <3>3. /\ DOMAIN q = Months /\ \A m \in Months : q[m] \in Nat /\ q[m] <= own[m]
          /\ SumOf(q, Months) = Less(sh, SumOf(own, Months))
      BY <2>1, <2>5, FillFills
    <3> HIDE DEF q
    <3>4. placed(t) = q /\ SumOf(q, Months) = sh
      BY <2>1, <2>5, <3>1, <3>3 DEF q, Less
    <3> QED
      BY <2>5, <3>3, <3>4 DEF sh, own, o, all
  <2> QED
    BY <2>6, <2>7
<1> HIDE DEF placed, share
<1>6. \A t \in TAs : /\ DOMAIN placed(t) = Months
                     /\ \A m \in Months : placed(t)[m] \in Nat /\ placed(t)[m] <= cost[<<t, m>>]
  BY <1>5, OwedAdd
<1>7. \A c \in Cells : out[c] \in Nat /\ out[c] <= cost[c]
  BY <1>4, <1>6, Grid
<1>8. ASSUME NEW t \in TAs PROVE Owed(out, t) = share(t)
  <2> DEFINE f == Row(out, t)
  <2>1. \A m \in Months : f[m] = placed(t)[m]
    BY <1>4, Grid DEF Row
  <2>2. Owed(out, t) = SumOf(f, Months)
    BY DEF Owed
  <2>3. IsFiniteSet(Months)
    BY Grid
  <2> HIDE DEF f
  <2>4. SumOf(f, Months) = SumOf(placed(t), Months)
    BY <2>1, <2>3, SumSame
  <2> QED
    BY <1>5, <2>2, <2>4
<1> QED
  BY <1>7, <1>8 DEF share

LEMMA SettleTotals ==
  ASSUME NEW mode, NEW k, NEW cost, \A c \in Cells : cost[c] \in Nat, Short(k, cost),
         NEW out, out = Settle(mode, k, 0, cost)
  PROVE  /\ SumOf(out, Cells) <= k
         /\ k < SumOf(out, Cells) + Cardinality(TAs) * Baht
         /\ k = 1 /\ Baht # 1 => SumOf(out, Cells) = 0
<1> DEFINE all == SumOf(cost, Cells)
           f == [t \in TAs |-> Owed(cost, t)]
           q == [t \in TAs |-> Owed(out, t)]
<1>1. all \in Nat \ {0} /\ k \in Nat \ {0} /\ k < all /\ IsFiniteSet(TAs)
  <2>1. all \in Nat /\ IsFiniteSet(TAs)
    BY OwedAdd, Grid
  <2>2. k \in Nat \ {0} /\ k < all
    BY DEF Short
  <2> HIDE DEF all
  <2> QED
    BY <2>1, <2>2
<1>2. /\ \A t \in TAs : f[t] = Owed(cost, t) /\ f[t] \in Nat /\ f[t] <= all
      /\ all = SumOf(f, TAs)
  BY OwedAdd
<1>3. \A c \in Cells : out[c] \in Nat
  BY SettleShort
<1>4. \A t \in TAs : q[t] = Owed(out, t) /\ q[t] \in Nat
  BY <1>3, OwedAdd
<1>5. SumOf(out, Cells) = SumOf(q, TAs)
  BY <1>3, OwedAdd
<1>6. \A t \in TAs : q[t] = Share(k, Owed(cost, t), all)
  BY SettleShort
<1> HIDE DEF q, f, all
<1>7. \A t \in TAs : q[t] = WholeBaht((k * f[t]) \div all)
  BY <1>2, <1>6 DEF Share
<1>8. SumOf(q, TAs) <= k /\ k < SumOf(q, TAs) + Cardinality(TAs) * Baht
  BY <1>1, <1>2, <1>7, Proportions
<1>9. ASSUME k = 1, Baht # 1 PROVE SumOf(q, TAs) = 0
  <2>1. ASSUME NEW t \in TAs PROVE q[t] = 0
    <3> DEFINE d == f[t] \div all
    <3>1. f[t] \in Nat /\ k * f[t] = f[t] /\ f[t] <= all * 1
      BY <1>1, <1>2, <1>9
    <3>2. d \in Nat /\ d <= 1
      BY <1>1, <3>1, DivFloor, DivScaled
    <3>3. q[t] = WholeBaht(d)
      BY <1>7, <3>1
    <3> HIDE DEF d
    <3>4. Baht \in Nat /\ Baht > 1
      BY <1>9, SettlementAssumption
    <3>5. d \div Baht = 0
      BY <3>2, <3>4
    <3> QED
      BY <3>3, <3>4, <3>5 DEF WholeBaht
  <2> QED
    BY <1>1, <2>1, SumZero
<1> QED
  BY <1>5, <1>8, <1>9

LEMMA SettlePays ==
  ASSUME NEW mode, NEW cap \in Nat, NEW cost, \A c \in Cells : cost[c] \in Nat,
         NEW out, out = Settle(mode, cap, 0, cost)
  PROVE  /\ \A c \in Cells : out[c] \in Nat /\ out[c] <= cost[c]
         /\ cap = 0 \/ SumOf(cost, Cells) <= cap => out = cost
         /\ cap # 0 /\ ~(SumOf(cost, Cells) <= cap) => Short(cap, cost)
<1>1. SumOf(cost, Cells) = Total(cost, Cells) /\ SumOf(cost, Cells) \in Nat
  BY OwedAdd
<1>2. Minus(cap, 0) = cap
  BY DEF Minus
<1>3. CASE cap = 0 \/ SumOf(cost, Cells) <= cap
  <2>1. out = cost
    BY <1>1, <1>2, <1>3 DEF Settle
  <2> QED
    BY <1>3, <2>1
<1>4. CASE ~(cap = 0 \/ SumOf(cost, Cells) <= cap)
  <2>1. Short(cap, cost)
    BY <1>1, <1>4 DEF Short
  <2> QED
    BY <1>4, <2>1, SettleShort
<1> QED
  BY <1>3, <1>4

(* Nobody is paid more than the cost, what was paid stays paid, and together *)
(* it is no more than the pool.                                             *)
LEMMA FrozenPays ==
  ASSUME NEW mode, NEW cap \in Nat, NEW cost, \A c \in Cells : cost[c] \in Nat,
         NEW paid, DOMAIN paid \subseteq Cells,
         \A c \in DOMAIN paid : paid[c] \in Nat /\ paid[c] <= cost[c],
         NEW out, out = SettleFrozen(mode, cap, 0, cost, paid)
  PROVE  /\ out \in [Cells -> Nat]
         /\ \A c \in Cells : out[c] <= cost[c]
         /\ \A c \in DOMAIN paid : out[c] = paid[c]
         /\ (/\ cap # 0 /\ Baht # 1 /\ SumOf(paid, DOMAIN paid) <= cap
             /\ \A c \in Cells \ DOMAIN paid : cost[c] # 1)
            => SumOf(out, Cells) <= cap
<1> DEFINE locked == {c \in DOMAIN paid : cost[c] > 0}
           live   == [c \in Cells |-> IF c \in locked THEN 0 ELSE cost[c]]
           got    == Total(paid, locked)
           left   == Left(cap, got)
           rest   == Settle(mode, left, 0, live)
           kept   == [c \in Cells |-> IF c \in locked THEN paid[c] ELSE 0]
<1>1. out = [c \in Cells |-> IF c \in locked THEN Less(cost[c], paid[c]) ELSE rest[c]]
  BY DEF SettleFrozen
<1>2. IsFiniteSet(Cells) /\ IsFiniteSet(DOMAIN paid) /\ IsFiniteSet(locked)
  BY Grid, FS_Subset
<1>3. got = SumOf(paid, locked) /\ got \in Nat /\ got <= SumOf(paid, DOMAIN paid)
  <2>1. \A c \in locked : paid[c] \in Nat
    OBVIOUS
  <2>2. locked \in SUBSET DOMAIN paid
    OBVIOUS
  <2>3. got = SumOf(paid, locked)
    BY <1>2, TotalIsSum
  <2> HIDE DEF locked, got
  <2> QED
    BY <1>2, <2>1, <2>2, <2>3, SumNat, SumPart
<1>4. left \in Nat /\ (cap # 0 => left # 0) /\ (cap # 0 /\ got < cap => left = cap - got)
      /\ (cap # 0 /\ got = cap => left = 1)
  <2> HIDE DEF got
  <2> QED
    BY <1>3 DEF Left
<1>5. \A c \in Cells : live[c] \in Nat /\ (c \in DOMAIN paid => live[c] = 0)
                      /\ (c \in locked => live[c] = 0) /\ live[c] <= cost[c]
  OBVIOUS
<1>6. \A c \in Cells \ DOMAIN paid : live[c] = cost[c]
  OBVIOUS
<1>7. /\ \A c \in Cells : kept[c] \in Nat
      /\ \A c \in Cells : c \in locked => kept[c] = paid[c]
      /\ \A c \in Cells : c \notin locked => kept[c] = 0
  OBVIOUS
<1>8. \A c \in DOMAIN paid : c \notin locked => paid[c] = 0 /\ cost[c] = 0
  OBVIOUS
<1>9. locked \in SUBSET Cells /\ locked \subseteq DOMAIN paid
  OBVIOUS
<1> HIDE DEF live, got, left, kept, locked
<1>10. /\ \A c \in Cells : rest[c] \in Nat /\ rest[c] <= live[c]
       /\ left = 0 \/ SumOf(live, Cells) <= left => rest = live
       /\ left # 0 /\ ~(SumOf(live, Cells) <= left) => Short(left, live)
  <2>1. \A c \in Cells : live[c] \in Nat
    BY <1>5
  <2>2. PICK r : r = rest
    OBVIOUS
  <2> HIDE DEF rest
  <2> QED
    BY <1>4, <2>1, <2>2, SettlePays DEF rest
<1> HIDE DEF rest
<1>16. \A c \in Cells : rest[c] \in Nat /\ rest[c] <= live[c] /\ live[c] \in Nat
  BY <1>5, <1>10
<1>17. \A c \in locked : c \in Cells /\ paid[c] \in Nat /\ paid[c] <= cost[c]
  BY <1>9
<1>18. \A c \in DOMAIN paid : c \in Cells
  OBVIOUS
<1>11. \A c \in Cells : /\ c \in locked => out[c] = paid[c]
                        /\ c \notin locked => out[c] = rest[c]
  <2>1. \A c \in locked : Less(cost[c], paid[c]) = paid[c]
    BY <1>9 DEF Less
  <2> QED
    BY <1>1, <2>1
<1>12. \A c \in Cells : out[c] \in Nat /\ out[c] <= cost[c]
  <2> TAKE c \in Cells
  <2>1. CASE c \in locked
    <3>1. out[c] = paid[c] /\ paid[c] \in Nat /\ paid[c] <= cost[c]
      BY <1>17, <1>11, <2>1
    <3> QED
      BY <3>1
  <2>2. CASE c \notin locked
    <3>1. out[c] = rest[c] /\ rest[c] \in Nat /\ rest[c] <= live[c] /\ live[c] \in Nat
      BY <1>11, <1>16, <2>2
    <3>2. live[c] <= cost[c] /\ cost[c] \in Nat
      BY <1>5
    <3> QED
      BY <3>1, <3>2
  <2> QED
    BY <2>1, <2>2
<1>13. \A c \in DOMAIN paid : out[c] = paid[c]
  <2> TAKE c \in DOMAIN paid
  <2>1. CASE c \notin locked
    <3>1. out[c] = rest[c] /\ rest[c] \in Nat /\ rest[c] <= live[c] /\ live[c] = 0 /\ paid[c] = 0
      BY <1>5, <1>8, <1>11, <1>16, <2>1
    <3> QED
      BY <3>1
  <2> QED
    BY <1>11, <1>18, <2>1
<1>14. ASSUME cap # 0, Baht # 1, SumOf(paid, DOMAIN paid) <= cap,
              \A c \in Cells \ DOMAIN paid : cost[c] # 1
       PROVE  SumOf(out, Cells) <= cap
  <2>1. /\ SumOf(kept, Cells) = got
    <3>1. SumOf(kept, Cells) = SumOf(kept, locked) + SumOf(kept, Cells \ locked)
      BY <1>2, <1>7, <1>9, SumSplit
    <3>2. \A c \in locked : kept[c] = paid[c]
      BY <1>7, <1>9
    <3>3. SumOf(kept, locked) = SumOf(paid, locked)
      BY <1>2, <3>2, SumSame
    <3>4. IsFiniteSet(Cells \ locked) /\ \A c \in Cells \ locked : kept[c] = 0
      BY <1>2, <1>7, FS_Subset
    <3>5. SumOf(kept, Cells \ locked) = 0
      BY <3>4, SumZero
    <3> QED
      BY <1>3, <3>1, <3>3, <3>5
  <2>2. got <= cap /\ SumOf(paid, DOMAIN paid) \in Nat
    <3>1. SumOf(paid, DOMAIN paid) \in Nat
      BY <1>2, SumNat
    <3> QED
      BY <1>3, <1>14, <3>1
  <2>3. SumOf(out, Cells) = SumOf(kept, Cells) + SumOf(rest, Cells)
    <3>1. \A c \in Cells : kept[c] \in Nat /\ rest[c] \in Nat /\ out[c] = kept[c] + rest[c]
      <4> TAKE c \in Cells
      <4>1. rest[c] \in Nat /\ rest[c] <= live[c] /\ (c \in locked => live[c] = 0)
        BY <1>5, <1>16
      <4>2. CASE c \in locked
        <5>1. out[c] = paid[c] /\ kept[c] = paid[c] /\ paid[c] \in Nat
          BY <1>7, <1>17, <1>11, <4>2
        <5>2. rest[c] = 0
          BY <4>1, <4>2
        <5> QED
          BY <5>1, <5>2
      <4>3. CASE c \notin locked
        <5>1. out[c] = rest[c] /\ kept[c] = 0
          BY <1>7, <1>11, <4>3
        <5> QED
          BY <4>1, <5>1
      <4> QED
        BY <4>2, <4>3
    <3> QED
      BY <1>2, <3>1, SumPlus
  <2>4. SumOf(live, Cells) \in Nat /\ SumOf(rest, Cells) \in Nat
    <3> QED
      BY <1>2, <1>5, <1>10, SumNat
  <2>5. SumOf(live, Cells) # 1
    <3> SUFFICES ASSUME SumOf(live, Cells) = 1 PROVE FALSE
      OBVIOUS
    <3>1. PICK c \in Cells : live[c] # 0
      BY <1>2, SumZero
    <3>2. live[c] \in Nat /\ live[c] # 1
      BY <1>5, <1>6, <1>14, <3>1
    <3>3. IsFiniteSet(Cells \ {c}) /\ \A d \in Cells : live[d] \in Nat
      BY <1>2, <1>5, FS_Subset
    <3>4. SumOf(live, Cells) = live[c] + SumOf(live, Cells \ {c})
      BY <1>2, <3>3, SumTake
    <3>5. SumOf(live, Cells \ {c}) \in Nat
      BY <3>3, SumNat
    <3> QED
      BY <3>1, <3>2, <3>4, <3>5
  <2>6. SumOf(rest, Cells) <= cap - got
    <3>1. CASE SumOf(live, Cells) <= left
      <4>1. rest = live
        BY <1>10, <3>1
      <4>2. SumOf(rest, Cells) = SumOf(live, Cells)
        BY <4>1
      <4> QED
        BY <1>3, <1>4, <1>14, <2>2, <2>4, <2>5, <3>1, <4>2
    <3>2. CASE ~(SumOf(live, Cells) <= left)
      <4>1. Short(left, live) /\ \A c \in Cells : live[c] \in Nat
        BY <1>4, <1>5, <1>10, <1>14, <3>2
      <4>2. /\ SumOf(rest, Cells) <= left
            /\ left = 1 => SumOf(rest, Cells) = 0
        <5>1. PICK r : r = rest
          OBVIOUS
        <5>2. r = Settle(mode, left, 0, live)
          BY <5>1 DEF rest
        <5>3. SumOf(r, Cells) <= left /\ (left = 1 => SumOf(r, Cells) = 0)
          BY <1>14, <4>1, <5>2, SettleTotals
        <5> QED
          BY <5>1, <5>3
      <4> QED
        BY <1>3, <1>4, <1>14, <2>2, <2>4, <4>2
    <3> QED
      BY <3>1, <3>2
  <2> QED
    BY <1>3, <2>1, <2>2, <2>3, <2>4, <2>6
<1>15. out \in [Cells -> Nat]
  <2>1. DOMAIN out = Cells /\ out = [c \in Cells |-> out[c]]
    BY <1>1
  <2> QED
    BY <1>12, <2>1
<1> QED
  BY <1>12, <1>13, <1>14, <1>15

-----------------------------------------------------------------------------
(* A lump falls into whole amounts.                                         *)
LEMMA PlacedLump ==
  ASSUME NEW l \in Nat, NEW w, DOMAIN w \subseteq Months, \A m \in DOMAIN w : w[m] \in Nat
  PROVE  PlaceLump(l, w) \in [Months -> Nat]
<1> DEFINE opened == {m \in DOMAIN w : w[m] > 0}
           all   == Total(w, opened)
           floor == [m \in opened |-> (l * w[m]) \div all]
           rest  == Minus(l, Total(floor, opened))
           out   == [m \in Months |-> IF m \notin opened THEN 0
                                     ELSE floor[m] + (IF m = Least(opened) THEN rest ELSE 0)]
<1>1. PlaceLump(l, w) = out
  BY DEF PlaceLump
<1>2. IsFiniteSet(opened) /\ all = SumOf(w, opened)
  <2>1. IsFiniteSet(opened)
    BY Grid, FS_Subset
  <2> QED
    BY <2>1, TotalIsSum
<1>3. \A m \in opened : w[m] \in Nat \ {0}
  OBVIOUS
<1>4. \A m \in opened : floor[m] = (l * w[m]) \div all
  OBVIOUS
<1> HIDE DEF opened, all, floor
<1>5. ASSUME NEW m \in opened PROVE floor[m] \in Nat
  <2>1. IsFiniteSet(opened \ {m})
    BY <1>2, FS_Subset
  <2>2. SumOf(w, opened \ {m}) \in Nat
    BY <1>3, <2>1, SumNat
  <2>3. SumOf(w, opened) = w[m] + SumOf(w, opened \ {m})
    BY <1>2, <1>3, SumTake
  <2>4. all \in Nat \ {0} /\ w[m] \in Nat
    BY <1>2, <1>3, <2>2, <2>3
  <2>5. l * w[m] \in Nat
    BY <2>4, Multiplied
  <2>6. (l * w[m]) \div all \in Nat
    BY <2>4, <2>5, DivFloor
  <2> QED
    BY <1>4, <2>6
<1>6. rest \in Nat
  <2>1. Total(floor, opened) = SumOf(floor, opened)
    BY <1>2, TotalIsSum
  <2>2. SumOf(floor, opened) \in Nat
    BY <1>2, <1>5, SumNat
  <2> QED
    BY <2>1, <2>2 DEF Minus
<1> HIDE DEF rest
<1> QED
  BY <1>1, <1>5, <1>6

LEMMA SplitTyped ==
  ASSUME NEW l \in Nat, NEW w, \A m \in Months : w[m] \in Nat,
         NEW z, DOMAIN z \subseteq Months, \A m \in DOMAIN z : z[m] \in Nat
  PROVE  SplitLump(l, w, z) \in [Months -> Nat]
<1> DEFINE opened == Months \ DOMAIN z
           left == Minus(l, Total(z, DOMAIN z))
           with(v) == PlaceLump(left, [m \in opened |-> v[m]])
           even == [m \in Months |-> 1]
           placed == IF Total(w, opened) > 0 THEN with(w) ELSE with(even)
<1>1. SplitLump(l, w, z) = [m \in Months |-> IF m \in DOMAIN z THEN z[m] ELSE placed[m]]
  BY DEF SplitLump
<1>2. left \in Nat
  <2>1. IsFiniteSet(DOMAIN z)
    BY Grid, FS_Subset
  <2>2. SumOf(z, DOMAIN z) \in Nat /\ Total(z, DOMAIN z) = SumOf(z, DOMAIN z)
    BY <2>1, SumNat, TotalIsSum
  <2> QED
    BY <2>2 DEF Minus
<1> HIDE DEF left
<1>3. ASSUME NEW v, \A m \in Months : v[m] \in Nat PROVE with(v) \in [Months -> Nat]
  <2> DEFINE u == [m \in opened |-> v[m]]
  <2>1. DOMAIN u \subseteq Months /\ \A m \in DOMAIN u : u[m] \in Nat
    BY <1>3
  <2> HIDE DEF u
  <2>2. PlaceLump(left, u) \in [Months -> Nat]
    BY <1>2, <2>1, PlacedLump
  <2> QED
    BY <2>2 DEF u
<1>4. \A m \in Months : even[m] \in Nat
  OBVIOUS
<1>5. with(w) \in [Months -> Nat] /\ with(even) \in [Months -> Nat]
  BY <1>3, <1>4
<1>6. placed \in [Months -> Nat]
  BY <1>5
<1> HIDE DEF placed
<1> QED
  BY <1>1, <1>6

-----------------------------------------------------------------------------
(* Types, and that no figure is more than what the hours cost.              *)
RowSet    == [cell : Cells, earned : Nat, paid : Nat, at : Nat]
FrozenSet == [month : Months, baht : Nat, basis : Nat]
BatchSet  == [months : SUBSET Months, at : Nat, version : Nat \ {0}, kept : BOOLEAN,
              paid : [Cells -> Nat]]
PackSet   == [months : SUBSET Months, lump : [Months -> Nat]]
CallSet   == [at : {"idle", "build", "lock", "freeze", "send"}, months : SUBSET Months,
              read : [Cells -> Nat], earned : [Cells -> Nat], paid : [Cells -> Nat],
              lump : [Months -> Nat], basis : Nat]

WithinCost == /\ \A r \in ledger : r.paid <= r.earned
              /\ \A i \in Calls : \A c \in Cells : call[i].paid[c] <= call[i].earned[c]

Typed == LedgerTypeOK /\ WithinCost

LEMMA LeastIn ==
  ASSUME NEW S, S \subseteq Nat, S # {}
  PROVE  Least(S) \in S
<1>1. PICK n \in S : \A m \in S : ~(m < n)
  BY LeastNat
<1>2. \A m \in S : n <= m
  BY <1>1
<1> QED
  BY <1>2 DEF Least

LEMMA NewestIn ==
  ASSUME NEW N, IsFiniteSet(N), N \subseteq Nat, N # {}
  PROVE  Newest(N) \in N /\ \A k \in N : k <= Newest(N)
  BY GreatestNat DEF Newest

LEMMA IdleTyped == Idle \in CallSet /\ \A c \in Cells : Idle.paid[c] <= Idle.earned[c]
<1>1. None \in [Cells -> Nat] /\ \A c \in Cells : None[c] <= None[c]
  BY DEF None
<1>2. [m \in Months |-> 0] \in [Months -> Nat]
  OBVIOUS
<1> HIDE DEF None
<1> QED
  BY <1>1, <1>2 DEF Idle, CallSet

LEMMA InTyped ==
  ASSUME NEW f, \A c \in Cells : f[c] \in Nat, NEW S
  PROVE  /\ In(f, S) \in [Cells -> Nat]
         /\ \A c \in Cells : In(f, S)[c] = IF c[2] \in S THEN f[c] ELSE 0
  BY DEF In

LEMMA FigureTyped ==
  ASSUME Typed
  PROVE  /\ \A c \in Ledgered : /\ Figure[c] \in InForce(c) /\ Figure[c] \in ledger
                                /\ Figure[c].cell = c /\ Figure[c].paid \in Nat
                                /\ Figure[c].earned \in Nat
                                /\ Figure[c].paid <= Figure[c].earned
         /\ DOMAIN Figure = Ledgered /\ Ledgered \subseteq Cells
<1>1. \A c \in Ledgered : Figure[c] \in InForce(c)
  BY DEF Figure, Ledgered
<1>2. \A c : \A r \in InForce(c) : r \in ledger /\ r.cell = c
  BY DEF InForce
<1>3. \A r \in ledger : r.paid \in Nat /\ r.earned \in Nat /\ r.paid <= r.earned
  BY DEF Typed, LedgerTypeOK, WithinCost
<1>4. DOMAIN Figure = Ledgered /\ Ledgered \subseteq Cells
  BY DEF Figure, Ledgered
<1> QED
  BY <1>1, <1>2, <1>3, <1>4

LEMMA CostTyped ==
  ASSUME Typed
  PROVE  /\ \A c \in Cells : Cost[c] \in Nat
         /\ \A c \in Ledgered : Cost[c] = Figure[c].earned
         /\ \A c \in Cells \ Ledgered : Cost[c] = hours[c] * rate
<1>1. \A c \in Cells : hours[c] \in Nat /\ rate \in Nat
  BY PayoutLedgerAssumption DEF Typed, LedgerTypeOK
<1>2. \A c \in Cells : hours[c] * rate \in Nat
  BY <1>1, Multiplied
<1>3. \A c \in Cells : Cost[c] = IF c \in Ledgered THEN Figure[c].earned ELSE hours[c] * rate
  BY DEF Cost
<1> QED
  BY <1>2, <1>3, FigureTyped

LEMMA PaidTyped ==
  ASSUME Typed
  PROVE  /\ \A c \in Cells : Paid[c] \in Nat /\ Paid[c] <= Cost[c]
         /\ \A c \in Ledgered : Paid[c] = Figure[c].paid
         /\ (/\ Cap # 0 /\ Baht # 1 /\ Total([c \in Ledgered |-> Figure[c].paid], Ledgered) <= Cap
             /\ \A c \in Cells \ Ledgered : Cost[c] # 1)
            => SumOf(Paid, Cells) <= Cap
<1> DEFINE z == [c \in Ledgered |-> Figure[c].paid]
<1>1. /\ DOMAIN z = Ledgered /\ Ledgered \subseteq Cells
      /\ \A c \in Ledgered : z[c] \in Nat /\ z[c] <= Cost[c] /\ z[c] = Figure[c].paid
  BY FigureTyped, CostTyped
<1>2. IsFiniteSet(Ledgered)
  BY <1>1, Grid, FS_Subset
<1>3. Total(z, Ledgered) = SumOf(z, Ledgered)
  BY <1>2, TotalIsSum
<1>4. Paid = SettleFrozen(Mode, Cap, 0, Cost, z)
  BY DEF Paid
<1>5. Cap \in Nat
  BY PayoutLedgerAssumption
<1>6. \A c \in Cells : Cost[c] \in Nat
  BY CostTyped
<1> HIDE DEF z
<1>7. /\ Paid \in [Cells -> Nat]
      /\ \A c \in Cells : Paid[c] <= Cost[c]
      /\ \A c \in DOMAIN z : Paid[c] = z[c]
      /\ (/\ Cap # 0 /\ Baht # 1 /\ SumOf(z, DOMAIN z) <= Cap
          /\ \A c \in Cells \ DOMAIN z : Cost[c] # 1)
         => SumOf(Paid, Cells) <= Cap
  BY <1>1, <1>4, <1>5, <1>6, FrozenPays
<1> USE DEF z
<1> QED
  BY <1>1, <1>3, <1>7

LEMMA LumpTyped ==
  ASSUME Typed
  PROVE  /\ DOMAIN FrozenLump \subseteq Months /\ \A m \in DOMAIN FrozenLump : FrozenLump[m] \in Nat
         /\ Basis \in Nat /\ SplitLump(Basis, weight, FrozenLump) \in [Months -> Nat]
<1>1. frozen \subseteq FrozenSet /\ lump \in Nat /\ \A m \in Months : weight[m] \in Nat
  BY PayoutLedgerAssumption DEF Typed, LedgerTypeOK, FrozenSet
<1>2. \A r \in frozen : r.month \in Months /\ r.baht \in Nat /\ r.basis \in Nat
  BY <1>1 DEF FrozenSet
<1>3. DOMAIN FrozenLump \subseteq Months /\ \A m \in DOMAIN FrozenLump : FrozenLump[m] \in Nat
  <2>1. DOMAIN FrozenLump = {r.month : r \in frozen}
    BY DEF FrozenLump
  <2>2. ASSUME NEW r \in frozen PROVE FrozenLump[r.month] \in Nat
    <3>1. PICK q \in frozen : q = CHOOSE x \in frozen : x.month = r.month
      OBVIOUS
    <3> QED
      BY <1>2, <3>1 DEF FrozenLump
  <2> QED
    BY <1>2, <2>1, <2>2
<1>4. Basis \in Nat
  <2>1. CASE frozen = {}
    BY <1>1, <2>1 DEF Basis
  <2>2. CASE frozen # {}
    <3>1. (CHOOSE r \in frozen : TRUE) \in frozen
      BY <2>2
    <3> QED
      BY <1>2, <2>2, <3>1 DEF Basis
  <2> QED
    BY <2>1, <2>2
<1> QED
  BY <1>1, <1>3, <1>4, SplitTyped

(* The parts of the types, to frame a step.                                 *)
CallsFine == /\ call \in [Calls -> CallSet]
             /\ \A i \in Calls : \A c \in Cells : call[i].paid[c] <= call[i].earned[c]
RowsFine  == ledger \subseteq RowSet /\ \A r \in ledger : r.paid <= r.earned

LEMMA TypedParts ==
  Typed <=> /\ hours \in [Cells -> 0..MaxHours] /\ rate \in Rates /\ lump \in Lumps
            /\ weight \in [Months -> 0..MaxHours] /\ time \in 0..MaxTime /\ ops \in Workloads
            /\ cell \in [Cells -> [status : {"open", "reviewed", "locked"}, at : Nat]]
            /\ frozen \subseteq FrozenSet /\ batches \in Seq(BatchSet) /\ sent \subseteq PackSet
            /\ CallsFine /\ RowsFine
  BY DEF Typed, LedgerTypeOK, WithinCost, CallsFine, RowsFine, CallSet, RowSet, FrozenSet, BatchSet,
         PackSet

LEMMA TypedNext ==
  ASSUME hours' \in [Cells -> 0..MaxHours], rate' \in Rates, lump' \in Lumps,
         weight' \in [Months -> 0..MaxHours], time' \in 0..MaxTime, ops' \in Workloads,
         cell' \in [Cells -> [status : {"open", "reviewed", "locked"}, at : Nat]],
         frozen' \subseteq FrozenSet, batches' \in Seq(BatchSet), sent' \subseteq PackSet,
         CallsFine', RowsFine'
  PROVE  Typed'
  BY DEF Typed, LedgerTypeOK, WithinCost, CallsFine, RowsFine, CallSet, RowSet, FrozenSet, BatchSet,
         PackSet

(* A step that only moves a call.                                           *)
LEMMA CallTyped ==
  ASSUME Typed, CallsFine', UNCHANGED <<hours, prices, cell, ledger, frozen, batches, sent, time, ops>>
  PROVE  Typed'
<1>1. /\ UNCHANGED hours /\ UNCHANGED rate /\ UNCHANGED weight /\ UNCHANGED lump /\ UNCHANGED cell
      /\ UNCHANGED ledger /\ UNCHANGED frozen /\ UNCHANGED batches /\ UNCHANGED sent
      /\ UNCHANGED time /\ UNCHANGED ops
  BY DEF prices
<1>2. RowsFine'
  BY <1>1, TypedParts DEF RowsFine
<1> QED
  BY <1>1, <1>2, TypedParts, TypedNext

LEMMA CallMoves ==
  ASSUME CallsFine, NEW i \in Calls, NEW c \in CallSet,
         \A x \in Cells : c.paid[x] <= c.earned[x], To(i, c)
  PROVE  CallsFine'
  BY DEF CallsFine, To

LEMMA TypedInit == LedgerInit => Typed
<1> SUFFICES ASSUME LedgerInit PROVE Typed
  OBVIOUS
<1>1. Least(Rates) \in Rates /\ Least(Lumps) \in Lumps
  BY PayoutLedgerAssumption, LeastIn
<1>2. MaxHours \in Nat \ {0} /\ MaxTime \in Nat
  BY PayoutLedgerAssumption
<1>3. hours \in [Cells -> 0..MaxHours] /\ weight \in [Months -> 0..MaxHours] /\ time \in 0..MaxTime
  BY <1>2 DEF LedgerInit
<1>4. cell \in [Cells -> [status : {"open", "reviewed", "locked"}, at : Nat]]
  BY DEF LedgerInit
<1>5. CallsFine
  BY IdleTyped DEF LedgerInit, CallsFine
<1>6. RowsFine /\ frozen \subseteq FrozenSet /\ batches \in Seq(BatchSet) /\ sent \subseteq PackSet
  BY DEF LedgerInit, RowsFine
<1>7. rate \in Rates /\ lump \in Lumps /\ ops \in Workloads
  BY <1>1 DEF LedgerInit
<1> QED
  BY <1>3, <1>4, <1>5, <1>6, <1>7, TypedParts

LEMMA StartTyped ==
  ASSUME Typed, NEW i \in Calls, Start(i)
  PROVE  Typed'
<1>1. PICK S \in Slices : To(i, [Idle EXCEPT !.at = "build", !.months = S, !.read = In(hours, S)])
  BY DEF Start
<1>2. S \in SUBSET Months
  BY DEF Slices
<1>3. hours \in [Cells -> 0..MaxHours] /\ MaxHours \in Nat
  BY TypedParts, PayoutLedgerAssumption
<1>4. In(hours, S) \in [Cells -> Nat]
  BY <1>3, InTyped
<1> DEFINE c == [Idle EXCEPT !.at = "build", !.months = S, !.read = In(hours, S)]
<1>5. c \in CallSet /\ c.paid = Idle.paid /\ c.earned = Idle.earned
  BY <1>2, <1>4, IdleTyped DEF CallSet
<1> HIDE DEF c
<1>6. CallsFine'
  BY <1>1, <1>5, IdleTyped, TypedParts, CallMoves DEF c
<1>7. UNCHANGED <<hours, prices, cell, ledger, frozen, batches, sent, time, ops>>
  BY DEF Start
<1> QED
  BY <1>6, <1>7, CallTyped

LEMMA BuildTyped ==
  ASSUME Typed, NEW i \in Calls, Build(i)
  PROVE  Typed'
<1> DEFINE S == call[i].months
           c == [call[i] EXCEPT !.at = "lock", !.earned = In(Cost, S), !.paid = In(Paid, S),
                                !.lump = SplitLump(Basis, weight, FrozenLump), !.basis = Basis]
<1>1. To(i, Idle) \/ To(i, c)
  BY DEF Build
<1>2. call[i] \in CallSet /\ CallsFine
  BY TypedParts DEF CallsFine
<1>3. \A x \in Cells : Cost[x] \in Nat /\ Paid[x] \in Nat /\ Paid[x] <= Cost[x]
  BY CostTyped, PaidTyped
<1>4. /\ In(Cost, S) \in [Cells -> Nat] /\ In(Paid, S) \in [Cells -> Nat]
      /\ \A x \in Cells : In(Paid, S)[x] <= In(Cost, S)[x]
  BY <1>3, InTyped
<1>5. c \in CallSet /\ c.paid = In(Paid, S) /\ c.earned = In(Cost, S)
  BY <1>2, <1>4, LumpTyped DEF CallSet
<1> HIDE DEF c
<1>6. CallsFine'
  BY <1>1, <1>2, <1>4, <1>5, IdleTyped, CallMoves
<1>7. UNCHANGED <<hours, prices, cell, ledger, frozen, batches, sent, time, ops>>
  BY DEF Build
<1> QED
  BY <1>6, <1>7, CallTyped

-----------------------------------------------------------------------------
(* A lock stamps its months and rows with the next tick.                    *)
LEMMA LockTyped ==
  ASSUME Typed, NEW i \in Calls, Lock(i)
  PROVE  Typed'
<1>1. call[i] \in CallSet /\ CallsFine /\ RowsFine
  BY TypedParts DEF CallsFine
<1>2. CASE To(i, Idle) /\ UNCHANGED <<cell, ledger, time>>
  <2>1. CallsFine'
    BY <1>1, <1>2, IdleTyped, CallMoves
  <2>2. UNCHANGED <<hours, prices, cell, ledger, frozen, batches, sent, time, ops>>
    BY <1>2 DEF Lock
  <2> QED
    BY <2>1, <2>2, CallTyped
<1>3. CASE call[i].read = In(hours, call[i].months)
  <2> DEFINE new == {c \in NewlyLocked(i) : cell[c].status = "reviewed"}
             row(c) == [cell |-> c, earned |-> call[i].earned[c], paid |-> call[i].paid[c], at |-> time']
  <2>1. /\ time < MaxTime /\ time' = time + 1
        /\ cell' = [c \in Cells |-> IF c \in new THEN [status |-> "locked", at |-> time'] ELSE cell[c]]
        /\ ledger' = ledger \cup {row(c) : c \in NewlyLocked(i)}
        /\ To(i, [call[i] EXCEPT !.at = "freeze"])
        /\ UNCHANGED <<hours, prices, frozen, batches, sent, ops>>
    BY <1>3 DEF Lock
  <2>2. time' \in 0..MaxTime /\ time' \in Nat
    BY <2>1, TypedParts, PayoutLedgerAssumption
  <2>3. cell' \in [Cells -> [status : {"open", "reviewed", "locked"}, at : Nat]]
    <3> HIDE DEF new
    <3>1. \A c \in Cells : cell[c] \in [status : {"open", "reviewed", "locked"}, at : Nat]
      BY TypedParts
    <3>2. [status |-> "locked", at |-> time'] \in [status : {"open", "reviewed", "locked"}, at : Nat]
      BY <2>2
    <3> QED
      BY <2>1, <3>1, <3>2
  <2>4. \A c \in NewlyLocked(i) : row(c) \in RowSet /\ row(c).paid <= row(c).earned
    <3> TAKE c \in NewlyLocked(i)
    <3>1. c \in Cells
      BY DEF NewlyLocked, Worked
    <3>2. call[i].earned[c] \in Nat /\ call[i].paid[c] \in Nat /\ call[i].paid[c] <= call[i].earned[c]
      BY <1>1, <3>1 DEF CallsFine, CallSet
    <3> QED
      BY <2>2, <3>1, <3>2 DEF RowSet
  <2> HIDE DEF row
  <2>5. RowsFine'
    BY <1>1, <2>1, <2>4 DEF RowsFine
  <2>6. CallsFine'
    <3>1. PICK k : k = [call[i] EXCEPT !.at = "freeze"]
      OBVIOUS
    <3>2. k \in CallSet /\ k.paid = call[i].paid /\ k.earned = call[i].earned
      BY <1>1, <3>1 DEF CallSet
    <3>3. \A x \in Cells : k.paid[x] <= k.earned[x]
      BY <1>1, <3>2 DEF CallsFine
    <3> QED
      BY <1>1, <2>1, <3>1, <3>2, <3>3, CallMoves
  <2>7. /\ UNCHANGED hours /\ UNCHANGED rate /\ UNCHANGED weight /\ UNCHANGED lump
        /\ UNCHANGED frozen /\ UNCHANGED batches /\ UNCHANGED sent /\ UNCHANGED ops
    BY <2>1 DEF prices
  <2> QED
    BY <2>2, <2>3, <2>5, <2>6, <2>7, TypedParts, TypedNext
<1> QED
  BY <1>2, <1>3 DEF Lock

LEMMA FreezeTyped ==
  ASSUME Typed, NEW i \in Calls, Freeze(i)
  PROVE  Typed'
<1>1. call[i] \in CallSet /\ CallsFine /\ RowsFine
  BY TypedParts DEF CallsFine
<1>2. CASE To(i, Idle) /\ UNCHANGED frozen
  <2>1. CallsFine'
    BY <1>1, <1>2, IdleTyped, CallMoves
  <2>2. UNCHANGED <<hours, prices, cell, ledger, frozen, batches, sent, time, ops>>
    BY <1>2 DEF Freeze
  <2> QED
    BY <2>1, <2>2, CallTyped
<1>3. CASE PrintedAsFrozen(i)
  <2> DEFINE row(m) == [month |-> m, baht |-> call[i].lump[m], basis |-> call[i].basis]
  <2>1. /\ frozen' = frozen \cup {row(m) : m \in call[i].months \ DOMAIN FrozenLump}
        /\ To(i, [call[i] EXCEPT !.at = "send"])
        /\ UNCHANGED <<hours, prices, cell, ledger, batches, sent, time, ops>>
    BY <1>3 DEF Freeze
  <2>2. \A m \in call[i].months : row(m) \in FrozenSet
    BY <1>1 DEF CallSet, FrozenSet
  <2> HIDE DEF row
  <2>3. frozen' \subseteq FrozenSet
    BY <2>1, <2>2, TypedParts
  <2>4. CallsFine'
    <3>1. PICK k : k = [call[i] EXCEPT !.at = "send"]
      OBVIOUS
    <3>2. k \in CallSet /\ k.paid = call[i].paid /\ k.earned = call[i].earned
      BY <1>1, <3>1 DEF CallSet
    <3>3. \A x \in Cells : k.paid[x] <= k.earned[x]
      BY <1>1, <3>2 DEF CallsFine
    <3> QED
      BY <1>1, <2>1, <3>1, <3>2, <3>3, CallMoves
  <2>5. /\ UNCHANGED hours /\ UNCHANGED rate /\ UNCHANGED weight /\ UNCHANGED lump /\ UNCHANGED cell
        /\ UNCHANGED batches /\ UNCHANGED sent /\ UNCHANGED ops /\ UNCHANGED ledger /\ UNCHANGED time
    BY <2>1 DEF prices
  <2>6. RowsFine'
    BY <1>1, <2>5 DEF RowsFine
  <2> QED
    BY <2>3, <2>4, <2>5, <2>6, TypedParts, TypedNext
<1> QED
  BY <1>2, <1>3 DEF Freeze

(* The first version is 1 and a replacement is one more.                    *)
LEMMA VersionTyped ==
  ASSUME Typed, NEW S
  PROVE  Version(S) \in Nat \ {0}
<1>1. batches \in Seq(BatchSet)
  BY TypedParts
<1>2. CASE Overlapping(S) = {}
  BY <1>2 DEF Version
<1>3. CASE Overlapping(S) # {}
  <2>1. IsFiniteSet(Overlapping(S)) /\ Overlapping(S) \subseteq Nat /\ Overlapping(S) \subseteq DOMAIN batches
    <3>1. DOMAIN batches = 1..Len(batches) /\ Len(batches) \in Nat
      BY <1>1
    <3>2. IsFiniteSet(1..Len(batches))
      BY <3>1, FS_Interval
    <3>3. Overlapping(S) \subseteq 1..Len(batches)
      BY <3>1 DEF Overlapping
    <3> QED
      BY <3>1, <3>2, <3>3, FS_Subset
  <2>2. Newest(Overlapping(S)) \in DOMAIN batches
    BY <1>3, <2>1, NewestIn
  <2>3. PICK b \in BatchSet : b = batches[Newest(Overlapping(S))]
    BY <1>1, <2>2
  <2>4. b.version \in Nat \ {0}
    BY <2>3 DEF BatchSet
  <2> QED
    BY <1>3, <2>3, <2>4 DEF Version
<1> QED
  BY <1>2, <1>3

LEMMA SendTyped ==
  ASSUME Typed, NEW i \in Calls, Send(i)
  PROVE  Typed'
<1> DEFINE batch(kept) == [months |-> call[i].months, at |-> time',
                           version |-> Version(call[i].months),
                           kept |-> kept, paid |-> call[i].paid]
           pack == [months |-> call[i].months, lump |-> call[i].lump]
<1>1. call[i] \in CallSet /\ CallsFine /\ RowsFine
  BY TypedParts DEF CallsFine
<1>2. /\ time < MaxTime /\ time' = time + 1
      /\ \/ batches' = batches
         \/ \E kept \in BOOLEAN : batches' = Append(batches, batch(kept))
      /\ sent' = sent \cup {pack}
      /\ To(i, Idle)
      /\ UNCHANGED <<hours, prices, cell, ledger, frozen, ops>>
  BY DEF Send
<1>3. time' \in 0..MaxTime /\ time' \in Nat
  BY <1>2, TypedParts, PayoutLedgerAssumption
<1>4. \A kept \in BOOLEAN : batch(kept) \in BatchSet
  <2>1. Version(call[i].months) \in Nat \ {0}
    BY VersionTyped
  <2> QED
    BY <1>1, <1>3, <2>1 DEF CallSet, BatchSet
<1>5. pack \in PackSet
  BY <1>1 DEF CallSet, PackSet
<1> HIDE DEF batch, pack
<1>6. batches' \in Seq(BatchSet)
  <2>1. batches \in Seq(BatchSet)
    BY TypedParts
  <2>2. ASSUME NEW b \in BatchSet, batches' = Append(batches, b)
        PROVE  batches' \in Seq(BatchSet)
    BY <2>1, <2>2
  <2> QED
    BY <1>2, <1>4, <2>1, <2>2
<1>7. sent' \subseteq PackSet
  BY <1>2, <1>5, TypedParts
<1>8. CallsFine'
  BY <1>1, <1>2, IdleTyped, CallMoves
<1>9. /\ UNCHANGED hours /\ UNCHANGED rate /\ UNCHANGED weight /\ UNCHANGED lump /\ UNCHANGED cell
      /\ UNCHANGED frozen /\ UNCHANGED ops /\ UNCHANGED ledger
  BY <1>2 DEF prices
<1>10. RowsFine'
  BY <1>1, <1>9 DEF RowsFine
<1> QED
  BY <1>3, <1>6, <1>7, <1>8, <1>9, <1>10, TypedParts, TypedNext

(* What happens around the downloads leaves calls, rows and records alone.  *)
LEMMA AroundTyped ==
  ASSUME Typed, \/ \E c \in Cells : SetHours(c) \/ SignOff(c) \/ SendBack(c)
                \/ Reprice
                \/ UNCHANGED ledgerVars
  PROVE  Typed'
<1>1. UNCHANGED ledger /\ UNCHANGED frozen /\ UNCHANGED batches /\ UNCHANGED sent /\ UNCHANGED time
      /\ UNCHANGED call /\ UNCHANGED ops
  BY DEF SetHours, SignOff, SendBack, Reprice, ledgerVars
<1>2. CallsFine' /\ RowsFine'
  <2>1. CallsFine /\ RowsFine
    BY TypedParts
  <2> QED
    BY <1>1, <2>1 DEF CallsFine, RowsFine
<1>3. hours' \in [Cells -> 0..MaxHours]
  <2>1. hours \in [Cells -> 0..MaxHours]
    BY TypedParts
  <2>2. CASE \E c \in Cells : SetHours(c)
    <3>1. PICK c \in Cells : SetHours(c)
      BY <2>2
    <3>2. PICK h \in Amount : hours' = [hours EXCEPT ![c] = h]
      BY <3>1 DEF SetHours
    <3>3. h \in 0..MaxHours
      BY PayoutLedgerAssumption DEF Amount
    <3> QED
      BY <2>1, <3>2, <3>3
  <2>3. CASE UNCHANGED hours
    BY <2>1, <2>3
  <2> QED
    BY <2>2, <2>3 DEF SignOff, SendBack, Reprice, ledgerVars
<1>4. rate' \in Rates /\ lump' \in Lumps /\ weight' \in [Months -> 0..MaxHours]
  <2>1. rate \in Rates /\ lump \in Lumps /\ weight \in [Months -> 0..MaxHours]
    BY TypedParts
  <2>2. CASE Reprice
    <3>1. CASE \E m \in Months : weight[m] < MaxHours /\ weight' = [weight EXCEPT ![m] = @ + 1]
      <4>1. PICK m \in Months : weight[m] < MaxHours /\ weight' = [weight EXCEPT ![m] = weight[m] + 1]
        BY <3>1
      <4>2. weight[m] + 1 \in 0..MaxHours
        BY <2>1, <4>1, PayoutLedgerAssumption
      <4>3. weight' \in [Months -> 0..MaxHours]
        BY <2>1, <4>1, <4>2
      <4> QED
        BY <2>1, <2>2, <4>3 DEF Reprice
    <3>2. CASE UNCHANGED weight
      BY <2>1, <2>2, <3>2 DEF Reprice
    <3> QED
      BY <2>2, <3>1, <3>2 DEF Reprice
  <2>3. CASE UNCHANGED prices
    BY <2>1, <2>3 DEF prices
  <2> QED
    BY <2>2, <2>3 DEF SetHours, SignOff, SendBack, ledgerVars, prices
<1>5. cell' \in [Cells -> [status : {"open", "reviewed", "locked"}, at : Nat]]
  <2>1. cell \in [Cells -> [status : {"open", "reviewed", "locked"}, at : Nat]]
    BY TypedParts
  <2>2. CASE \E c \in Cells : SetHours(c) \/ SignOff(c) \/ SendBack(c)
    <3>1. PICK c \in Cells : SetHours(c) \/ SignOff(c) \/ SendBack(c)
      BY <2>2
    <3>2. PICK k \in [status : {"open", "reviewed", "locked"}, at : Nat] : cell' = [cell EXCEPT ![c] = k]
      <4>1. cell[c] \in [status : {"open", "reviewed", "locked"}, at : Nat]
        BY <2>1
      <4>2. [cell[c] EXCEPT !.status = "open"] \in [status : {"open", "reviewed", "locked"}, at : Nat]
        BY <4>1
      <4>3. [cell[c] EXCEPT !.status = "reviewed"] \in [status : {"open", "reviewed", "locked"}, at : Nat]
        BY <4>1
      <4>4. [status |-> "open", at |-> 0] \in [status : {"open", "reviewed", "locked"}, at : Nat]
        OBVIOUS
      <4> QED
        BY <3>1, <4>2, <4>3, <4>4 DEF SetHours, SignOff, SendBack
    <3> QED
      BY <2>1, <3>2
  <2>3. CASE UNCHANGED cell
    BY <2>1, <2>3
  <2> QED
    BY <2>2, <2>3 DEF Reprice, ledgerVars
<1>6. time' \in 0..MaxTime /\ ops' \in Workloads /\ frozen' \subseteq FrozenSet
      /\ batches' \in Seq(BatchSet) /\ sent' \subseteq PackSet
  BY <1>1, TypedParts
<1> QED
  BY <1>2, <1>3, <1>4, <1>5, <1>6, TypedNext

LEMMA TypedStep == Typed /\ [LedgerNext]_ledgerVars => Typed'
  BY StartTyped, BuildTyped, LockTyped, FreezeTyped, SendTyped, AroundTyped DEF LedgerNext

(* The tables and the calls hold what their columns can hold: every figure  *)
(* a settlement computes is a natural number of satang.                     *)
THEOREM LedgerTypes == LedgerSpec => []LedgerTypeOK
<1>1. Typed => LedgerTypeOK
  BY DEF Typed
<1> QED
  BY <1>1, TypedInit, TypedStep, PTL DEF LedgerSpec

-----------------------------------------------------------------------------
(* A share is in whole baht, no more than its proportion of the pool, and    *)
(* less than it by less than a baht.                                        *)
LEMMA ShareExact ==
  ASSUME NEW k \in Nat, NEW all \in Nat \ {0}, NEW a \in Nat, NEW s, s = Share(k, a, all)
  PROVE  s = WholeBaht(s) /\ all * s <= k * a /\ k * a < all * (s + Baht)
<1>1. k * a \in Nat
  BY Multiplied
<1> DEFINE x == (k * a) \div all
<1>2. x \in Nat /\ all * x <= k * a /\ k * a < all * x + all
  BY <1>1, DivFloor
<1>3. s = WholeBaht(x)
  BY DEF Share
<1> HIDE DEF x
<1>4. Baht \in Nat \ {0}
  BY SettlementAssumption
<1>5. s \in Nat /\ s <= x /\ x + 1 <= s + Baht
  BY <1>2, <1>4, <1>3, Rounded
<1>6. s = WholeBaht(s)
  <2>1. x \div Baht \in Nat
    BY <1>2, <1>4, DivFloor
  <2> DEFINE y == x \div Baht
  <2>2. y \in Nat /\ s = Baht * y
    BY <1>3, <2>1 DEF WholeBaht
  <2> HIDE DEF y
  <2>3. s \div Baht <= y
    BY <1>4, <1>5, <2>2, DivScaled
  <2>4. s \div Baht \in Nat /\ Baht * (s \div Baht) <= s
    BY <1>4, <1>5, DivFloor
  <2>5. s < Baht * (s \div Baht) + Baht
    BY <1>4, <1>5, DivFloor
  <2>6. CASE s \div Baht = y
    BY <2>2, <2>6 DEF WholeBaht
  <2>7. CASE (s \div Baht) + 1 <= y
    <3>1. Baht * ((s \div Baht) + 1) <= Baht * y
      BY <1>4, <2>2, <2>4, <2>7, Multiplied
    <3>2. Baht * ((s \div Baht) + 1) = Baht * (s \div Baht) + Baht
      BY <1>4, <2>4
    <3> QED
      BY <1>4, <1>5, <2>2, <2>4, <2>5, <3>1, <3>2
  <2> QED
    BY <2>2, <2>3, <2>4, <2>6, <2>7
<1>7. all * s <= all * x /\ all * s \in Nat
  BY <1>2, <1>5, Multiplied
<1>8. all * (x + 1) <= all * (s + Baht) /\ all * (x + 1) = all * x + all
  BY <1>2, <1>4, <1>5, Multiplied
<1>9. all * x \in Nat /\ all * (x + 1) \in Nat /\ all * (s + Baht) \in Nat
  BY <1>2, <1>4, <1>5, Multiplied
<1>10. all * s <= k * a /\ k * a < all * (s + Baht)
  BY <1>1, <1>2, <1>7, <1>8, <1>9
<1> QED
  BY <1>6, <1>10

(* What out pays of cost, from a pool that may not cover it.                 *)
Fair(cap, cost, out) ==
    IF cap = 0 \/ Total(cost, Cells) <= cap THEN out = cost
    ELSE /\ Total(out, Cells) <= cap
         /\ \A c \in Cells : out[c] <= cost[c]
         /\ \A t \in TAs :
               /\ Total(Row(out, t), Months) = WholeBaht(Total(Row(out, t), Months))
               /\ Total(cost, Cells) * Total(Row(out, t), Months) <= cap * Total(Row(cost, t), Months)
               /\ cap * Total(Row(cost, t), Months)
                     < Total(cost, Cells) * (Total(Row(out, t), Months) + Baht)

LEMMA FairShares ==
  ASSUME NEW mode, NEW cap \in Nat, NEW cost, \A c \in Cells : cost[c] \in Nat,
         NEW out, out = Settle(mode, cap, 0, cost)
  PROVE  Fair(cap, cost, out)
<1>1. \A c \in Cells : out[c] \in Nat /\ out[c] <= cost[c]
  BY SettlePays
<1>2. /\ SumOf(cost, Cells) = Total(cost, Cells) /\ SumOf(cost, Cells) \in Nat
      /\ \A t \in TAs : Owed(cost, t) \in Nat /\ Owed(cost, t) = Total(Row(cost, t), Months)
  BY OwedAdd
<1>3. /\ SumOf(out, Cells) = Total(out, Cells)
      /\ \A t \in TAs : Owed(out, t) = Total(Row(out, t), Months)
  BY <1>1, OwedAdd
<1>4. CASE cap = 0 \/ Total(cost, Cells) <= cap
  <2>1. cap = 0 \/ SumOf(cost, Cells) <= cap
    BY <1>2, <1>4
  <2>2. out = cost
    BY <2>1, SettlePays
  <2> QED
    BY <1>4, <2>2 DEF Fair
<1>5. CASE ~(cap = 0 \/ Total(cost, Cells) <= cap)
  <2>1. Short(cap, cost)
    BY <1>2, <1>5, SettlePays
  <2>2. SumOf(out, Cells) <= cap
    BY <2>1, SettleTotals
  <2>3. SumOf(cost, Cells) \in Nat \ {0}
    BY <1>2, <1>5
  <2>4. ASSUME NEW t \in TAs
        PROVE  /\ Owed(out, t) = WholeBaht(Owed(out, t))
               /\ SumOf(cost, Cells) * Owed(out, t) <= cap * Owed(cost, t)
               /\ cap * Owed(cost, t) < SumOf(cost, Cells) * (Owed(out, t) + Baht)
    <3>1. Owed(out, t) = Share(cap, Owed(cost, t), SumOf(cost, Cells))
      BY <2>1, SettleShort
    <3>2. Owed(cost, t) \in Nat
      BY <1>2
    <3> QED
      BY <2>3, <3>1, <3>2, ShareExact
  <2> QED
    BY <1>1, <1>2, <1>3, <1>5, <2>2, <2>4 DEF Fair
<1> QED
  BY <1>4, <1>5

LEMMA TypedFair == Typed => SharesAreFair
<1> SUFFICES ASSUME Typed, NEW mode \in Modes
             PROVE  LET cost    == [c \in Cells |-> hours[c] * rate]
                        out     == Settle(mode, Cap, 0, cost)
                        all     == Total(cost, Cells)
                        owed(t) == Total(Row(cost, t), Months)
                        paid(t) == Total(Row(out, t), Months)
                    IN  IF Cap = 0 \/ all <= Cap THEN out = cost
                        ELSE /\ Total(out, Cells) <= Cap
                             /\ \A c \in Cells : out[c] <= cost[c]
                             /\ \A t \in TAs : /\ paid(t) = WholeBaht(paid(t))
                                               /\ all * paid(t) <= Cap * owed(t)
                                               /\ Cap * owed(t) < all * (paid(t) + Baht)
  BY DEF SharesAreFair
<1> DEFINE cost == [c \in Cells |-> hours[c] * rate]
<1>1. \A c \in Cells : hours[c] \in Nat /\ rate \in Nat
  <2>1. hours \in [Cells -> 0..MaxHours] /\ rate \in Rates
    BY TypedParts
  <2> QED
    BY <2>1, PayoutLedgerAssumption
<1>2. \A c \in Cells : cost[c] \in Nat
  BY <1>1, Multiplied
<1>3. Cap \in Nat
  BY PayoutLedgerAssumption
<1> HIDE DEF cost
<1>4. PICK o : o = Settle(mode, Cap, 0, cost)
  OBVIOUS
<1>5. Fair(Cap, cost, o)
  BY <1>2, <1>3, <1>4, FairShares
<1> USE DEF cost
<1> QED
  BY <1>4, <1>5 DEF Fair

(* A short pool is shared as promised: each TA's proportion of it rounded    *)
(* down to whole baht, in either mode, within the pool and each month's cost *)
(* (settleTrack, placeShare).                                                *)
THEOREM SharesFair == LedgerSpec => []SharesAreFair
  BY TypedFair, TypedInit, TypedStep, PTL DEF LedgerSpec

-----------------------------------------------------------------------------
(* The lock and its row have one time, later than every earlier one.        *)
LockInv ==
    /\ \A r \in ledger : r.at <= time
    /\ \A r, q \in ledger : (r.cell = q.cell /\ r.at = q.at) => r = q
    /\ \A c \in Cells : Locked(c) => /\ \E r \in ledger : r.cell = c /\ r.at = cell[c].at
                                     /\ \A q \in ledger : q.cell = c => q.at <= cell[c].at
    /\ \A n \in DOMAIN batches : batches[n].at <= time

TypedLock == Typed /\ LockInv

LEMMA CellNat ==
  ASSUME Typed
  PROVE  /\ \A c \in Cells : cell[c].at \in Nat /\ cell[c] = [status |-> cell[c].status, at |-> cell[c].at]
         /\ \A r \in ledger : r.at \in Nat /\ r.cell \in Cells
         /\ time \in Nat
         /\ \A n \in DOMAIN batches : batches[n] \in BatchSet /\ batches[n].at \in Nat
<1>1. /\ cell \in [Cells -> [status : {"open", "reviewed", "locked"}, at : Nat]]
      /\ ledger \subseteq RowSet /\ time \in 0..MaxTime /\ batches \in Seq(BatchSet)
  BY TypedParts DEF RowsFine
<1>2. \A n \in DOMAIN batches : batches[n] \in BatchSet
  BY <1>1
<1>3. \A n \in DOMAIN batches : batches[n].at \in Nat
  BY <1>2 DEF BatchSet
<1>4. \A r \in ledger : r.at \in Nat /\ r.cell \in Cells
  BY <1>1 DEF RowSet
<1>5. \A c \in Cells : cell[c].at \in Nat /\ cell[c] = [status |-> cell[c].status, at |-> cell[c].at]
  BY <1>1
<1> QED
  BY <1>1, <1>2, <1>3, <1>4, <1>5

(* A locked month is one with a figure: the row that came with its lock.    *)
FigureIsItsRow ==
    /\ Ledgered = {c \in Cells : Locked(c)}
    /\ \A c \in Ledgered : \A r \in ledger : (r.cell = c /\ r.at = cell[c].at) => Figure[c] = r

LEMMA FigureIs == TypedLock => FigureIsItsRow
<1> SUFFICES ASSUME TypedLock PROVE FigureIsItsRow
  OBVIOUS
<1>1. ASSUME NEW c \in Cells, Locked(c), NEW r \in ledger, r.cell = c, r.at = cell[c].at
      PROVE  InForce(c) = {r}
  <2>1. \A q \in ledger : q.cell = c => q.at <= r.at
    BY <1>1 DEF TypedLock, LockInv
  <2>2. r \in InForce(c)
    BY <1>1, <2>1, CellNat DEF InForce, TypedLock
  <2>3. ASSUME NEW q \in InForce(c) PROVE q = r
    <3>1. q \in ledger /\ q.cell = c /\ q.at >= cell[c].at
      BY <2>3 DEF InForce
    <3>2. q.at = r.at
      BY <1>1, <2>1, <3>1, CellNat DEF TypedLock
    <3> QED
      BY <1>1, <3>1, <3>2 DEF TypedLock, LockInv
  <2> QED
    BY <2>2, <2>3
<1>2. \A c \in Ledgered : Locked(c) /\ c \in Cells
  BY DEF Ledgered, InForce
<1>3. ASSUME NEW c \in Cells, Locked(c) PROVE c \in Ledgered
  <2>1. PICK r \in ledger : r.cell = c /\ r.at = cell[c].at
    BY <1>3 DEF TypedLock, LockInv
  <2> QED
    BY <1>1, <1>3, <2>1 DEF Ledgered
<1>4. ASSUME NEW c \in Ledgered, NEW r \in ledger, r.cell = c, r.at = cell[c].at
      PROVE  Figure[c] = r
  <2>1. InForce(c) = {r}
    BY <1>1, <1>2, <1>4
  <2> QED
    BY <2>1 DEF Figure
<1> QED
  BY <1>2, <1>3, <1>4 DEF FigureIsItsRow

LEMMA FigureIsNext == TypedLock' => FigureIsItsRow'
  BY FigureIs, PTL

(* What a month is paid: its figure, and nothing while it is not locked.    *)
Held == [c \in Cells |-> IF c \in Ledgered THEN Figure[c].paid ELSE 0]

(* What the months will be paid once a call has locked its own.             *)
Ahead(i) == [c \in Cells |-> IF c[2] \in call[i].months THEN call[i].paid[c] ELSE Held[c]]

LEMMA HeldTyped ==
  ASSUME Typed
  PROVE  \A c \in Cells : Held[c] \in Nat
  BY FigureTyped DEF Held

LEMMA HeldAdds ==
  ASSUME Typed
  PROVE  Total([c \in Ledgered |-> Figure[c].paid], Ledgered) = SumOf(Held, Cells)
<1> DEFINE f == [c \in Ledgered |-> Figure[c].paid]
<1>1. IsFiniteSet(Cells) /\ Ledgered \in SUBSET Cells /\ IsFiniteSet(Ledgered)
  BY Grid, FigureTyped, FS_Subset
<1>2. /\ \A c \in Ledgered : Held[c] = f[c]
      /\ \A c \in Cells \ Ledgered : Held[c] = 0
  BY <1>1 DEF Held
<1>3. \A c \in Cells : Held[c] \in Nat
  BY HeldTyped
<1> HIDE DEF f
<1>4. SumOf(Held, Cells) = SumOf(Held, Ledgered) + SumOf(Held, Cells \ Ledgered)
  BY <1>1, <1>3, SumSplit
<1>5. IsFiniteSet(Cells \ Ledgered)
  BY <1>1, FS_Subset
<1>6. SumOf(Held, Cells \ Ledgered) = 0
  BY <1>2, <1>5, SumZero
<1>7. SumOf(Held, Ledgered) = SumOf(f, Ledgered) /\ SumOf(Held, Ledgered) \in Nat
  <2>1. \A c \in Ledgered : Held[c] \in Nat
    BY <1>1, <1>3
  <2> QED
    BY <1>1, <1>2, <2>1, SumSame, SumNat
<1>8. Total(f, Ledgered) = SumOf(f, Ledgered)
  BY <1>1, TotalIsSum
<1> USE DEF f
<1> QED
  BY <1>4, <1>6, <1>7, <1>8

-----------------------------------------------------------------------------
(* Every step but Lock leaves the rows and locks no month.                  *)
Unlocking == /\ UNCHANGED ledger
             /\ \A c \in Cells : cell'[c] = cell[c] \/ ~Locked(c)'

LEMMA UnlockedFigures ==
  ASSUME Typed, Typed', Unlocking
  PROVE  /\ \A c \in Ledgered' : c \in Ledgered /\ Figure'[c] = Figure[c] /\ cell'[c] = cell[c]
         /\ \A c \in Cells : Held'[c] <= Held[c]
<1>1. ASSUME NEW c \in Ledgered'
      PROVE  c \in Ledgered /\ Figure'[c] = Figure[c] /\ cell'[c] = cell[c]
  <2>1. c \in Cells /\ Locked(c)' /\ InForce(c)' # {}
    BY <1>1 DEF Ledgered, InForce
  <2>2. cell'[c] = cell[c]
    BY <2>1 DEF Unlocking
  <2>3. InForce(c)' = InForce(c)
    BY <2>1, <2>2, FigureFrame DEF Unlocking
  <2> QED
    BY <2>1, <2>2, <2>3 DEF Figure, Ledgered
<1>2. \A c \in Cells : Held[c] \in Nat
  BY HeldTyped
<1> QED
  BY <1>1, <1>2 DEF Held

LEMMA UnlockedLocks ==
  ASSUME TypedLock, Typed', Unlocking, time <= time',
         \A n \in DOMAIN batches' : \/ n \in DOMAIN batches /\ batches'[n] = batches[n]
                                    \/ batches'[n].at = time'
  PROVE  LockInv'
<1>0. /\ time \in Nat /\ time' \in Nat
      /\ \A r \in ledger : r.at \in Nat /\ r.at <= time
      /\ \A n \in DOMAIN batches : batches[n].at \in Nat /\ batches[n].at <= time
  <2>1. time' \in 0..MaxTime
    BY DEF Typed, LedgerTypeOK
  <2> QED
    BY <2>1, CellNat DEF TypedLock, LockInv
<1>1. \A r \in ledger' : r \in ledger /\ r.at <= time'
  BY <1>0 DEF Unlocking
<1>2. \A n \in DOMAIN batches' : batches'[n].at <= time'
  BY <1>0
<1>3. ASSUME NEW c \in Cells, Locked(c)'
      PROVE  /\ \E r \in ledger' : r.cell = c /\ r.at = cell'[c].at
             /\ \A q \in ledger' : q.cell = c => q.at <= cell'[c].at
  <2>1. cell'[c] = cell[c]
    BY <1>3 DEF Unlocking
  <2>2. Locked(c)
    BY <1>3, <2>1 DEF Locked
  <2> QED
    BY <2>1, <2>2 DEF TypedLock, LockInv, Unlocking
<1>4. \A r, q \in ledger' : (r.cell = q.cell /\ r.at = q.at) => r = q
  BY DEF TypedLock, LockInv, Unlocking
<1> QED
  BY <1>1, <1>2, <1>3, <1>4 DEF LockInv

-----------------------------------------------------------------------------
(* Lock gives the months it locks the figures of its pack and leaves the     *)
(* others as they were.                                                     *)
Locking(i) == Lock(i) /\ call[i].read = In(hours, call[i].months)

LEMMA LockEffect ==
  ASSUME Typed, NEW i \in Calls, Locking(i)
  PROVE  /\ time' = time + 1 /\ UNCHANGED batches /\ UNCHANGED ops
         /\ \A c \in NewlyLocked(i) : /\ c \in Cells /\ ~Locked(c) /\ c[2] \in call[i].months
                                      /\ cell'[c] = [status |-> "locked", at |-> time']
         /\ \A c \in Cells \ NewlyLocked(i) : cell'[c] = cell[c]
         /\ ledger \subseteq ledger'
         /\ \A c \in NewlyLocked(i) :
               \E r \in ledger' : r.cell = c /\ r.at = time' /\ r.paid = call[i].paid[c]
         /\ \A r \in ledger' \ ledger : /\ r.cell \in NewlyLocked(i) /\ r.at = time'
                                        /\ r.earned = call[i].earned[r.cell]
                                        /\ r.paid = call[i].paid[r.cell]
                                        /\ r = [cell |-> r.cell, earned |-> r.earned,
                                                paid |-> r.paid, at |-> r.at]
         /\ To(i, [call[i] EXCEPT !.at = "freeze"])
<1> DEFINE new == {c \in NewlyLocked(i) : cell[c].status = "reviewed"}
           row(c) == [cell |-> c, earned |-> call[i].earned[c], paid |-> call[i].paid[c], at |-> time']
<1>1. /\ time' = time + 1
      /\ cell' = [c \in Cells |-> IF c \in new THEN [status |-> "locked", at |-> time'] ELSE cell[c]]
      /\ ledger' = ledger \cup {row(c) : c \in NewlyLocked(i)}
      /\ To(i, [call[i] EXCEPT !.at = "freeze"])
      /\ UNCHANGED batches /\ UNCHANGED ops
  BY DEF Lock, Locking
<1>2. \A c \in NewlyLocked(i) : c \in Cells /\ c \in new /\ ~Locked(c) /\ c[2] \in call[i].months
  BY DEF NewlyLocked, Worked, Locked
<1>3. \A c \in new : c \in NewlyLocked(i)
  OBVIOUS
<1>4. \A c : /\ row(c).cell = c /\ row(c).at = time' /\ row(c).earned = call[i].earned[c]
             /\ row(c).paid = call[i].paid[c]
             /\ row(c) = [cell |-> row(c).cell, earned |-> row(c).earned, paid |-> row(c).paid,
                          at |-> row(c).at]
  OBVIOUS
<1> HIDE DEF new, row
<1>5. \A c \in Cells : cell'[c] = IF c \in new THEN [status |-> "locked", at |-> time'] ELSE cell[c]
  BY <1>1
<1>6. \A c \in NewlyLocked(i) : row(c) \in ledger'
  BY <1>1
<1>7. \A r \in ledger' \ ledger : \E c \in NewlyLocked(i) : r = row(c)
  BY <1>1
<1>8. \A r \in ledger' \ ledger : /\ r.cell \in NewlyLocked(i) /\ r.at = time'
                                        /\ r.earned = call[i].earned[r.cell]
                                        /\ r.paid = call[i].paid[r.cell]
                                        /\ r = [cell |-> r.cell, earned |-> r.earned,
                                                paid |-> r.paid, at |-> r.at]
  BY <1>4, <1>7
<1>9. \A c \in NewlyLocked(i) : cell'[c] = [status |-> "locked", at |-> time']
  BY <1>2, <1>5
<1>10. \A c \in Cells \ NewlyLocked(i) : cell'[c] = cell[c]
  BY <1>3, <1>5
<1>11. \A c \in NewlyLocked(i) :
          \E r \in ledger' : r.cell = c /\ r.at = time' /\ r.paid = call[i].paid[c]
  BY <1>4, <1>6
<1> QED
  BY <1>1, <1>2, <1>8, <1>9, <1>10, <1>11

LEMMA LockedLocks ==
  ASSUME TypedLock, Typed', NEW i \in Calls, Locking(i)
  PROVE  LockInv'
<1>1. /\ time \in Nat /\ time' = time + 1 /\ batches' = batches
      /\ \A r \in ledger : r.at \in Nat /\ r.at <= time
      /\ \A n \in DOMAIN batches : batches[n].at \in Nat /\ batches[n].at <= time
  BY LockEffect, CellNat DEF TypedLock, LockInv
<1>2. /\ ledger \subseteq ledger'
      /\ \A r \in ledger' \ ledger : /\ r.cell \in NewlyLocked(i) /\ r.at = time'
                                     /\ r.earned = call[i].earned[r.cell]
                                     /\ r.paid = call[i].paid[r.cell]
                                     /\ r = [cell |-> r.cell, earned |-> r.earned,
                                             paid |-> r.paid, at |-> r.at]
  BY LockEffect DEF TypedLock
<1>3. \A r \in ledger' : r.at <= time'
  BY <1>1, <1>2
<1>4. ASSUME NEW r \in ledger', NEW q \in ledger', r.cell = q.cell, r.at = q.at
      PROVE  r = q
  <2>1. CASE r \in ledger /\ q \in ledger
    BY <1>4, <2>1 DEF TypedLock, LockInv
  <2>2. CASE r \notin ledger /\ q \notin ledger
    BY <1>2, <1>4, <2>2
  <2>3. CASE (r \in ledger /\ q \notin ledger) \/ (r \notin ledger /\ q \in ledger)
    BY <1>1, <1>2, <1>4, <2>3
  <2> QED
    BY <2>1, <2>2, <2>3
<1>5. ASSUME NEW c \in Cells, Locked(c)'
      PROVE  /\ \E r \in ledger' : r.cell = c /\ r.at = cell'[c].at
             /\ \A q \in ledger' : q.cell = c => q.at <= cell'[c].at
  <2>1. CASE c \in NewlyLocked(i)
    <3>1. cell'[c] = [status |-> "locked", at |-> time']
      BY <2>1, LockEffect DEF TypedLock
    <3>2. PICK r \in ledger' : r.cell = c /\ r.at = time' /\ r.paid = call[i].paid[c]
      BY <2>1, LockEffect DEF TypedLock
    <3> QED
      BY <1>3, <3>1, <3>2
  <2>2. CASE c \notin NewlyLocked(i)
    <3>1. cell'[c] = cell[c]
      BY <2>2, LockEffect DEF TypedLock
    <3>2. Locked(c)
      BY <1>5, <3>1 DEF Locked
    <3>3. \A q \in ledger' : q.cell = c => q \in ledger
      BY <1>2, <2>2
    <3> QED
      BY <1>2, <3>1, <3>2, <3>3 DEF TypedLock, LockInv
  <2> QED
    BY <2>1, <2>2
<1>6. \A n \in DOMAIN batches' : batches'[n].at <= time'
  BY <1>1
<1> QED
  BY <1>3, <1>4, <1>5, <1>6 DEF LockInv

LEMMA LockedHolds ==
  ASSUME TypedLock, TypedLock', NEW i \in Calls, Locking(i)
  PROVE  /\ \A c \in NewlyLocked(i) : /\ c \in Ledgered' /\ c \in Cells /\ c \notin Ledgered
                                      /\ c[2] \in call[i].months /\ cell'[c].at = time'
                                      /\ Figure'[c].paid = call[i].paid[c]
         /\ \A c \in Ledgered' \ NewlyLocked(i) :
               c \in Ledgered /\ Figure'[c] = Figure[c] /\ cell'[c] = cell[c]
<1>1. ASSUME NEW c \in NewlyLocked(i)
      PROVE  /\ c \in Ledgered' /\ c \in Cells /\ c \notin Ledgered
             /\ c[2] \in call[i].months /\ cell'[c].at = time'
             /\ Figure'[c].paid = call[i].paid[c]
  <2>1. /\ c \in Cells /\ ~Locked(c) /\ c[2] \in call[i].months
        /\ cell'[c] = [status |-> "locked", at |-> time']
    BY <1>1, LockEffect DEF TypedLock
  <2>2. PICK r \in ledger' : r.cell = c /\ r.at = time' /\ r.paid = call[i].paid[c]
    BY <1>1, LockEffect DEF TypedLock
  <2>3. Locked(c)' /\ cell'[c].at = time'
    BY <2>1 DEF Locked
  <2>4. c \in Ledgered' /\ c \notin Ledgered
    BY <2>1, <2>3, FigureIs, FigureIsNext DEF FigureIsItsRow
  <2>5. Figure'[c] = r
    BY <2>2, <2>3, <2>4, FigureIsNext DEF FigureIsItsRow
  <2> QED
    BY <2>1, <2>2, <2>3, <2>4, <2>5
<1>2. ASSUME NEW c \in Ledgered', c \notin NewlyLocked(i)
      PROVE  c \in Ledgered /\ Figure'[c] = Figure[c] /\ cell'[c] = cell[c]
  <2>1. c \in Cells /\ Locked(c)' /\ InForce(c)' # {}
    BY <1>2 DEF Ledgered, InForce
  <2>2. cell'[c] = cell[c]
    BY <1>2, <2>1, LockEffect DEF TypedLock
  <2>3. Locked(c)
    BY <2>1, <2>2 DEF Locked
  <2>4. {r \in ledger' : r.cell = c} = {r \in ledger : r.cell = c}
    BY <2>1, <2>3, LockFigures DEF Locking
  <2>5. InForce(c)' = InForce(c)
    BY <2>1, <2>2, <2>4, FigureFrame
  <2> QED
    BY <2>1, <2>2, <2>5 DEF Figure, Ledgered
<1> QED
  BY <1>1, <1>2

-----------------------------------------------------------------------------
(* A step locks months, or leaves the rows alone and locks none.            *)
LEMMA StepKinds ==
  ASSUME Typed, [LedgerNext]_ledgerVars
  PROVE  /\ UNCHANGED ops
         /\ \/ Unlocking /\ time <= time'
            \/ \E i \in Calls : Locking(i)
<1>0. time \in Nat /\ cell \in [Cells -> [status : {"open", "reviewed", "locked"}, at : Nat]]
  BY CellNat, TypedParts
<1>1. ASSUME UNCHANGED <<cell, ledger>> PROVE Unlocking
  BY <1>1 DEF Unlocking
<1>2. ASSUME NEW i \in Calls, Start(i) \/ Build(i) \/ Freeze(i)
      PROVE  UNCHANGED ops /\ Unlocking /\ time <= time'
  <2>1. UNCHANGED <<cell, ledger, ops, time>>
    BY <1>2 DEF Start, Build, Freeze
  <2> QED
    BY <1>0, <1>1, <2>1
<1>3. ASSUME NEW i \in Calls, Send(i)
      PROVE  UNCHANGED ops /\ Unlocking /\ time <= time'
  <2>1. UNCHANGED <<cell, ledger, ops>> /\ time' = time + 1
    BY <1>3 DEF Send
  <2> QED
    BY <1>0, <1>1, <2>1
<1>4. ASSUME NEW i \in Calls, Lock(i)
      PROVE  UNCHANGED ops /\ ((Unlocking /\ time <= time') \/ Locking(i))
  <2>1. CASE call[i].read = In(hours, call[i].months)
    BY <1>4, <2>1 DEF Lock, Locking
  <2>2. CASE call[i].read # In(hours, call[i].months)
    <3>1. UNCHANGED <<cell, ledger, ops, time>>
      BY <1>4, <2>2 DEF Lock
    <3> QED
      BY <1>0, <1>1, <3>1
  <2> QED
    BY <2>1, <2>2
<1>5. ASSUME NEW c \in Cells, SetHours(c) \/ SignOff(c) \/ SendBack(c)
      PROVE  UNCHANGED ops /\ Unlocking /\ time <= time'
  <2>1. UNCHANGED <<ledger, ops, time>>
    BY <1>5 DEF SetHours, SignOff, SendBack
  <2>2. PICK k : cell' = [cell EXCEPT ![c] = k] /\ k.status # "locked"
    <3>1. cell[c] \in [status : {"open", "reviewed", "locked"}, at : Nat]
      BY <1>0
    <3>2. [cell[c] EXCEPT !.status = "open"].status = "open"
      BY <3>1
    <3>3. [cell[c] EXCEPT !.status = "reviewed"].status = "reviewed"
      BY <3>1
    <3>4. [status |-> "open", at |-> 0].status = "open"
      OBVIOUS
    <3>5. CASE SetHours(c)
      BY <3>2, <3>5 DEF SetHours
    <3>6. CASE SignOff(c)
      BY <3>3, <3>6 DEF SignOff
    <3>7. CASE SendBack(c)
      BY <3>4, <3>7 DEF SendBack
    <3> QED
      BY <1>5, <3>5, <3>6, <3>7
  <2>3. \A d \in Cells : cell'[d] = cell[d] \/ ~Locked(d)'
    BY <1>0, <2>2 DEF Locked
  <2> QED
    BY <1>0, <2>1, <2>3 DEF Unlocking
<1>6. ASSUME Reprice \/ UNCHANGED ledgerVars
      PROVE  UNCHANGED ops /\ Unlocking /\ time <= time'
  BY <1>0, <1>1, <1>6 DEF Reprice, ledgerVars
<1> QED
  BY <1>2, <1>3, <1>4, <1>5, <1>6 DEF LedgerNext

LEMMA BatchSteps ==
  ASSUME Typed, [LedgerNext]_ledgerVars
  PROVE  \/ UNCHANGED batches
         \/ \E i \in Calls :
               /\ Send(i) /\ call[i].at = "send"
               /\ \A n \in DOMAIN batches' :
                     \/ n \in DOMAIN batches /\ batches'[n] = batches[n]
                     \/ /\ batches'[n].at = time' /\ batches'[n].months = call[i].months
                        /\ batches'[n].paid = call[i].paid
<1>1. ASSUME NEW i \in Calls, Send(i), ~UNCHANGED batches
      PROVE  /\ call[i].at = "send"
             /\ \A n \in DOMAIN batches' :
                     \/ n \in DOMAIN batches /\ batches'[n] = batches[n]
                     \/ /\ batches'[n].at = time' /\ batches'[n].months = call[i].months
                        /\ batches'[n].paid = call[i].paid
  <2>1. PICK kept \in BOOLEAN :
           batches' = Append(batches, [months |-> call[i].months, at |-> time',
                                       version |-> Version(call[i].months),
                                       kept |-> kept, paid |-> call[i].paid])
    BY <1>1 DEF Send
  <2>2. batches \in Seq(BatchSet)
    BY TypedParts
  <2>3. \A n \in DOMAIN batches' :
            \/ n \in DOMAIN batches /\ batches'[n] = batches[n]
            \/ batches'[n] = [months |-> call[i].months, at |-> time',
                              version |-> Version(call[i].months),
                              kept |-> kept, paid |-> call[i].paid]
    BY <2>1, <2>2
  <2>4. call[i].at = "send"
    BY <1>1 DEF Send
  <2> QED
    BY <2>3, <2>4
<1>2. (\E i \in Calls : Send(i)) \/ UNCHANGED batches
  BY DEF LedgerNext, ledgerVars, Start, Build, Lock, Freeze, SetHours, SignOff, SendBack, Reprice
<1> QED
  BY <1>1, <1>2

LEMMA LockInitially == LedgerInit => LockInv
  BY DEF LedgerInit, LockInv, Locked

LEMMA LockStep == TypedLock /\ [LedgerNext]_ledgerVars => TypedLock'
<1> SUFFICES ASSUME TypedLock, [LedgerNext]_ledgerVars PROVE TypedLock'
  OBVIOUS
<1>1. Typed /\ Typed'
  BY TypedStep DEF TypedLock
<1>2. CASE Unlocking /\ time <= time'
  <2>1. \A n \in DOMAIN batches' : \/ n \in DOMAIN batches /\ batches'[n] = batches[n]
                                   \/ batches'[n].at = time'
    BY <1>1, BatchSteps
  <2> QED
    BY <1>1, <1>2, <2>1, UnlockedLocks DEF TypedLock
<1>3. CASE \E i \in Calls : Locking(i)
  BY <1>1, <1>3, LockedLocks DEF TypedLock
<1> QED
  BY <1>1, <1>2, <1>3, StepKinds

(* What a step does to the calls.                                           *)
LEMMA CallSteps ==
  ASSUME Typed, [LedgerNext]_ledgerVars
  PROVE  \/ UNCHANGED call
         \/ \E i \in Calls : \E c \in CallSet :
               /\ To(i, c) /\ (i = First \/ "two" \in ops \/ call[i].at # "idle")
               /\ \/ c.at \in {"idle", "build"}
                  \/ /\ c.at = "lock" /\ c.months = call[i].months
                     /\ c.paid = In(Paid, call[i].months) /\ UNCHANGED <<cell, ledger>>
                  \/ /\ call[i].at \in {"lock", "freeze"} /\ c.at \in {"freeze", "send"}
                     /\ c.paid = call[i].paid /\ c.months = call[i].months
<1>1. \A i \in Calls : call[i] \in CallSet
  BY TypedParts DEF CallsFine
<1>2. Idle \in CallSet /\ Idle.at = "idle"
  BY IdleTyped DEF Idle
<1>3. \A i \in Calls : \A c : To(i, c) => c = call'[i]
  BY TypedParts DEF CallsFine, To
<1>4. \A i \in Calls : call'[i] \in CallSet
  <2>1. Typed'
    BY TypedStep
  <2> QED
    BY <2>1 DEF Typed, LedgerTypeOK, CallSet
<1>5. ASSUME NEW i \in Calls, Start(i)
      PROVE  \E c \in CallSet : /\ To(i, c) /\ (i = First \/ "two" \in ops \/ call[i].at # "idle")
                                /\ c.at \in {"idle", "build"}
  <2>1. PICK c : To(i, c) /\ c.at = "build"
    <3>1. PICK S \in Slices : To(i, [Idle EXCEPT !.at = "build", !.months = S, !.read = In(hours, S)])
      BY <1>5 DEF Start
    <3>2. [Idle EXCEPT !.at = "build", !.months = S, !.read = In(hours, S)].at = "build"
      BY DEF Idle
    <3> QED
      BY <3>1, <3>2
  <2>2. i = First \/ "two" \in ops
    BY <1>5 DEF Start
  <2> QED
    BY <1>3, <1>4, <2>1, <2>2
<1>6. ASSUME NEW i \in Calls, Build(i)
      PROVE  \E c \in CallSet : /\ To(i, c) /\ call[i].at # "idle"
                                /\ \/ c.at = "idle"
                                   \/ /\ c.at = "lock" /\ c.months = call[i].months
                                      /\ c.paid = In(Paid, call[i].months) /\ UNCHANGED <<cell, ledger>>
  <2>1. PICK c : /\ To(i, c)
                 /\ \/ c = Idle
                    \/ c = [call[i] EXCEPT !.at = "lock", !.earned = In(Cost, call[i].months),
                                           !.paid = In(Paid, call[i].months),
                                           !.lump = SplitLump(Basis, weight, FrozenLump),
                                           !.basis = Basis]
    BY <1>6 DEF Build
  <2>2. c \in CallSet
    BY <1>3, <1>4, <2>1
  <2>3. call[i].at # "idle" /\ UNCHANGED <<cell, ledger>>
    BY <1>6 DEF Build
  <2>4. \/ c.at = "idle"
        \/ c.at = "lock" /\ c.months = call[i].months /\ c.paid = In(Paid, call[i].months)
    BY <1>1, <1>2, <2>1 DEF CallSet
  <2> QED
    BY <2>1, <2>2, <2>3, <2>4
<1>7. ASSUME NEW i \in Calls, Lock(i) \/ Freeze(i) \/ Send(i)
      PROVE  \E c \in CallSet : /\ To(i, c) /\ call[i].at # "idle"
                                /\ \/ c.at = "idle"
                                   \/ /\ call[i].at \in {"lock", "freeze"} /\ c.at \in {"freeze", "send"}
                                      /\ c.paid = call[i].paid /\ c.months = call[i].months
  <2>1. PICK c : /\ To(i, c)
                 /\ \/ c = Idle
                    \/ /\ call[i].at \in {"lock", "freeze"}
                       /\ \/ c = [call[i] EXCEPT !.at = "freeze"]
                          \/ c = [call[i] EXCEPT !.at = "send"]
    BY <1>7 DEF Lock, Freeze, Send
  <2>2. c \in CallSet
    BY <1>3, <1>4, <2>1
  <2>3. call[i].at # "idle"
    BY <1>7 DEF Lock, Freeze, Send
  <2>4. \/ c.at = "idle"
        \/ c.at \in {"freeze", "send"} /\ c.paid = call[i].paid /\ c.months = call[i].months
    BY <1>1, <1>2, <2>1 DEF CallSet
  <2> QED
    BY <1>2, <2>1, <2>2, <2>3, <2>4
<1>8. UNCHANGED call \/ \E i \in Calls : Start(i) \/ Build(i) \/ Lock(i) \/ Freeze(i) \/ Send(i)
  BY DEF LedgerNext, ledgerVars, SetHours, SignOff, SendBack, Reprice
<1> QED
  BY <1>5, <1>6, <1>7, <1>8

-----------------------------------------------------------------------------
(* With one download at a time, a pack that is being issued and one that     *)
(* was issued after a lock print the figures of the months locked.          *)
OneByOne == "two" \notin ops

PrintsHeld(p) == \A c \in Ledgered : c[2] \in p.months => p.paid[c] = Figure[c].paid

CallsHold ==
    /\ \A i \in Calls : i # First => call[i].at = "idle"
    /\ \A i \in Calls : call[i].at \in {"lock", "freeze", "send"} => PrintsHeld(call[i])

BatchesHold ==
    \A n \in DOMAIN batches : \A c \in Ledgered :
        (c[2] \in batches[n].months /\ cell[c].at <= batches[n].at)
            => batches[n].paid[c] = Figure[c].paid

(* And the pool covers what is held, and what a pack about to lock adds.     *)
PoolCovers ==
    /\ SumOf(Held, Cells) <= Cap
    /\ \A i \in Calls : call[i].at = "lock" => SumOf(Ahead(i), Cells) <= Cap

(* A baht is not one satang and no rate is: a pool that is used up is told   *)
(* from one that nobody configured by leaving one satang in it.             *)
WholeMoney == Baht # 1 /\ 1 \notin Rates

TurnInv == /\ TypedLock
           /\ OneByOne => CallsHold /\ BatchesHold
           /\ (OneByOne /\ WholeMoney /\ Cap # 0) => PoolCovers

-----------------------------------------------------------------------------
LEMMA UnlockedPrints ==
  ASSUME Typed, Typed', Unlocking, NEW p, PrintsHeld(p)
  PROVE  PrintsHeld(p)'
  BY UnlockedFigures DEF PrintsHeld

LEMMA LockedPrints ==
  ASSUME TypedLock, TypedLock', NEW i \in Calls, Locking(i), NEW p, p.months = call[i].months,
         p.paid = call[i].paid, PrintsHeld(call[i])
  PROVE  PrintsHeld(p)'
<1> SUFFICES ASSUME NEW c \in Ledgered', c[2] \in p.months
             PROVE  p.paid[c] = Figure'[c].paid
  BY DEF PrintsHeld
<1>1. CASE c \in NewlyLocked(i)
  BY <1>1, LockedHolds
<1>2. CASE c \notin NewlyLocked(i)
  BY <1>2, LockedHolds DEF PrintsHeld
<1> QED
  BY <1>1, <1>2

LEMMA BuiltPrints ==
  ASSUME Typed, NEW p, NEW S, p.months = S, p.paid = In(Paid, S)
  PROVE  PrintsHeld(p)
  BY FigureTyped, PaidTyped, InTyped DEF PrintsHeld

LEMMA CallsStep ==
  ASSUME TypedLock, TypedLock', [LedgerNext]_ledgerVars, OneByOne, CallsHold
  PROVE  CallsHold'
<1>0. Typed /\ Typed'
  BY DEF TypedLock
<1>1. CASE UNCHANGED call
  <2>1. CASE Unlocking
    <3>1. ASSUME NEW i \in Calls, call'[i].at \in {"lock", "freeze", "send"}
          PROVE  PrintsHeld(call[i])' 
      <4>1. PICK p : p = call[i]
        OBVIOUS
      <4>2. PrintsHeld(p)'
        BY <1>0, <1>1, <2>1, <3>1, <4>1, UnlockedPrints DEF CallsHold
      <4> QED
        BY <1>1, <4>1, <4>2 DEF PrintsHeld
    <3> QED
      BY <1>1, <3>1 DEF CallsHold
  <2>2. CASE \E i \in Calls : Locking(i)
    <3>1. PICK i \in Calls : Locking(i)
      BY <2>2
    <3>2. call[i].at = "lock" /\ call[i] \in CallSet /\ call' = [call EXCEPT ![i] = [call[i] EXCEPT !.at = "freeze"]]
      BY <1>0, <3>1, TypedParts DEF Locking, Lock, To, CallsFine
    <3>3. call'[i].at = "freeze"
      BY <1>0, <3>2, TypedParts DEF CallSet, CallsFine
    <3> QED
      BY <1>1, <3>2, <3>3
  <2> QED
    BY <1>0, <2>1, <2>2, StepKinds
<1>2. ASSUME NEW i \in Calls, NEW c \in CallSet,
             To(i, c) /\ (i = First \/ "two" \in ops \/ call[i].at # "idle"),
             \/ c.at \in {"idle", "build"}
             \/ /\ c.at = "lock" /\ c.months = call[i].months
                /\ c.paid = In(Paid, call[i].months) /\ UNCHANGED <<cell, ledger>>
             \/ /\ call[i].at \in {"lock", "freeze"} /\ c.at \in {"freeze", "send"}
                /\ c.paid = call[i].paid /\ c.months = call[i].months
      PROVE  CallsHold'
  <2>1. i = First
    BY <1>2 DEF OneByOne, CallsHold
  <2>2. /\ call'[i] = c
        /\ \A j \in Calls : j # i => call'[j] = call[j] /\ call'[j].at = "idle"
    BY <1>0, <1>2, <2>1, TypedParts DEF To, CallsFine, CallsHold
  <2>3. c.at \in {"lock", "freeze", "send"} => PrintsHeld(c)'
    <3>1. CASE c.at = "lock" /\ c.months = call[i].months
               /\ c.paid = In(Paid, call[i].months) /\ UNCHANGED <<cell, ledger>>
      <4>1. PrintsHeld(c)
        BY <1>0, <3>1, BuiltPrints
      <4>2. Unlocking
        BY <3>1 DEF Unlocking
      <4> QED
        BY <1>0, <4>1, <4>2, UnlockedPrints
    <3>2. CASE call[i].at \in {"lock", "freeze"} /\ c.paid = call[i].paid /\ c.months = call[i].months
      <4>1. PrintsHeld(call[i])
        BY <3>2 DEF CallsHold
      <4>2. PrintsHeld(c)
        BY <3>2, <4>1 DEF PrintsHeld
      <4>3. CASE Unlocking
        BY <1>0, <4>2, <4>3, UnlockedPrints
      <4>4. CASE \E j \in Calls : Locking(j)
        <5>1. PICK j \in Calls : Locking(j)
          BY <4>4
        <5>2. j = i
          BY <2>1, <5>1 DEF CallsHold, Locking, Lock
        <5> QED
          BY <3>2, <4>1, <5>1, <5>2, LockedPrints
      <4> QED
        BY <1>0, <4>3, <4>4, StepKinds
    <3> QED
      BY <1>2, <3>1, <3>2
  <2>4. \A j \in Calls : j # First => call'[j].at = "idle"
    BY <2>1, <2>2
  <2>5. ASSUME NEW j \in Calls, call'[j].at \in {"lock", "freeze", "send"}
        PROVE  PrintsHeld(call[j])'
    <3>1. j = i
      BY <2>2, <2>5
    <3> QED
      BY <2>2, <2>3, <2>5, <3>1 DEF PrintsHeld
  <2> QED
    BY <2>4, <2>5 DEF CallsHold
<1>3. \/ UNCHANGED call
      \/ \E i \in Calls : \E c \in CallSet :
               /\ To(i, c) /\ (i = First \/ "two" \in ops \/ call[i].at # "idle")
               /\ \/ c.at \in {"idle", "build"}
                  \/ /\ c.at = "lock" /\ c.months = call[i].months
                     /\ c.paid = In(Paid, call[i].months) /\ UNCHANGED <<cell, ledger>>
                  \/ /\ call[i].at \in {"lock", "freeze"} /\ c.at \in {"freeze", "send"}
                     /\ c.paid = call[i].paid /\ c.months = call[i].months
  BY <1>0, CallSteps
<1> QED
  BY <1>1, <1>2, <1>3

LEMMA BatchesStep ==
  ASSUME TypedLock, TypedLock', [LedgerNext]_ledgerVars, CallsHold, BatchesHold
  PROVE  BatchesHold'
<1>0. Typed /\ Typed'
  BY DEF TypedLock
<1> SUFFICES ASSUME NEW n \in DOMAIN batches', NEW c \in Ledgered',
                    c[2] \in batches'[n].months, cell'[c].at <= batches'[n].at
             PROVE  batches'[n].paid[c] = Figure'[c].paid
  BY DEF BatchesHold
<1>1. CASE n \in DOMAIN batches /\ batches'[n] = batches[n]
  <2>1. CASE Unlocking
    <3>1. c \in Ledgered /\ Figure'[c] = Figure[c] /\ cell'[c] = cell[c]
      BY <1>0, <2>1, UnlockedFigures
    <3> QED
      BY <1>1, <3>1 DEF BatchesHold
  <2>2. CASE \E i \in Calls : Locking(i)
    <3>1. PICK i \in Calls : Locking(i)
      BY <2>2
    <3>2. c \notin NewlyLocked(i)
      <4>1. time' = time + 1 /\ time \in Nat /\ batches[n].at \in Nat /\ batches[n].at <= time
        BY <1>0, <1>1, <3>1, LockEffect, CellNat DEF TypedLock, LockInv
      <4>2. ~(time' <= batches'[n].at)
        BY <1>1, <4>1
      <4> QED
        BY <3>1, <4>2, LockedHolds
    <3>3. c \in Ledgered /\ Figure'[c] = Figure[c] /\ cell'[c] = cell[c]
      BY <3>1, <3>2, LockedHolds
    <3> QED
      BY <1>1, <3>3 DEF BatchesHold
  <2> QED
    BY <1>0, <2>1, <2>2, StepKinds
<1>2. CASE ~(n \in DOMAIN batches /\ batches'[n] = batches[n])
  <2>1. PICK i \in Calls : /\ Send(i) /\ call[i].at = "send"
                           /\ batches'[n].at = time' /\ batches'[n].months = call[i].months
                           /\ batches'[n].paid = call[i].paid
    BY <1>0, <1>2, BatchSteps
  <2>2. Unlocking
    BY <2>1 DEF Send, Unlocking
  <2>3. c \in Ledgered /\ Figure'[c] = Figure[c]
    BY <1>0, <2>2, UnlockedFigures
  <2>4. PrintsHeld(call[i])
    BY <2>1 DEF CallsHold
  <2> QED
    BY <2>1, <2>3, <2>4 DEF PrintsHeld
<1> QED
  BY <1>1, <1>2

-----------------------------------------------------------------------------
(* An hour is never worth one satang.                                       *)
LEMMA NoOddCost ==
  ASSUME Typed, WholeMoney
  PROVE  \A c \in Cells \ Ledgered : Cost[c] # 1
<1> SUFFICES ASSUME NEW c \in Cells \ Ledgered, Cost[c] = 1 PROVE FALSE
  OBVIOUS
<1>1. hours \in [Cells -> 0..MaxHours] /\ rate \in Rates /\ Cost[c] = hours[c] * rate
  BY TypedParts, CostTyped
<1>2. hours[c] \in Nat /\ rate \in Nat /\ rate # 1
  BY <1>1, PayoutLedgerAssumption DEF WholeMoney
<1>3. \A a, b \in Nat : a * b = 1 => b = 1
  OBVIOUS
<1> QED
  BY <1>1, <1>2, <1>3

LEMMA AheadTyped ==
  ASSUME Typed, NEW i \in Calls
  PROVE  \A c \in Cells : Ahead(i)[c] \in Nat
<1>1. \A c \in Cells : call[i].paid[c] \in Nat
  BY TypedParts DEF CallsFine, CallSet
<1> QED
  BY <1>1, HeldTyped DEF Ahead

(* A pack is built from what the months are paid, which the pool covers.    *)
LEMMA PaidCovers ==
  ASSUME Typed, WholeMoney, Cap # 0, SumOf(Held, Cells) <= Cap
  PROVE  SumOf(Paid, Cells) <= Cap /\ \A c \in Cells : Paid[c] \in Nat /\ Held[c] <= Paid[c]
<1>1. Total([c \in Ledgered |-> Figure[c].paid], Ledgered) <= Cap
  BY HeldAdds
<1>2. SumOf(Paid, Cells) <= Cap
  BY <1>1, PaidTyped, NoOddCost DEF WholeMoney
<1>3. ASSUME NEW c \in Cells PROVE Paid[c] \in Nat /\ Held[c] <= Paid[c]
  <2>1. Paid[c] \in Nat /\ (c \in Ledgered => Paid[c] = Figure[c].paid)
    BY PaidTyped
  <2>2. Held[c] = IF c \in Ledgered THEN Figure[c].paid ELSE 0
    BY DEF Held
  <2> QED
    BY <2>1, <2>2
<1> QED
  BY <1>2, <1>3

LEMMA SumBelow ==
  ASSUME NEW f, NEW g, \A c \in Cells : f[c] \in Nat /\ g[c] \in Nat /\ f[c] <= g[c],
         SumOf(g, Cells) <= Cap
  PROVE  SumOf(f, Cells) <= Cap
<1>1. SumOf(f, Cells) \in Nat /\ SumOf(g, Cells) \in Nat /\ Cap \in Nat
  <2>1. IsFiniteSet(Cells)
    BY Grid
  <2>2. \A c \in Cells : f[c] \in Nat
    OBVIOUS
  <2>3. \A c \in Cells : g[c] \in Nat
    OBVIOUS
  <2> QED
    BY <2>1, <2>2, <2>3, SumNat, PayoutLedgerAssumption
<1>2. SumOf(f, Cells) <= SumOf(g, Cells)
  <2>1. IsFiniteSet(Cells)
    BY Grid
  <2> QED
    BY <2>1, SumLeq
<1> QED
  BY <1>1, <1>2

HeldNat  == \A c \in Cells : Held[c] \in Nat
AheadNat == \A i \in Calls : \A c \in Cells : Ahead(i)[c] \in Nat

LEMMA AmountsNat == Typed => HeldNat /\ AheadNat
  BY HeldTyped, AheadTyped DEF HeldNat, AheadNat

LEMMA AmountsNatNext == Typed' => HeldNat' /\ AheadNat'
  BY AmountsNat, PTL

LEMMA PoolStep ==
  ASSUME TypedLock, TypedLock', [LedgerNext]_ledgerVars, OneByOne, CallsHold, WholeMoney, Cap # 0,
         PoolCovers
  PROVE  PoolCovers'
<1>0. Typed /\ Typed'
  BY DEF TypedLock
<1>1. \A c \in Cells : Held'[c] \in Nat /\ Held[c] \in Nat
  BY <1>0, AmountsNat, AmountsNatNext DEF HeldNat
<1>2. \A i \in Calls : \A c \in Cells : Ahead(i)'[c] \in Nat /\ Ahead(i)[c] \in Nat
  BY <1>0, AmountsNat, AmountsNatNext DEF AheadNat
<1>3. CASE Unlocking
  <2>1. \A c \in Cells : Held'[c] <= Held[c]
    BY <1>0, <1>3, UnlockedFigures
  <2>2. SumOf(Held', Cells) <= Cap
    <3>1. PICK h : h = Held'
      OBVIOUS
    <3>2. \A c \in Cells : h[c] \in Nat /\ Held[c] \in Nat /\ h[c] <= Held[c]
      BY <1>1, <2>1, <3>1
    <3>3. SumOf(Held, Cells) <= Cap
      BY DEF PoolCovers
    <3>4. SumOf(h, Cells) <= Cap
      BY <3>2, <3>3, SumBelow
    <3> QED
      BY <3>1, <3>4
  <2>3. ASSUME NEW i \in Calls, call'[i].at = "lock"
        PROVE  SumOf(Ahead(i)', Cells) <= Cap
    <3>1. PICK a : a = Ahead(i)'
      OBVIOUS
    <3>2. \A c \in Cells : a[c] = IF c[2] \in call'[i].months THEN call'[i].paid[c] ELSE Held'[c]
      BY <3>1 DEF Ahead
    <3>3. CASE call'[i] = call[i]
      <4>1. \A c \in Cells : Ahead(i)[c] = IF c[2] \in call[i].months THEN call[i].paid[c] ELSE Held[c]
        BY DEF Ahead
      <4>2. \A c \in Cells : a[c] \in Nat /\ Ahead(i)[c] \in Nat /\ a[c] <= Ahead(i)[c]
        BY <1>2, <2>1, <3>1, <3>2, <3>3, <4>1
      <4>3. SumOf(Ahead(i), Cells) <= Cap
        BY <2>3, <3>3 DEF PoolCovers
      <4>4. PICK b : b = Ahead(i)
        OBVIOUS
      <4> QED
        BY <3>1, <4>2, <4>3, <4>4, SumBelow
    <3>4. CASE /\ call'[i].months = call[i].months
               /\ call'[i].paid = In(Paid, call[i].months)
      <4>1. SumOf(Paid, Cells) <= Cap /\ \A c \in Cells : Paid[c] \in Nat /\ Held[c] <= Paid[c]
        BY <1>0, PaidCovers DEF PoolCovers
      <4>2. \A c \in Cells : c[2] \in call[i].months => In(Paid, call[i].months)[c] = Paid[c]
        BY <4>1, InTyped
      <4>3. ASSUME NEW c \in Cells PROVE a[c] \in Nat /\ Paid[c] \in Nat /\ a[c] <= Paid[c]
        <5>1. a[c] \in Nat /\ Paid[c] \in Nat /\ Held[c] <= Paid[c] /\ Held'[c] <= Held[c]
              /\ Held'[c] \in Nat /\ Held[c] \in Nat
          BY <1>1, <1>2, <2>1, <3>1, <4>1
        <5>2. a[c] = Paid[c] \/ a[c] = Held'[c]
          BY <3>2, <3>4, <4>2
        <5> QED
          BY <5>1, <5>2
      <4>4. PICK b : b = Paid
        OBVIOUS
      <4> QED
        BY <3>1, <4>1, <4>3, <4>4, SumBelow
    <3>5. call'[i] = call[i] \/ (/\ call'[i].months = call[i].months
                                 /\ call'[i].paid = In(Paid, call[i].months))
      <4>1. CASE UNCHANGED call
        BY <4>1
      <4>2. ASSUME NEW j \in Calls, NEW c \in CallSet, To(j, c),
                   \/ c.at \in {"idle", "build"}
                   \/ /\ c.at = "lock" /\ c.months = call[j].months
                      /\ c.paid = In(Paid, call[j].months) /\ UNCHANGED <<cell, ledger>>
                   \/ /\ call[j].at \in {"lock", "freeze"} /\ c.at \in {"freeze", "send"}
                      /\ c.paid = call[j].paid /\ c.months = call[j].months
            PROVE  call'[i] = call[i] \/ (/\ call'[i].months = call[i].months
                                          /\ call'[i].paid = In(Paid, call[i].months))
        <5>1. call'[i] = IF i = j THEN c ELSE call[i]
          BY <1>0, <4>2, TypedParts DEF To, CallsFine
        <5> QED
          BY <2>3, <4>2, <5>1
      <4> QED
        BY <1>0, <4>1, <4>2, CallSteps
    <3> QED
      BY <3>3, <3>4, <3>5
  <2> QED
    BY <2>2, <2>3 DEF PoolCovers
<1>4. CASE \E i \in Calls : Locking(i)
  <2>1. PICK i \in Calls : Locking(i)
    BY <1>4
  <2>2. i = First /\ call[i].at = "lock"
    BY <2>1 DEF Locking, Lock, CallsHold
  <2>3. \A j \in Calls : call'[j].at # "lock"
    <3>1. call' = [call EXCEPT ![i] = [call[i] EXCEPT !.at = "freeze"]]
      BY <1>0, <2>1, LockEffect DEF To
    <3>2. call[i] \in CallSet /\ DOMAIN call = Calls
      BY <1>0, TypedParts DEF CallsFine
    <3>3. [call[i] EXCEPT !.at = "freeze"].at = "freeze"
      BY <3>2 DEF CallSet
    <3>4. \A j \in Calls : j # i => call'[j] = call[j] /\ call[j].at = "idle"
      BY <2>2, <3>1, <3>2 DEF CallsHold
    <3> QED
      BY <3>1, <3>2, <3>3, <3>4
  <2>4. PICK h : h = Held'
    OBVIOUS
  <2>5. PICK a : a = Ahead(i)
    OBVIOUS
  <2>6. ASSUME NEW c \in Cells PROVE h[c] \in Nat /\ a[c] \in Nat /\ h[c] <= a[c]
    <3>1. h[c] \in Nat /\ a[c] \in Nat /\ Held[c] \in Nat
      BY <1>1, <1>2, <2>4, <2>5
    <3>2. /\ h[c] = IF c \in Ledgered' THEN Figure'[c].paid ELSE 0
          /\ Held[c] = IF c \in Ledgered THEN Figure[c].paid ELSE 0
          /\ a[c] = IF c[2] \in call[i].months THEN call[i].paid[c] ELSE Held[c]
      BY <2>4, <2>5 DEF Held, Ahead
    <3>3. CASE c \notin Ledgered'
      BY <3>1, <3>2, <3>3
    <3>4. CASE c \in NewlyLocked(i)
      <4>1. Figure'[c].paid = call[i].paid[c] /\ c[2] \in call[i].months /\ c \in Ledgered'
        BY <2>1, <3>4, LockedHolds
      <4> QED
        BY <3>1, <3>2, <4>1
    <3>5. CASE c \in Ledgered' \ NewlyLocked(i)
      <4>1. c \in Ledgered /\ Figure'[c] = Figure[c]
        BY <2>1, <3>5, LockedHolds
      <4>2. c[2] \in call[i].months => Figure[c].paid = call[i].paid[c]
        BY <2>2, <4>1 DEF CallsHold, PrintsHeld
      <4> QED
        BY <3>1, <3>2, <3>5, <4>1, <4>2
    <3> QED
      BY <3>3, <3>4, <3>5
  <2>7. SumOf(a, Cells) <= Cap
    BY <2>2, <2>5 DEF PoolCovers
  <2>8. SumOf(h, Cells) <= Cap
    BY <2>6, <2>7, SumBelow
  <2> QED
    BY <2>3, <2>4, <2>8 DEF PoolCovers
<1> QED
  BY <1>0, <1>3, <1>4, StepKinds

-----------------------------------------------------------------------------
LEMMA TurnInit == LedgerInit => TurnInv
<1> SUFFICES ASSUME LedgerInit PROVE TurnInv
  OBVIOUS
<1>1. TypedLock
  BY TypedInit, LockInitially DEF TypedLock
<1>2. Ledgered = {} /\ \A i \in Calls : call[i].at = "idle"
  BY DEF LedgerInit, Ledgered, InForce, Idle
<1>3. batches = <<>>
  BY DEF LedgerInit
<1>4. CallsHold /\ BatchesHold
  BY <1>2, <1>3 DEF CallsHold, BatchesHold
<1>5. SumOf(Held, Cells) <= Cap
  <2>1. \A c \in Cells : Held[c] = 0
    BY <1>2 DEF Held
  <2>2. IsFiniteSet(Cells)
    BY Grid
  <2>3. SumOf(Held, Cells) = 0
    BY <2>1, <2>2, SumZero
  <2> QED
    BY <2>3, PayoutLedgerAssumption
<1> QED
  BY <1>1, <1>2, <1>4, <1>5 DEF TurnInv, PoolCovers

LEMMA TurnStep == TurnInv /\ [LedgerNext]_ledgerVars => TurnInv'
<1> SUFFICES ASSUME TurnInv, [LedgerNext]_ledgerVars PROVE TurnInv'
  OBVIOUS
<1>1. TypedLock /\ TypedLock' /\ Typed
  BY LockStep DEF TurnInv, TypedLock
<1>2. OneByOne' <=> OneByOne
  BY <1>1, StepKinds DEF OneByOne
<1>3. OneByOne => CallsHold' /\ BatchesHold'
  BY <1>1, CallsStep, BatchesStep DEF TurnInv
<1>4. (OneByOne /\ WholeMoney /\ Cap # 0) => PoolCovers'
  BY <1>1, PoolStep DEF TurnInv
<1>5. WholeMoney' <=> WholeMoney
  BY DEF WholeMoney
<1> QED
  BY <1>1, <1>2, <1>3, <1>4, <1>5 DEF TurnInv

LEMMA ReissueFollows == TurnInv => ReissueIsCurrent
<1> SUFFICES ASSUME TurnInv, "two" \notin ops, NEW S \in Slices, Reissued(S), NEW c \in Worked(S)
             PROVE  batches[Newest(Archived(S))].paid[c] = Figure[c].paid
  BY DEF ReissueIsCurrent
<1>1. TypedLock /\ Typed /\ BatchesHold
  BY DEF TurnInv, TypedLock, OneByOne
<1>2. IsFiniteSet(Archived(S)) /\ Archived(S) \subseteq Nat /\ Archived(S) \subseteq DOMAIN batches
  <2>1. batches \in Seq(BatchSet)
    BY <1>1, TypedParts
  <2>2. DOMAIN batches = 1..Len(batches) /\ Len(batches) \in Nat
    BY <2>1
  <2>3. IsFiniteSet(1..Len(batches))
    BY <2>2, FS_Interval
  <2>4. Archived(S) \subseteq 1..Len(batches)
    BY <2>2 DEF Archived
  <2> QED
    BY <2>2, <2>3, <2>4, FS_Subset
<1>3. Newest(Archived(S)) \in Archived(S)
  BY <1>2, NewestIn DEF Reissued
<1>4. PICK n : n = Newest(Archived(S))
  OBVIOUS
<1>5. /\ n \in DOMAIN batches /\ batches[n].months = S
      /\ Locked(c) /\ cell[c].at <= batches[n].at
  BY <1>3, <1>4 DEF Archived
<1>6. c \in Cells /\ c[2] \in S
  BY DEF Worked
<1>7. c \in Ledgered
  BY <1>1, <1>5, <1>6, FigureIs DEF FigureIsItsRow
<1> QED
  BY <1>1, <1>4, <1>5, <1>6, <1>7 DEF BatchesHold

(* A pack served again says what its months are worth, with one download at  *)
(* a time, through corrections, new rates and lost records.                  *)
THEOREM ReissuesAreCurrent == LedgerSpec => []ReissueIsCurrent
  BY ReissueFollows, TurnInit, TurnStep, PTL DEF LedgerSpec

LEMMA PoolFollows == WholeMoney /\ TurnInv => PoolHeld
  BY HeldAdds DEF TurnInv, TypedLock, PoolHeld, PoolCovers, OneByOne

(* The figures of the locked months never pass the pool, with one download   *)
(* at a time, in whatever order the months are exported, sent back and       *)
(* exported again, as long as no amount is a single satang.                 *)
THEOREM PoolIsHeld == WholeMoney => (LedgerSpec => []PoolHeld)
<1> SUFFICES ASSUME WholeMoney PROVE LedgerSpec => []PoolHeld
  OBVIOUS
<1>1. TurnInv => PoolHeld
  BY PoolFollows
<1> QED
  BY <1>1, TurnInit, TurnStep, PTL DEF LedgerSpec
=============================================================================
