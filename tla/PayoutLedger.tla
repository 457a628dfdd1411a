---------------------------- MODULE PayoutLedger ----------------------------
(***************************************************************************)
(* What a claim pack says and what stays fixed once it has left: one       *)
(* course, its months, the figures recorded with the lock of a month, the  *)
(* graduate's lump, and the history of the packs.                          *)
(*                                                                         *)
(* A download reads the rows, builds the pack, locks the months with their *)
(* figures, freezes the lump, then records and sends.  Each is a step:     *)
(* others export, send back, approve and change rates in between.  One     *)
(* track, whose cap is fixed; the holder of the lump is not one of TAs;    *)
(* the gate's other conditions are those of PayoutMonths.                  *)
(***************************************************************************)
EXTENDS Settlement, Sequences

CONSTANTS
    Calls,      \* downloads that may be in flight at once
    First,      \* the one that may run when they come one at a time
    Cap,        \* the pool of the course
    Rates,      \* what an hour can be worth, in satang
    Mode,       \* how a short pool is placed
    Lumps,      \* what the lump in force can be, in baht
    MaxHours, MaxTime,  \* bounds: hours of a month, ticks of the clock
    Workloads   \* the sets of operations, one of which a behaviour uses (a bound)

LedgerOps == {"export", "log", "staff", "two", "slices", "rate", "weigh", "lump", "sendback", "lose"}

ASSUME PayoutLedgerAssumption ==
    /\ Cap \in Nat /\ Mode \in Modes
    /\ Rates \subseteq Nat /\ Rates # {} /\ Lumps \subseteq Nat /\ Lumps # {}
    /\ First \in Calls /\ MaxHours \in Nat \ {0} /\ MaxTime \in Nat
    /\ Workloads \subseteq SUBSET LedgerOps

VARIABLES
    hours,    \* approved hours of a TA in a month
    rate,     \* the rate in force
    weight,   \* what the lump is placed by
    lump,     \* the lump in force
    cell,     \* submission_period_status: the status and exported_at of a TA's month
    ledger,   \* export_month_ledger
    frozen,   \* grad_lump_ledger: the month, its figure and the basis
    batches,  \* export_batches, in the order of generated_at
    sent,     \* the packs that left the server
    time,     \* the database's clock
    call,     \* what each download is doing
    ops       \* the operations of this behaviour

prices     == <<rate, weight, lump>>
ledgerVars == <<hours, prices, cell, ledger, frozen, batches, sent, time, call, ops>>

Staff  == IF "staff" \in ops THEN TAs ELSE {CHOOSE t \in TAs : TRUE}
Amount == IF "staff" \in ops THEN 0..MaxHours ELSE {0, MaxHours}
Slices == IF "slices" \in ops THEN (SUBSET Months) \ {{}} ELSE {Months}
None   == [c \in Cells |-> 0]
Idle   == [at |-> "idle", months |-> {}, read |-> None, earned |-> None, paid |-> None,
           lump |-> [m \in Months |-> 0], basis |-> 0]

Locked(c) == cell[c].status = "locked"
In(f, S)  == [c \in Cells |-> IF c[2] \in S THEN f[c] ELSE 0]
Worked(S) == {c \in Cells : c[2] \in S /\ hours[c] > 0}
To(i, c)  == call' = [call EXCEPT ![i] = c]

-----------------------------------------------------------------------------
(* Reading the ledgers: the newest row no older than the lock in force.     *)
InForce(c) == {r \in ledger : /\ r.cell = c /\ Locked(c) /\ r.at >= cell[c].at
                              /\ \A q \in ledger : q.cell = c => q.at <= r.at}
Ledgered   == {c \in Cells : InForce(c) # {}}
Figure     == [c \in Ledgered |-> CHOOSE r \in InForce(c) : TRUE]

(* Hours are priced at the rate in force, a ledgered month at its figure,    *)
(* which also takes its share off the pool before the others divide it.      *)
Cost == [c \in Cells |-> IF c \in Ledgered THEN Figure[c].earned ELSE hours[c] * rate]
Paid == SettleFrozen(Mode, Cap, 0, Cost, [c \in Ledgered |-> Figure[c].paid])

FrozenLump == [m \in {r.month : r \in frozen} |-> (CHOOSE r \in frozen : r.month = m).baht]
Basis      == IF frozen = {} THEN lump ELSE (CHOOSE r \in frozen : TRUE).basis

-----------------------------------------------------------------------------
(* A fully locked slice whose pack is kept is served again: a pack of these  *)
(* months that is no older than any of their locks.                          *)
Newest(N) == CHOOSE n \in N : \A k \in N : k <= n

ArchivedAnyAge(S) ==
    {n \in DOMAIN batches : /\ batches[n].months = S /\ Worked(S) # {}
                            /\ \A c \in Worked(S) : Locked(c)}
Archived(S) ==
    {n \in DOMAIN batches : /\ batches[n].months = S /\ Worked(S) # {}
                            /\ \A c \in Worked(S) : Locked(c) /\ cell[c].at <= batches[n].at}

Reissued(S) == Archived(S) # {} /\ batches[Newest(Archived(S))].kept

(* The fingerprint is read, then the pack is built from one reading of the   *)
(* tables.  The gate wants every month with work signed off.                 *)
Start(i) ==
    /\ "export" \in ops /\ call[i] = Idle /\ (i = First \/ "two" \in ops)
    /\ \E S \in Slices :
          /\ Worked(S) # {} /\ ~Reissued(S)
          /\ To(i, [Idle EXCEPT !.at = "build", !.months = S, !.read = In(hours, S)])
    /\ UNCHANGED <<hours, prices, cell, ledger, frozen, batches, sent, time, ops>>

Build(i) ==
    LET S == call[i].months IN
    /\ call[i].at = "build"
    /\ IF \E c \in Worked(S) : cell[c].status = "open" THEN To(i, Idle)
       ELSE To(i, [call[i] EXCEPT !.at = "lock", !.earned = In(Cost, S), !.paid = In(Paid, S),
                                  !.lump = SplitLump(Basis, weight, FrozenLump), !.basis = Basis])
    /\ UNCHANGED <<hours, prices, cell, ledger, frozen, batches, sent, time, ops>>

(* The rows must be those the pack was built from; the figures of the months *)
(* it locks go to the ledger with the lock.                                  *)
AllOfSlice(i)  == {c \in Worked(call[i].months) : cell[c].status # "open"}
NewlyLocked(i) == {c \in Worked(call[i].months) : cell[c].status = "reviewed"}

Lock(i) ==
    LET new == {c \in NewlyLocked(i) : cell[c].status = "reviewed"}
        row(c) == [cell |-> c, earned |-> call[i].earned[c], paid |-> call[i].paid[c], at |-> time']
    IN  /\ call[i].at = "lock" /\ time < MaxTime
        /\ IF call[i].read # In(hours, call[i].months)
           THEN To(i, Idle) /\ UNCHANGED <<cell, ledger, time>>
           ELSE /\ time' = time + 1
                /\ cell' = [c \in Cells |-> IF c \in new THEN [status |-> "locked", at |-> time']
                                                         ELSE cell[c]]
                /\ ledger' = ledger \cup {row(c) : c \in NewlyLocked(i)}
                /\ To(i, [call[i] EXCEPT !.at = "freeze"])
        /\ UNCHANGED <<hours, prices, frozen, batches, sent, ops>>

(* Under the advisory lock: a month keeps its first figure, and a pack that  *)
(* printed another is not sent.                                              *)
PrintedAnyhow(i)   == call[i].at = "freeze"
PrintedAsFrozen(i) == \A r \in frozen : r.month \in call[i].months =>
                                            r.baht = call[i].lump[r.month]

Freeze(i) ==
    LET row(m) == [month |-> m, baht |-> call[i].lump[m], basis |-> call[i].basis] IN
    /\ call[i].at = "freeze"
    /\ IF PrintedAsFrozen(i)
       THEN /\ frozen' = frozen \cup {row(m) : m \in call[i].months \ DOMAIN FrozenLump}
            /\ To(i, [call[i] EXCEPT !.at = "send"])
       ELSE To(i, Idle) /\ UNCHANGED frozen
    /\ UNCHANGED <<hours, prices, cell, ledger, batches, sent, time, ops>>

-----------------------------------------------------------------------------
(* batchVersion: the newest batch with a month in common is replaced when    *)
(* one of those months was locked since.                                     *)
Overlapping(S)  == {n \in DOMAIN batches : batches[n].months \cap S # {}}
Relocked(S, at) == \E c \in Cells : c[2] \in S /\ Locked(c) /\ cell[c].at > at

VersionFromZero(S) == Cardinality({n \in Overlapping(S) : Relocked(S, batches[n].at)})
Version(S) ==
    IF Overlapping(S) = {} THEN 1
    ELSE LET b == batches[Newest(Overlapping(S))]
         IN  IF Relocked(S \cap b.months, b.at) THEN b.version + 1 ELSE b.version

(* The pack goes out; keeping its file and recording it are best effort.     *)
Send(i) ==
    LET c == call[i]
        batch(kept) == [months |-> c.months, at |-> time', version |-> Version(c.months),
                        kept |-> kept, paid |-> c.paid]
    IN  /\ c.at = "send" /\ time < MaxTime
        /\ time' = time + 1
        /\ \/ batches' = Append(batches, batch(TRUE))
           \/ "lose" \in ops /\ batches' = Append(batches, batch(FALSE))
           \/ "lose" \in ops /\ UNCHANGED batches
        /\ sent' = sent \cup {[months |-> c.months, lump |-> c.lump]}
        /\ To(i, Idle)
        /\ UNCHANGED <<hours, prices, cell, ledger, frozen, ops>>

-----------------------------------------------------------------------------
(* Around the downloads.  A locked month is write-protected; a write to a    *)
(* reviewed one takes the review back.                                       *)
SetHours(c) ==
    /\ "log" \in ops /\ c[1] \in Staff /\ ~Locked(c)
    /\ \E h \in Amount \ {hours[c]} : hours' = [hours EXCEPT ![c] = h]
    /\ cell' = [cell EXCEPT ![c].status = "open"]
    /\ UNCHANGED <<prices, ledger, frozen, batches, sent, time, call, ops>>

SignOff(c) ==
    /\ "export" \in ops /\ cell[c].status = "open" /\ hours[c] > 0
    /\ cell' = [cell EXCEPT ![c].status = "reviewed"]
    /\ UNCHANGED <<hours, prices, ledger, frozen, batches, sent, time, call, ops>>

SendBack(c) ==
    /\ "sendback" \in ops /\ cell[c].status # "open"
    /\ cell' = [cell EXCEPT ![c] = [status |-> "open", at |-> 0]]
    /\ UNCHANGED <<hours, prices, ledger, frozen, batches, sent, time, call, ops>>

Reprice ==
    /\ \/ "rate" \in ops /\ rate' \in Rates \ {rate} /\ UNCHANGED <<weight, lump>>
       \/ "lump" \in ops /\ lump' \in Lumps \ {lump} /\ UNCHANGED <<rate, weight>>
       \/ /\ "weigh" \in ops /\ UNCHANGED <<rate, lump>>
          /\ \E m \in Months : weight[m] < MaxHours /\ weight' = [weight EXCEPT ![m] = @ + 1]
    /\ UNCHANGED <<hours, cell, ledger, frozen, batches, sent, time, call, ops>>

-----------------------------------------------------------------------------
LedgerInit ==
    /\ ops \in Workloads
    /\ hours = [c \in Cells |-> IF c[1] \in Staff THEN MaxHours ELSE 0]
    /\ rate = Least(Rates) /\ lump = Least(Lumps)
    /\ weight = [m \in Months |-> 1]
    /\ cell = [c \in Cells |-> [status |-> IF c[1] \in Staff THEN "reviewed" ELSE "open", at |-> 0]]
    /\ ledger = {} /\ frozen = {} /\ batches = <<>> /\ sent = {}
    /\ time = 0 /\ call = [i \in Calls |-> Idle]

LedgerNext ==
    \/ \E i \in Calls : Start(i) \/ Build(i) \/ Lock(i) \/ Freeze(i) \/ Send(i)
    \/ \E c \in Cells : SetHours(c) \/ SignOff(c) \/ SendBack(c)
    \/ Reprice

LedgerSpec == LedgerInit /\ [][LedgerNext]_ledgerVars

-----------------------------------------------------------------------------
LedgerTypeOK ==
    /\ hours \in [Cells -> 0..MaxHours] /\ rate \in Rates /\ lump \in Lumps
    /\ weight \in [Months -> 0..MaxHours] /\ time \in 0..MaxTime /\ ops \in Workloads
    /\ cell \in [Cells -> [status : {"open", "reviewed", "locked"}, at : Nat]]
    /\ ledger \subseteq [cell : Cells, earned : Nat, paid : Nat, at : Nat]
    /\ frozen \subseteq [month : Months, baht : Nat, basis : Nat]
    /\ batches \in Seq([months : SUBSET Months, at : Nat, version : Nat \ {0},
                        kept : BOOLEAN, paid : [Cells -> Nat]])
    /\ sent \subseteq [months : SUBSET Months, lump : [Months -> Nat]]
    /\ call \in [Calls -> [at : {"idle", "build", "lock", "freeze", "send"},
                           months : SUBSET Months, read : [Cells -> Nat],
                           earned : [Cells -> Nat], paid : [Cells -> Nat],
                           lump : [Months -> Nat], basis : Nat]]

(* While a month stays locked by one export its figure does not move: not   *)
(* with a later export of it, a rate, or another month (writeMonthLedger).  *)
LockedFigureStands ==
    [][\A c \in Cells : (Locked(c) /\ cell'[c] = cell[c]) => InForce(c)' = InForce(c)]_ledgerVars

(* A pack that left the server printed, for each of its months, the lump    *)
(* that the ledger holds, however many packs were built at once.            *)
PacksPrintFrozenLump ==
    \A p \in sent : \A m \in p.months : m \in DOMAIN FrozenLump /\ p.lump[m] = FrozenLump[m]

(* What is served again is what the months are worth: no pack older than a  *)
(* correction comes back, if downloads come one at a time.                  *)
ReissueIsCurrent ==
    "two" \notin ops =>
        \A S \in Slices : Reissued(S) =>
            \A c \in Worked(S) : batches[Newest(Archived(S))].paid[c] = Figure[c].paid

(* The locked months of a course are never paid more than its pool, if      *)
(* downloads come one at a time, in whatever order the months are exported. *)
PoolHeld ==
    "two" \notin ops => (Cap = 0 \/ Total([c \in Ledgered |-> Figure[c].paid], Ledgered) <= Cap)

(* With several TAs at work, a pool that covers everything pays everything. *)
(* A short one pays each, in either mode, their share of it in proportion to *)
(* what they are owed, rounded down to whole baht and not further; no month  *)
(* more than it cost, and together no more than the pool.                    *)
SharesAreFair ==
    Staff = TAs => \A mode \in Modes :
        LET cost    == [c \in Cells |-> hours[c] * rate]
            out     == Settle(mode, Cap, 0, cost)
            all     == Total(cost, Cells)
            owed(t) == Total(Row(cost, t), Months)
            paid(t) == Total(Row(out, t), Months)
        IN  IF Cap = 0 \/ all <= Cap THEN out = cost
            ELSE /\ Total(out, Cells) <= Cap
                 /\ \A c \in Cells : out[c] <= cost[c]
                 /\ \A t \in TAs : /\ paid(t) = WholeBaht(paid(t))
                                   /\ all * paid(t) <= Cap * owed(t)
                                   /\ Cap * owed(t) < all * (paid(t) + Baht)

-----------------------------------------------------------------------------
(* What the code does not keep, and the README says how.                   *)

(* The months frozen never add up to more than the lump they are part of.   *)
LumpHeld == \A r \in frozen : Total(FrozenLump, DOMAIN FrozenLump) <= r.basis

(* The pack finance holds says what the ledger says, while the month stays  *)
(* locked as the pack was sent.                                             *)
PacksPrintLedger ==
    \A n \in DOMAIN batches : \A c \in Ledgered :
        (c[2] \in batches[n].months /\ cell[c].at <= batches[n].at) =>
            batches[n].paid[c] = Figure[c].paid

(* A pack that prints another figure for a month than an earlier pack is a  *)
(* later version: finance is told that it replaces the earlier one.         *)
CorrectionsSupersede ==
    \A n, k \in DOMAIN batches : \A c \in Cells :
        (/\ n < k /\ batches[n].months = batches[k].months
         /\ batches[n].paid[c] # batches[k].paid[c]) =>
            batches[n].version < batches[k].version
=============================================================================
