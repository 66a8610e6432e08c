----------------------------- MODULE TransferProofs -----------------------------
(***************************************************************************)
(* What a file carries: theorems about the exports and imports of Admin,    *)
(* and, last, what importing a file a second time does.  A merging import   *)
(* goes through the file entry by entry; the state it leaves is described   *)
(* by the last entry of each row (Merged), and a second import of the same  *)
(* file, while it runs, differs from that state only in rows which an entry *)
(* still to come will overwrite (Overlaid).                                 *)
(***************************************************************************)
EXTENDS AdminProofs, FiniteSetTheorems

-----------------------------------------------------------------------------
(* Ids in order.                                                            *)

\* Least is the smallest of some ids.
LEMMA LeastId ==
    ASSUME NEW S, S \subseteq Nat, S # {}
    PROVE Least(S) \in S /\ \A j \in S : Least(S) <= j
<1> DEFINE R == {ss \in Nat \X Nat : ss[1] < ss[2]}
<1>1. IsWellFoundedOn(R, Nat)
  BY NatLessThanWellFounded DEF OpToRel
<1>2. \E i \in S : \A j \in S : ~ (<<j, i>> \in R)
  BY <1>1, WFMin
<1>3. \A i, j \in Nat : j < i => <<j, i>> \in R
  OBVIOUS
<1> HIDE DEF R
<1>4. PICK i \in S : \A j \in S : ~ (<<j, i>> \in R)
  BY <1>2
<1>5. ASSUME NEW j \in S PROVE i <= j
  <2>1. i \in Nat /\ j \in Nat /\ ~ (j < i)
    BY <1>3, <1>4, Zenon
  <2> QED BY <2>1
<1> QED BY <1>5 DEF Least

\* InOrder is each of finitely many ids once, in ascending order.
LEMMA InOrderEnumerates ==
    ASSUME NEW S, S \subseteq Nat, IsFiniteSet(S)
    PROVE LET n == Cardinality(S)  f == InOrder(S) IN
          /\ n \in Nat /\ f \in [1..n -> S]
          /\ \A i, j \in 1..n : f[i] = f[j] => i = j
          /\ \A x \in S : \E i \in 1..n : f[i] = x
<1> DEFINE n == Cardinality(S)
           upTo(x) == {y \in S : y <= x}
           rank == [x \in S |-> Cardinality(upTo(x))]
<1>1. n \in Nat
  BY FS_CardinalityType
<1>2. IsFiniteSet(1..n) /\ Cardinality(1..n) = n
  BY <1>1, FS_Interval
<1>3. ASSUME NEW x \in S PROVE IsFiniteSet(upTo(x)) /\ rank[x] \in 1..n
  <2>1. upTo(x) \in SUBSET S
    OBVIOUS
  <2>2. IsFiniteSet(upTo(x)) /\ Cardinality(upTo(x)) <= n /\ Cardinality(upTo(x)) \in Nat
    BY <2>1, FS_Subset, FS_CardinalityType
  <2>3. x \in upTo(x)
    OBVIOUS
  <2>4. Cardinality(upTo(x)) # 0
    BY <2>2, <2>3, FS_EmptySet
  <2> QED BY <1>1, <2>2, <2>4
<1>4. ASSUME NEW x \in S, NEW y \in S, x < y PROVE rank[x] < rank[y]
  <2>1. y \notin upTo(x) /\ upTo(x) \union {y} \in SUBSET upTo(y)
    <3>1. y \notin upTo(x) /\ y \in upTo(y)
      BY <1>4
    <3>2. ASSUME NEW z \in upTo(x) PROVE z \in upTo(y)
      BY <1>4
    <3> QED BY <3>1, <3>2
  <2>2. IsFiniteSet(upTo(x)) /\ IsFiniteSet(upTo(y)) /\ rank[x] \in 1..n /\ rank[y] \in 1..n
    BY <1>3
  <2> HIDE DEF upTo
  <2>3. Cardinality(upTo(x) \union {y}) = Cardinality(upTo(x)) + 1
    BY <2>1, <2>2, FS_AddElement
  <2>4. Cardinality(upTo(x) \union {y}) <= Cardinality(upTo(y))
    BY <2>1, <2>2, FS_Subset
  <2> QED BY <1>1, <2>2, <2>3, <2>4
<1>5. rank \in Injection(S, 1..n)
  <2>1. rank \in [S -> 1..n]
    BY <1>3
  <2>2. ASSUME NEW x \in S, NEW y \in S, rank[x] = rank[y] PROVE x = y
    <3>1. x \in Nat /\ y \in Nat /\ ~ (x < y) /\ ~ (y < x)
      BY <1>1, <1>3, <1>4, <2>2
    <3> QED BY <3>1
  <2> HIDE DEF rank
  <2> QED BY <2>1, <2>2 DEF Injection, IsInjective
<1>6. \A i \in 1..n : \E x \in S : rank[x] = i
  <2> HIDE DEF rank, n
  <2>1. rank \in Surjection(S, 1..n)
    BY <1>2, <1>5, FS_Injection DEF n
  <2> QED BY <2>1 DEF Surjection
<1> DEFINE place == [i \in 1..n |-> CHOOSE x \in S : rank[x] = i]
<1>7. \A i \in 1..n : place[i] \in S /\ rank[place[i]] = i
  BY <1>6
<1> HIDE DEF rank, n, place
<1>8. \A i, j \in 1..n : i < j => place[i] < place[j]
  <2> SUFFICES ASSUME NEW i \in 1..n, NEW j \in 1..n, i < j, ~ (place[i] < place[j]) PROVE FALSE
    OBVIOUS
  <2>1. rank[place[i]] = i /\ rank[place[j]] = j /\ place[i] \in S /\ place[j] \in S
    BY <1>7
  <2>2. place[i] \in Nat /\ place[j] \in Nat /\ place[i] # place[j]
    <3>1. i # j
      BY <1>1
    <3>2. place[i] # place[j]
      BY <2>1, <3>1, Zenon
    <3> QED BY <2>1, <3>2
  <2>3. rank[place[j]] < rank[place[i]]
    BY <1>4, <2>1, <2>2
  <2> QED BY <1>1, <2>1, <2>3
<1>9. place \in [1..n -> S]
  BY <1>7 DEF place
<1> DEFINE f == InOrder(S)
<1>10. f \in [1..n -> S] /\ \A i, j \in 1..n : i < j => f[i] < f[j]
  BY <1>8, <1>9 DEF InOrder, n
<1> HIDE DEF f
<1>11. \A i, j \in 1..n : f[i] = f[j] => i = j
  <2> SUFFICES ASSUME NEW i \in 1..n, NEW j \in 1..n, f[i] = f[j] PROVE i = j
    OBVIOUS
  <2>1. f[i] \in Nat
    BY <1>10
  <2>2. ~ (f[i] < f[j]) /\ ~ (f[j] < f[i])
    BY <2>1
  <2>3. ~ (i < j) /\ ~ (j < i)
    BY <1>10, <2>2
  <2> QED BY <1>1, <2>3
<1>12. f \in Surjection(1..n, S)
  <2>1. f \in Injection(1..n, S)
    BY <1>10, <1>11 DEF Injection, IsInjective
  <2> QED BY <1>2, <2>1, FS_Injection DEF n
<1>13. \A x \in S : \E i \in 1..n : f[i] = x
  BY <1>12 DEF Surjection
<1> QED BY <1>1, <1>10, <1>11, <1>13 DEF f, n

-----------------------------------------------------------------------------
(* Stores that Import would take.                                           *)

LEMMA CounterImportable ==
    ASSUME NEW s, IsStore(s), Importable(s), NEW cid \in Numeric, NEW label, NEW token
    PROVE Importable(CreateCounter(s, cid, label, token))
<1> DEFINE z == CreateCounter(s, cid, label, token)
<1>1. /\ z.counters = Put(s.counters, s.lastCounter + 1,
                         [cid |-> cid, label |-> label, token |-> token, cursor |-> FALSE])
      /\ z.triggers = s.triggers /\ z.reports = s.reports
  BY DEF CreateCounter, IsStore
<1> QED BY <1>1 DEF Importable, ValidCounter, Put

LEMMA TriggerImportable ==
    ASSUME NEW s, IsStore(s), Importable(s), NEW row, ValidTrigger(row)
    PROVE /\ Importable(CreateTrigger(s, row))
          /\ \A t \in DOMAIN s.triggers : Importable([s EXCEPT !.triggers[t] = row])
<1>1. Importable(CreateTrigger(s, row))
  <2> DEFINE z == CreateTrigger(s, row)
  <2>1. /\ z.triggers = Put(s.triggers, s.lastTrigger + 1, row)
        /\ z.counters = s.counters /\ z.reports = s.reports
    BY DEF CreateTrigger, IsStore
  <2> HIDE DEF z
  <2>2. \A t \in DOMAIN z.triggers : z.triggers[t] = row \/ (t \in DOMAIN s.triggers /\ z.triggers[t] = s.triggers[t])
    BY <2>1 DEF Put
  <2> QED BY <2>1, <2>2 DEF Importable, z
<1>2. ASSUME NEW t \in DOMAIN s.triggers PROVE Importable([s EXCEPT !.triggers[t] = row])
  <2> DEFINE z == [s EXCEPT !.triggers[t] = row]
  <2>1. /\ z.triggers = [s.triggers EXCEPT ![t] = row]
        /\ z.counters = s.counters /\ z.reports = s.reports
    BY DEF IsStore
  <2> HIDE DEF z
  <2>2. \A v \in DOMAIN z.triggers : z.triggers[v] = row \/ (v \in DOMAIN s.triggers /\ z.triggers[v] = s.triggers[v])
    BY <2>1
  <2> QED BY <2>1, <2>2 DEF Importable, z
<1> QED BY <1>1, <1>2

LEMMA ReportImportable ==
    ASSUME NEW s, IsStore(s), Importable(s), NEW row, ValidReport(row)
    PROVE /\ Importable(CreateReport(s, row))
          /\ \A r \in DOMAIN s.reports : Importable([s EXCEPT !.reports[r] = row])
<1>1. Importable(CreateReport(s, row))
  <2> DEFINE z == CreateReport(s, row)
  <2>1. /\ z.reports = Put(s.reports, s.lastReport + 1, row)
        /\ z.counters = s.counters /\ z.triggers = s.triggers
    BY DEF CreateReport, IsStore
  <2> HIDE DEF z
  <2>2. \A r \in DOMAIN z.reports : z.reports[r] = row \/ (r \in DOMAIN s.reports /\ z.reports[r] = s.reports[r])
    BY <2>1 DEF Put
  <2> QED BY <2>1, <2>2 DEF Importable, z
<1>2. ASSUME NEW r \in DOMAIN s.reports PROVE Importable([s EXCEPT !.reports[r] = row])
  <2> DEFINE z == [s EXCEPT !.reports[r] = row]
  <2>1. /\ z.reports = [s.reports EXCEPT ![r] = row]
        /\ z.counters = s.counters /\ z.triggers = s.triggers
    BY DEF IsStore
  <2> HIDE DEF z
  <2>2. \A v \in DOMAIN z.reports : z.reports[v] = row \/ (v \in DOMAIN s.reports /\ z.reports[v] = s.reports[v])
    BY <2>1
  <2> QED BY <2>1, <2>2 DEF Importable, z
<1> QED BY <1>1, <1>2

\* Rows that are gone, and counters that keep their counter_id.
LEMMA RestImportable ==
    ASSUME NEW s, Importable(s), NEW z,
           \A c \in DOMAIN z.counters : c \in DOMAIN s.counters /\ z.counters[c].cid = s.counters[c].cid,
           \A t \in DOMAIN z.triggers : t \in DOMAIN s.triggers /\ z.triggers[t] = s.triggers[t],
           \A r \in DOMAIN z.reports : r \in DOMAIN s.reports /\ z.reports[r] = s.reports[r]
    PROVE Importable(z)
BY DEF Importable, ValidCounter

\* Whatever the bots and the engine store, and an import in progress, an import takes.
Regular ==
    ~odd => Importable(db) /\ (tx # NoTx => Importable(tx.store))

LEMMA RegularStep == IInv /\ Regular /\ [Next]_vars => Regular' /\ (odd => odd')
<1> SUFFICES ASSUME IInv, Regular, [Next]_vars PROVE Regular' /\ (odd => odd')
  OBVIOUS
<1>s. IsStore(db) /\ (tx # NoTx => IsStore(tx.store))
  BY DEF IInv, Sound, Copy
\* A statement of a user or a client.
<1>w. ASSUME NEW s, Write(s), odd' \in BOOLEAN, odd => odd', ~odd' => Importable(s)
      PROVE Regular' /\ (odd => odd')
  BY <1>w DEF Write, Regular
\* A step that leaves the stores alone.
<1>u. ASSUME UNCHANGED <<db, odd>>, tx' \in {tx, NoTx} PROVE Regular' /\ (odd => odd')
  BY <1>u DEF Regular
\* A statement of an import.
<1>i. ASSUME NEW s, Applied(s), tx # NoTx, odd' = odd, ~odd => Importable(s)
      PROVE Regular' /\ (odd => odd')
  <2>1. tx'.store = s /\ db' = db
    BY <1>i DEF Applied, IInv, Control
  <2> QED BY <1>i, <2>1 DEF Regular
<1>1. ASSUME NEW u \in Users, Asks(u) PROVE Regular' /\ (odd => odd')
  BY <1>1, <1>u DEF Asks, AskCounter, AskAction, AskTrigger, AskReport, AskImport, Look, NoWrite, history
<1>2. ASSUME NEW u \in Users, Saves(u) PROVE Regular' /\ (odd => odd')
  <2>1. ASSUME NEW in \in CounterInputs, SaveCounter(u, in) PROVE Regular' /\ (odd => odd')
    BY <1>s, <1>w, <2>1, CounterImportable DEF SaveCounter, Plain, Regular, IInv, Control
  <2>2. ASSUME NEW in \in RuleInputs, SaveTrigger(u, in) PROVE Regular' /\ (odd => odd')
    <3> DEFINE row == Rule(pending[u].counter, in, Weeks(in.weeks))
    <3>1. ValidTrigger(row)
      BY <2>2 DEF SaveTrigger, Accepted, ValidTrigger, Rule, Weeks
    <3>2. Write(CreateTrigger(db, row)) /\ odd' = odd
      BY <2>2 DEF SaveTrigger
    <3> HIDE DEF row
    <3> QED BY <1>s, <1>w, <3>1, <3>2, TriggerImportable DEF Regular, IInv, Control
  <2>3. ASSUME NEW in \in ReportInputs, SaveReport(u, in) PROVE Regular' /\ (odd => odd')
    <3> DEFINE row == [counter |-> pending[u].counter, name |-> in.name, period |-> in.period, on |-> TRUE]
    <3>1. ValidReport(row)
      BY <2>3 DEF SaveReport, ValidReport
    <3>2. Write(CreateReport(db, row)) /\ odd' = odd
      BY <2>3 DEF SaveReport
    <3> HIDE DEF row
    <3> QED BY <1>s, <1>w, <3>1, <3>2, ReportImportable DEF Regular, IInv, Control
  <2>4. ASSUME NEW row \in ActionInputs, SaveAlertAction(u, row) PROVE Regular' /\ (odd => odd')
    <3>1. ~odd => Importable(CreateAlertAction(db, row))
      BY <1>s, RestImportable DEF CreateAlertAction, IsStore, Regular
    <3> QED BY <1>w, <2>4, <3>1 DEF SaveAlertAction, Plain, IInv, Control
  <2> QED BY <1>2, <2>1, <2>2, <2>3, <2>4 DEF Saves
<1>3. ASSUME NEW u \in Users, Removes(u) PROVE Regular' /\ (odd => odd')
  <2>1. \A c : ~odd => Importable(DeleteCounter(db, c))
    BY <1>s, RestImportable DEF DeleteCounter, Without, IsStore, Regular
  <2>2. \A t : ~odd => Importable(DeleteTrigger(db, t))
    BY <1>s, RestImportable DEF DeleteTrigger, Without, IsStore, Regular
  <2>3. \A r : ~odd => Importable(DeleteReport(db, r))
    BY <1>s, RestImportable DEF DeleteReport, Without, IsStore, Regular
  <2>4. \A a : ~odd => Importable(DeleteAlertAction(db, a))
    BY <1>s, RestImportable DEF DeleteAlertAction, IsStore, Regular
  <2>5. \A at : ~odd => Importable(SetSetting(db, at))
    BY <1>s, RestImportable DEF SetSetting, IsStore, Regular
  <2>6. PICK s : Write(s) /\ odd' = odd /\ (~odd => Importable(s))
    BY <1>3, <2>1, <2>2, <2>3, <2>4, <2>5
       DEF Removes, RemoveCounter, RemoveTrigger, RemoveReport, RemoveAction, Reschedule, Plain
  <2> QED BY <1>w, <2>6 DEF IInv, Control
<1>4. ASSUME NEW u \in Users, Transfers(u) PROVE Regular' /\ (odd => odd')
  <2>1. ASSUME NEW args \in ExportArgs, Export(u, args.counter, args.safe) PROVE Regular' /\ (odd => odd')
    BY <1>u, <2>1 DEF Export, ExportStart, history
  <2>2. ASSUME NEW f, NEW replace \in BOOLEAN, Import(u, f, replace) PROVE Regular' /\ (odd => odd')
    <3>1. /\ tx'.store = IF replace THEN Cleared(db, f) ELSE db
          /\ db' = db /\ odd' = odd
      BY <2>2 DEF Import, ImportStart, history
    <3>2. Importable(Cleared(db, f))
      BY DEF Importable, Cleared, Empty
    <3> QED BY <3>1, <3>2 DEF Regular
  <2> QED BY <1>4, <2>1, <2>2 DEF Transfers
<1>5. ASSUME Exporting PROVE Regular' /\ (odd => odd')
  BY <1>5, <1>u DEF Exporting, ExportTriggers, ExportReports, ExportDone, history
<1>6. ASSUME Importing PROVE Regular' /\ (odd => odd')
  <2> DEFINE s == tx.store
             e == tx.file[tx.at]
  <2>1. tx # NoTx /\ IsStore(s) /\ odd' = odd /\ (~odd => Importable(s))
    BY <1>6, <1>s DEF Importing, Regular, history
  <2>2. tx.at \in DOMAIN tx.file => Valid(e)
    BY <2>1 DEF IInv, Control, Readable
  <2>3. ASSUME ImportCounter PROVE Regular' /\ (odd => odd')
    <3>1. e.cid \in Numeric
      BY <2>2, <2>3 DEF ImportCounter, At, Valid, ValidCounter
    <3>2. ~odd => Importable(CreateCounter(s, e.cid, e.label, e.token))
      BY <2>1, <3>1, CounterImportable
    <3>3. ASSUME NEW c \in DOMAIN s.counters, NEW token
          PROVE ~odd => Importable([s EXCEPT !.counters[c].label = e.label, !.counters[c].token = token])
      <4> DEFINE z == [s EXCEPT !.counters[c].label = e.label, !.counters[c].token = token]
      <4>1. s.counters[c] \in CounterRow
        BY <2>1 DEF IsStore, IsTable
      <4>2. /\ z.triggers = s.triggers /\ z.reports = s.reports /\ DOMAIN z.counters = DOMAIN s.counters
            /\ \A d \in DOMAIN s.counters : z.counters[d].cid = s.counters[d].cid
        BY <2>1, <4>1 DEF IsStore, CounterRow
      <4> HIDE DEF z
      <4> QED BY <2>1, <4>2, RestImportable DEF z
    <3>4. ASSUME NEW c \in DOMAIN s.counters,
                 Applied([s EXCEPT !.counters[c].label = e.label,
                                   !.counters[c].token = IF e.token = NoToken THEN @ ELSE e.token])
          PROVE Regular' /\ (odd => odd')
      <4> DEFINE token == IF e.token = NoToken THEN s.counters[c].token ELSE e.token
      <4>1. s.counters[c] \in CounterRow
        BY <2>1 DEF IsStore, IsTable
      <4>2. Applied([s EXCEPT !.counters[c].label = e.label, !.counters[c].token = token])
        BY <2>1, <3>4, <4>1 DEF IsStore, CounterRow
      <4> HIDE DEF token
      <4> QED BY <1>i, <2>1, <3>3, <4>2
    <3> QED BY <1>i, <2>1, <2>3, <3>2, <3>4 DEF ImportCounter
  <2>4. ASSUME ImportTrigger PROVE Regular' /\ (odd => odd')
    <3>1. ASSUME NEW c PROVE ValidTrigger(TriggerOf(c, e))
      BY <2>2, <2>4 DEF ImportTrigger, At, Valid, ValidTrigger, TriggerOf, Weeks
    <3>2. PICK z : Applied(z) /\ \E c : \/ z = CreateTrigger(s, TriggerOf(c, e))
                                        \/ \E t \in DOMAIN s.triggers : z = [s EXCEPT !.triggers[t] = TriggerOf(c, e)]
      BY <2>4 DEF ImportTrigger, FirstNamed, TriggersOf
    <3>3. ~odd => Importable(z)
      BY <2>1, <3>1, <3>2, TriggerImportable
    <3> QED BY <1>i, <2>1, <3>2, <3>3
  <2>5. ASSUME ImportReport PROVE Regular' /\ (odd => odd')
    <3>1. ASSUME NEW c PROVE ValidReport(ReportOf(c, e))
      BY <2>2, <2>5 DEF ImportReport, At, Valid, ValidReport, ReportOf
    <3>2. PICK z : Applied(z) /\ \E c : \/ z = CreateReport(s, ReportOf(c, e))
                                        \/ \E r \in DOMAIN s.reports : z = [s EXCEPT !.reports[r] = ReportOf(c, e)]
      BY <2>5 DEF ImportReport, FirstNamed, ReportsOf
    <3>3. ~odd => Importable(z)
      BY <2>1, <3>1, <3>2, ReportImportable
    <3> QED BY <1>i, <2>1, <3>2, <3>3
  <2>6. ASSUME ImportAction PROVE Regular' /\ (odd => odd')
    <3>1. ~odd => Importable(CreateAlertAction(s, [dest |-> e.dest, label |-> e.label]))
      BY <2>1, RestImportable DEF CreateAlertAction, IsStore
    <3>2. ASSUME NEW a PROVE ~odd => Importable([s EXCEPT !.actions[a].label = e.label])
      BY <2>1, RestImportable DEF IsStore
    <3> QED BY <1>i, <2>1, <2>6, <3>1, <3>2 DEF ImportAction
  <2>7. ASSUME ImportSchedule PROVE Regular' /\ (odd => odd')
    <3>1. ~odd => Importable(SetSetting(s, e.at))
      BY <2>1, RestImportable DEF SetSetting, IsStore
    <3> QED BY <1>i, <2>1, <2>7, <3>1 DEF ImportSchedule
  <2> QED BY <1>6, <2>3, <2>4, <2>5, <2>6, <2>7 DEF Importing, ImportStep
<1>7. ASSUME ImportRefused PROVE Regular' /\ (odd => odd')
  BY <1>7, <1>u DEF ImportRefused, ImportFails, history
<1>8. ASSUME Imported PROVE Regular' /\ (odd => odd')
  BY <1>8 DEF Imported, ImportCommit, Regular
<1>9. ASSUME NEW u \in Users, ScheduleAgain(u) PROVE Regular' /\ (odd => odd')
  <2>1. ~odd => Importable(SetSetting(db, again[u]))
    BY <1>s, RestImportable DEF SetSetting, IsStore, Regular
  <2> QED BY <1>9, <2>1 DEF ScheduleAgain, Regular
<1>10. ASSUME Posts PROVE Regular' /\ (odd => odd')
  <2>1. ASSUME NEW in \in CounterInputs, PostCounter(in) PROVE Regular' /\ (odd => odd')
    <3>1. odd' = (odd \/ in.cid \notin Numeric) /\ Write(CreateCounter(db, in.cid, in.label, in.token))
      BY <2>1 DEF PostCounter
    <3>2. odd \in BOOLEAN
      BY DEF IInv, Control
    <3>3. ~odd' => Importable(CreateCounter(db, in.cid, in.label, in.token))
      BY <1>s, <3>1, CounterImportable DEF Regular
    <3> QED BY <1>w, <3>1, <3>2, <3>3
  <2>2. ASSUME NEW c, NEW in \in RuleInputs, PostTrigger(c, in) PROVE Regular' /\ (odd => odd')
    <3> DEFINE row == Rule(c, in, IF in.weeks <= 0 THEN 4 ELSE in.weeks)
    <3>1. /\ odd' = (odd \/ ~(in.name # Blank /\ in.weeks <= 12 /\ in.floor >= 0))
          /\ Write(CreateTrigger(db, row))
      BY <2>2 DEF PostTrigger
    <3>2. odd \in BOOLEAN /\ in.weeks \in Int
      BY AdminAssumption DEF IInv, Control, RuleInput
    <3>3. ~odd' => ValidTrigger(row)
      <4>1. row.name = in.name /\ row.floor = in.floor
            /\ row.weeks = IF in.weeks <= 0 THEN 4 ELSE in.weeks
        BY DEF Rule
      <4> HIDE DEF row
      <4>2. ~odd' => in.name # Blank /\ in.weeks <= 12 /\ in.floor >= 0
        BY <3>1
      <4> QED BY <3>2, <4>1, <4>2 DEF ValidTrigger
    <3> HIDE DEF row
    <3>4. ~odd' => Importable(CreateTrigger(db, row))
      BY <1>s, <3>1, <3>3, TriggerImportable DEF Regular
    <3> QED BY <1>w, <3>1, <3>2, <3>4
  <2> QED BY <1>10, <2>1, <2>2 DEF Posts
<1>11. ASSUME Jobs PROVE Regular' /\ (odd => odd')
  BY <1>11, <1>u DEF Jobs, Tick, RunNow, Start, transferVars, history
<1>12. ASSUME Engine PROVE Regular' /\ (odd => odd')
  <2> DEFINE c == job.counter
             t == job.trigger
  <2>1. ~odd => Importable(CreateReportSnapshot(db, c))
    BY <1>s, RestImportable DEF CreateReportSnapshot, IsStore, Regular
  <2>2. ~odd => Importable(SetLastHourChecked(RecordTriggerFire(CreateAlert(db, c, t), t), c))
    <3> DEFINE y == RecordTriggerFire(CreateAlert(db, c, t), t)
               z == SetLastHourChecked(y, c)
    <3>1. /\ DOMAIN y = DOMAIN db
          /\ y.counters = db.counters /\ y.triggers = db.triggers /\ y.reports = db.reports
      BY <1>s DEF RecordTriggerFire, CreateAlert, IsStore
    <3> HIDE DEF y
    <3>2. CASE c \in DOMAIN db.counters
      <4>1. db.counters[c] \in CounterRow
        BY <1>s, <3>2 DEF IsStore, IsTable
      <4>2. /\ z.triggers = db.triggers /\ z.reports = db.reports /\ DOMAIN z.counters = DOMAIN db.counters
            /\ \A d \in DOMAIN db.counters : z.counters[d].cid = db.counters[d].cid
        BY <1>s, <3>1, <3>2, <4>1 DEF SetLastHourChecked, IsStore, CounterRow
      <4> HIDE DEF z
      <4> QED BY <4>2, RestImportable DEF Regular, z, y
    <3>3. CASE c \notin DOMAIN db.counters
      <4>1. z = y
        BY <3>1, <3>3 DEF SetLastHourChecked
      <4> HIDE DEF z
      <4> QED BY <3>1, <4>1, RestImportable DEF Regular, z, y
    <3> QED BY <3>2, <3>3
  <2> QED BY <1>12, <2>1, <2>2 DEF Engine, Regular, history
<1>13. ASSUME Crash PROVE Regular' /\ (odd => odd')
  BY <1>13, <1>u DEF Crash, history
<1>14. CASE UNCHANGED vars
  BY <1>14, <1>u DEF vars
<1> QED BY <1>1, <1>2, <1>3, <1>4, <1>5, <1>6, <1>7, <1>8, <1>9, <1>10, <1>11, <1>12, <1>13, <1>14 DEF Next

-----------------------------------------------------------------------------
(* What an export has written.                                              *)

OfKind(f, kinds) == f \in Seq(Entry) /\ \A i \in DOMAIN f : f[i].kind \in kinds
Once(f) == \A i, j \in DOMAIN f : f[i].cid = f[j].cid => i = j
Listed(f, cid) == \E i \in DOMAIN f : f[i].cid = cid
AllListed(f, counters) == \A i \in DOMAIN f : Listed(counters, f[i].cid)
AllValid(f) == \A i \in DOMAIN f : Valid(f[i])

\* Every counter that was read is written, once; a rule or a report is written
\* for one of them.
Exported ==
    export # NoExport =>
        /\ DOMAIN export.rows \subseteq Ids /\ export.rows \in [DOMAIN export.rows -> CounterRow]
        /\ export.left \subseteq DOMAIN export.rows
        /\ OfKind(export.counters, {"counter"}) /\ Once(export.counters)
        /\ \A d \in DOMAIN export.rows : Listed(export.counters, export.rows[d].cid)
        /\ OfKind(export.triggers, {"trigger"}) /\ AllListed(export.triggers, export.counters)
        /\ OfKind(export.reports, {"report"}) /\ AllListed(export.reports, export.counters)
        /\ OfKind(export.rest, {"action", "schedule"})
        /\ ~odd => AllValid(export.counters) /\ AllValid(export.triggers) /\ AllValid(export.reports)

\* One list after another.
LEMMA Joined ==
    ASSUME NEW f \in Seq(Entry), NEW g \in Seq(Entry)
    PROVE /\ f \o g \in Seq(Entry)
          /\ DOMAIN (f \o g) = 1..(Len(f) + Len(g))
          /\ \A i \in DOMAIN f : i \in DOMAIN (f \o g) /\ (f \o g)[i] = f[i]
          /\ \A i \in DOMAIN (f \o g) :
                \/ i \in DOMAIN f
                \/ i - Len(f) \in DOMAIN g /\ i > Len(f) /\ (f \o g)[i] = g[i - Len(f)]
OBVIOUS

LEMMA JoinedFrom ==
    ASSUME NEW f \in Seq(Entry), NEW g \in Seq(Entry)
    PROVE \A i \in DOMAIN (f \o g) :
              (\E j \in DOMAIN f : (f \o g)[i] = f[j]) \/ \E j \in DOMAIN g : (f \o g)[i] = g[j]
<1> SUFFICES ASSUME NEW i \in DOMAIN (f \o g)
             PROVE (\E j \in DOMAIN f : (f \o g)[i] = f[j]) \/ \E j \in DOMAIN g : (f \o g)[i] = g[j]
  OBVIOUS
<1>1. i \in DOMAIN f => (f \o g)[i] = f[i]
  BY Joined
<1>2. i \notin DOMAIN f => i - Len(f) \in DOMAIN g /\ (f \o g)[i] = g[i - Len(f)]
  BY Joined
<1> QED BY <1>1, <1>2

LEMMA JoinedParts ==
    ASSUME NEW f, NEW g, NEW kinds, NEW counters, OfKind(f, kinds), OfKind(g, kinds)
    PROVE /\ OfKind(f \o g, kinds)
          /\ AllListed(f, counters) /\ AllListed(g, counters) => AllListed(f \o g, counters)
          /\ AllValid(f) /\ AllValid(g) => AllValid(f \o g)
<1>1. f \in Seq(Entry) /\ g \in Seq(Entry)
  BY DEF OfKind
<1>2. \A i \in DOMAIN (f \o g) :
         \/ i \in DOMAIN f /\ (f \o g)[i] = f[i]
         \/ i - Len(f) \in DOMAIN g /\ (f \o g)[i] = g[i - Len(f)]
  BY <1>1, Joined
<1> QED BY <1>1, <1>2, Joined DEF OfKind, AllListed, AllValid

\* Ids of rows, in order.
LEMMA RowsInOrder ==
    ASSUME NEW S, NEW n \in Nat, S \subseteq 1..n
    PROVE LET ids == InOrder(S) IN
          /\ DOMAIN ids = 1..Cardinality(S) /\ Cardinality(S) \in Nat
          /\ \A i \in DOMAIN ids : ids[i] \in S
          /\ \A i, j \in DOMAIN ids : ids[i] = ids[j] => i = j
          /\ \A x \in S : \E i \in DOMAIN ids : ids[i] = x
<1>1. IsFiniteSet(1..n)
  <2>1. 1 \in Int /\ n \in Int
    OBVIOUS
  <2> QED BY <2>1, FS_Interval, Zenon
<1>2. IsFiniteSet(S) /\ S \subseteq Nat
  <2>1. S \in SUBSET (1..n) /\ S \subseteq Nat
    OBVIOUS
  <2> QED BY <1>1, <2>1, FS_Subset, Zenon
<1> DEFINE ids == InOrder(S)
           k == Cardinality(S)
<1>3. /\ k \in Nat /\ ids \in [1..k -> S]
      /\ \A i, j \in 1..k : ids[i] = ids[j] => i = j
      /\ \A x \in S : \E i \in 1..k : ids[i] = x
  BY <1>2, InOrderEnumerates, Zenon
<1> HIDE DEF ids, k
<1>4. DOMAIN ids = 1..k
  BY <1>3
<1> QED BY <1>3, <1>4 DEF ids, k

LEMMA TriggersWritten ==
    ASSUME NEW s, IsStore(s), NEW cid \in Cids, NEW c,
           NEW f, f = [i \in DOMAIN InOrder(TriggersOf(s, c)) |->
                          TriggerEntry(cid, s.triggers[InOrder(TriggersOf(s, c))[i]])]
    PROVE /\ OfKind(f, {"trigger"}) /\ \A i \in DOMAIN f : f[i].cid = cid
          /\ Importable(s) => AllValid(f)
<1> DEFINE ids == InOrder(TriggersOf(s, c))
<1>1. TriggersOf(s, c) \subseteq 1..s.lastTrigger /\ TriggersOf(s, c) \subseteq DOMAIN s.triggers
      /\ s.lastTrigger \in Nat
  BY DEF TriggersOf, IsStore, IsTable
<1>2. PICK k \in Nat : DOMAIN ids = 1..k
  BY <1>1, RowsInOrder
<1>3. \A i \in DOMAIN ids : ids[i] \in DOMAIN s.triggers
  BY <1>1, RowsInOrder
<1> HIDE DEF ids
<1>4. \A i \in DOMAIN ids : s.triggers[ids[i]] \in TriggerRow
  BY <1>3 DEF IsStore, IsTable
<1>5. DOMAIN f = 1..k /\ \A i \in DOMAIN f : f[i] = TriggerEntry(cid, s.triggers[ids[i]])
  BY <1>2 DEF ids
<1>6. ASSUME NEW row \in TriggerRow
      PROVE /\ TriggerEntry(cid, row) \in Entry
            /\ TriggerEntry(cid, row).kind = "trigger" /\ TriggerEntry(cid, row).cid = cid
            /\ ValidTrigger(row) => Valid(TriggerEntry(cid, row))
  BY DEF TriggerEntry, TriggerRow, Entry, Valid, ValidTrigger
<1>7. \A i \in DOMAIN f : f[i] \in Entry /\ f[i].kind = "trigger" /\ f[i].cid = cid
  BY <1>2, <1>4, <1>5, <1>6
<1>8. f = [i \in 1..k |-> f[i]]
  BY <1>5
<1>9. f \in Seq(Entry)
  BY <1>5, <1>7, <1>8
<1>10. Importable(s) => AllValid(f)
  BY <1>2, <1>3, <1>4, <1>5, <1>6 DEF Importable, AllValid
<1> QED BY <1>7, <1>9, <1>10 DEF OfKind

LEMMA ReportsWritten ==
    ASSUME NEW s, IsStore(s), NEW cid \in Cids, NEW c,
           NEW f, f = [i \in DOMAIN InOrder(ReportsOf(s, c)) |->
                          ReportEntry(cid, s.reports[InOrder(ReportsOf(s, c))[i]])]
    PROVE /\ OfKind(f, {"report"}) /\ \A i \in DOMAIN f : f[i].cid = cid
          /\ Importable(s) => AllValid(f)
<1> DEFINE ids == InOrder(ReportsOf(s, c))
<1>1. ReportsOf(s, c) \subseteq 1..s.lastReport /\ ReportsOf(s, c) \subseteq DOMAIN s.reports
      /\ s.lastReport \in Nat
  BY DEF ReportsOf, IsStore, IsTable
<1>2. PICK k \in Nat : DOMAIN ids = 1..k
  BY <1>1, RowsInOrder
<1>3. \A i \in DOMAIN ids : ids[i] \in DOMAIN s.reports
  BY <1>1, RowsInOrder
<1> HIDE DEF ids
<1>4. \A i \in DOMAIN ids : s.reports[ids[i]] \in ReportRow
  BY <1>3 DEF IsStore, IsTable
<1>5. DOMAIN f = 1..k /\ \A i \in DOMAIN f : f[i] = ReportEntry(cid, s.reports[ids[i]])
  BY <1>2 DEF ids
<1>6. ASSUME NEW row \in ReportRow
      PROVE /\ ReportEntry(cid, row) \in Entry
            /\ ReportEntry(cid, row).kind = "report" /\ ReportEntry(cid, row).cid = cid
            /\ ValidReport(row) => Valid(ReportEntry(cid, row))
  BY DEF ReportEntry, ReportRow, Entry, Valid, ValidReport
<1>7. \A i \in DOMAIN f : f[i] \in Entry /\ f[i].kind = "report" /\ f[i].cid = cid
  BY <1>2, <1>4, <1>5, <1>6
<1>8. f = [i \in 1..k |-> f[i]]
  BY <1>5
<1>9. f \in Seq(Entry)
  BY <1>5, <1>7, <1>8
<1>10. Importable(s) => AllValid(f)
  BY <1>2, <1>3, <1>4, <1>5, <1>6 DEF Importable, AllValid
<1> QED BY <1>7, <1>9, <1>10 DEF OfKind

LEMMA CountersWritten ==
    ASSUME NEW rows, NEW n \in Nat, DOMAIN rows \subseteq 1..n, rows \in [DOMAIN rows -> CounterRow],
           \A c, d \in DOMAIN rows : rows[c].cid = rows[d].cid => c = d,
           NEW safe \in BOOLEAN,
           NEW f, f = [i \in DOMAIN InOrder(DOMAIN rows) |->
                          CounterEntry(rows[InOrder(DOMAIN rows)[i]], safe)]
    PROVE /\ OfKind(f, {"counter"}) /\ Once(f)
          /\ \A d \in DOMAIN rows : Listed(f, rows[d].cid)
          /\ (\A d \in DOMAIN rows : ValidCounter(rows[d])) => AllValid(f)
<1> DEFINE ids == InOrder(DOMAIN rows)
<1>2. PICK k \in Nat : DOMAIN ids = 1..k
  BY RowsInOrder
<1>3. /\ \A i \in DOMAIN ids : ids[i] \in DOMAIN rows
      /\ \A i, j \in DOMAIN ids : ids[i] = ids[j] => i = j
      /\ \A d \in DOMAIN rows : \E i \in DOMAIN ids : ids[i] = d
  BY RowsInOrder
<1> HIDE DEF ids
<1>4. \A i \in DOMAIN ids : rows[ids[i]] \in CounterRow
  BY <1>3
<1>5. DOMAIN f = 1..k /\ \A i \in DOMAIN f : f[i] = CounterEntry(rows[ids[i]], safe)
  BY <1>2 DEF ids
<1>6. ASSUME NEW row \in CounterRow
      PROVE /\ CounterEntry(row, safe) \in Entry
            /\ CounterEntry(row, safe).kind = "counter" /\ CounterEntry(row, safe).cid = row.cid
            /\ ValidCounter(row) => Valid(CounterEntry(row, safe))
  BY DEF CounterEntry, CounterRow, Entry, Valid, ValidCounter
<1>7. \A i \in DOMAIN f : f[i] \in Entry /\ f[i].kind = "counter" /\ f[i].cid = rows[ids[i]].cid
  BY <1>2, <1>4, <1>5, <1>6
<1>8. f = [i \in 1..k |-> f[i]]
  BY <1>5
<1>9. f \in Seq(Entry)
  BY <1>5, <1>7, <1>8
<1>10. Once(f)
  BY <1>2, <1>3, <1>5, <1>7 DEF Once
<1>11. \A d \in DOMAIN rows : Listed(f, rows[d].cid)
  BY <1>2, <1>3, <1>5, <1>7 DEF Listed
<1>12. (\A d \in DOMAIN rows : ValidCounter(rows[d])) => AllValid(f)
  BY <1>2, <1>3, <1>4, <1>5, <1>6 DEF AllValid
<1> QED BY <1>7, <1>9, <1>10, <1>11, <1>12 DEF OfKind

LEMMA RestWritten ==
    ASSUME NEW s, IsStore(s),
           NEW f, f = [i \in DOMAIN InOrder(DOMAIN s.actions) |->
                          ActionEntry(s.actions[InOrder(DOMAIN s.actions)[i]])]
                      \o IF s.schedule = Unset THEN << >> ELSE << ScheduleEntry(s.schedule) >>
    PROVE OfKind(f, {"action", "schedule"})
<1> DEFINE ids == InOrder(DOMAIN s.actions)
           g == [i \in DOMAIN ids |-> ActionEntry(s.actions[ids[i]])]
           h == IF s.schedule = Unset THEN << >> ELSE << ScheduleEntry(s.schedule) >>
<1>1. DOMAIN s.actions \subseteq 1..s.lastAction /\ s.lastAction \in Nat
  BY DEF IsStore, IsTable
<1>2. PICK k \in Nat : DOMAIN ids = 1..k
  BY <1>1, RowsInOrder
<1>3. \A i \in DOMAIN ids : ids[i] \in DOMAIN s.actions
  BY <1>1, RowsInOrder
<1> HIDE DEF ids
<1>4. \A i \in DOMAIN ids : s.actions[ids[i]] \in ActionRow
  BY <1>3 DEF IsStore, IsTable
<1>5. ASSUME NEW row \in ActionRow
      PROVE ActionEntry(row) \in Entry /\ ActionEntry(row).kind = "action"
  BY DEF ActionEntry, ActionRow, Entry
<1>6. OfKind(g, {"action", "schedule"})
  <2>1. \A i \in 1..k : g[i] \in Entry /\ g[i].kind = "action"
    BY <1>2, <1>4, <1>5
  <2>2. DOMAIN g = 1..k /\ g = [i \in 1..k |-> g[i]]
    BY <1>2
  <2> HIDE DEF g
  <2>3. g \in Seq(Entry)
    BY <2>1, <2>2
  <2> QED BY <2>1, <2>2, <2>3 DEF OfKind
<1>7. OfKind(h, {"action", "schedule"})
  <2>1. CASE s.schedule = Unset
    BY <2>1 DEF OfKind
  <2>2. CASE s.schedule # Unset
    <3>1. s.schedule \in Schedules
      BY <2>2 DEF IsStore
    <3>2. ScheduleEntry(s.schedule) \in Entry /\ ScheduleEntry(s.schedule).kind = "schedule"
      BY <3>1 DEF ScheduleEntry, Entry
    <3> QED BY <2>2, <3>2 DEF OfKind
  <2> QED BY <2>1, <2>2
<1> HIDE DEF g, h
<1> QED BY <1>6, <1>7, JoinedParts DEF g, h, ids

-----------------------------------------------------------------------------
(* The steps of an export.                                                  *)

LEMMA ExportBegins ==
    ASSUME IInv, Regular, NEW u, NEW c \in Nat, NEW safe \in BOOLEAN, ExportStart(u, c, safe), odd' = odd
    PROVE Exported'
<1> DEFINE rows == IF c = 0 THEN db.counters ELSE [d \in {c} |-> db.counters[c]]
           ids == InOrder(DOMAIN rows)
           written == [i \in DOMAIN ids |-> CounterEntry(rows[ids[i]], safe)]
           dests == InOrder(DOMAIN db.actions)
           others == [i \in DOMAIN dests |-> ActionEntry(db.actions[dests[i]])]
                        \o IF db.schedule = Unset THEN << >> ELSE << ScheduleEntry(db.schedule) >>
<1>1. /\ export'.rows = rows /\ export'.left = DOMAIN rows
      /\ export'.counters = written /\ export'.triggers = << >> /\ export'.reports = << >>
      /\ export'.rest = IF c # 0 THEN << >> ELSE others
      /\ c # 0 => c \in DOMAIN db.counters
  BY DEF ExportStart
<1>2. IsStore(db) /\ UniqueCids(db) /\ (~odd => Importable(db))
  BY DEF IInv, Sound, Regular
<1>3. db.lastCounter \in Nat /\ DOMAIN db.counters \subseteq 1..db.lastCounter
      /\ db.counters \in [DOMAIN db.counters -> CounterRow]
  BY <1>2 DEF IsStore, IsTable
<1>4. /\ DOMAIN rows \subseteq DOMAIN db.counters
      /\ \A d \in DOMAIN rows : rows[d] = db.counters[d]
      /\ rows \in [DOMAIN rows -> CounterRow]
  BY <1>1, <1>3
<1>5. DOMAIN rows \subseteq 1..db.lastCounter /\ DOMAIN rows \subseteq Ids
  BY <1>3, <1>4 DEF Ids
<1>6. \A d, e \in DOMAIN rows : rows[d].cid = rows[e].cid => d = e
  BY <1>2, <1>4 DEF UniqueCids
<1>7. ~odd => \A d \in DOMAIN rows : ValidCounter(rows[d])
  BY <1>2, <1>4 DEF Importable
<1>8. OfKind(others, {"action", "schedule"})
  BY <1>2, RestWritten
<1> HIDE DEF rows, others
<1>9. /\ OfKind(written, {"counter"}) /\ Once(written)
      /\ \A d \in DOMAIN rows : Listed(written, rows[d].cid)
      /\ ~odd => AllValid(written)
  BY <1>3, <1>4, <1>5, <1>6, <1>7, CountersWritten
<1> HIDE DEF written
<1>10. /\ \A kinds : OfKind(<< >>, kinds)
       /\ AllListed(<< >>, written) /\ AllValid(<< >>)
  BY DEF OfKind, AllListed, AllValid
<1>11. OfKind(export'.rest, {"action", "schedule"})
  BY <1>1, <1>8, <1>10
<1> QED BY <1>1, <1>4, <1>5, <1>9, <1>10, <1>11 DEF Exported

LEMMA ExportGoesOn ==
    ASSUME IInv, Regular, Exported, ExportTriggers \/ ExportReports, odd' = odd
    PROVE Exported'
<1> DEFINE c == Least(export.left)
           cid == export.rows[c].cid
<1>1. export # NoExport /\ export.left # {} /\ db' = db
  BY DEF ExportTriggers, ExportReports
<1>2. DOMAIN export = {"by", "rows", "left", "part", "counters", "triggers", "reports", "rest"}
  BY <1>1 DEF IInv, Control
<1>3. c \in DOMAIN export.rows
  <2>1. export.left \subseteq Nat
    BY <1>1 DEF Exported, Ids
  <2> QED BY <1>1, <2>1, LeastId DEF Exported
<1>4. cid \in Cids /\ Listed(export.counters, cid)
  BY <1>1, <1>3 DEF Exported, CounterRow
<1>5. IsStore(db) /\ (~odd => Importable(db))
  BY DEF IInv, Sound, Regular
<1>6. ASSUME ExportTriggers PROVE Exported'
  <2> DEFINE ids == InOrder(TriggersOf(db, c))
             more == [i \in DOMAIN ids |-> TriggerEntry(cid, db.triggers[ids[i]])]
  <2>1. export' = NoExport \/ export' = [export EXCEPT !.part = "reports", !.triggers = @ \o more]
    BY <1>6 DEF ExportTriggers
  <2>2. /\ OfKind(more, {"trigger"}) /\ \A i \in DOMAIN more : more[i].cid = cid
        /\ ~odd => AllValid(more)
    BY <1>4, <1>5, TriggersWritten
  <2> HIDE DEF more, cid
  <2>3. AllListed(more, export.counters)
    BY <1>4, <2>2 DEF AllListed
  <2>4. /\ OfKind(export.triggers \o more, {"trigger"})
        /\ AllListed(export.triggers \o more, export.counters)
        /\ ~odd => AllValid(export.triggers \o more)
    BY <1>1, <2>2, <2>3, JoinedParts DEF Exported
  <2>5. CASE export' = [export EXCEPT !.part = "reports", !.triggers = @ \o more]
    <3>1. /\ export'.rows = export.rows /\ export'.left = export.left
          /\ export'.counters = export.counters /\ export'.triggers = export.triggers \o more
          /\ export'.reports = export.reports /\ export'.rest = export.rest
      BY <1>2, <2>5
    <3> QED BY <1>1, <2>4, <3>1 DEF Exported
  <2> QED BY <2>1, <2>5 DEF Exported
<1>7. ASSUME ExportReports PROVE Exported'
  <2> DEFINE ids == InOrder(ReportsOf(db, c))
             more == [i \in DOMAIN ids |-> ReportEntry(cid, db.reports[ids[i]])]
  <2>1. export' = [export EXCEPT !.part = "triggers", !.left = @ \ {c}, !.reports = @ \o more]
    BY <1>7 DEF ExportReports
  <2>2. /\ OfKind(more, {"report"}) /\ \A i \in DOMAIN more : more[i].cid = cid
        /\ ~odd => AllValid(more)
    BY <1>4, <1>5, ReportsWritten
  <2> HIDE DEF more, cid, c
  <2>3. AllListed(more, export.counters)
    BY <1>4, <2>2 DEF AllListed
  <2>4. /\ OfKind(export.reports \o more, {"report"})
        /\ AllListed(export.reports \o more, export.counters)
        /\ ~odd => AllValid(export.reports \o more)
    BY <1>1, <2>2, <2>3, JoinedParts DEF Exported
  <2>5. /\ export'.rows = export.rows /\ export'.left = export.left \ {c}
        /\ export'.counters = export.counters /\ export'.triggers = export.triggers
        /\ export'.reports = export.reports \o more /\ export'.rest = export.rest
    BY <1>2, <2>1
  <2> QED BY <1>1, <2>4, <2>5 DEF Exported
<1> QED BY <1>6, <1>7

\* The parts of a file, one after another, load.
LEMMA FileLoads ==
    ASSUME IInv, Exported, ExportDone, odd' = odd
    PROVE ExportLoads'
<1> DEFINE cs == export.counters
           ts == export.triggers
           rs == export.reports
           rest == export.rest
           f == file'
<1>1. f = cs \o ts \o rs \o rest
  BY DEF ExportDone
<1>2. /\ OfKind(cs, {"counter"}) /\ Once(cs)
      /\ OfKind(ts, {"trigger"}) /\ AllListed(ts, cs)
      /\ OfKind(rs, {"report"}) /\ AllListed(rs, cs)
      /\ OfKind(rest, {"action", "schedule"})
      /\ ~odd => AllValid(cs) /\ AllValid(ts) /\ AllValid(rs)
  BY DEF ExportDone, Exported
<1> HIDE DEF cs, ts, rs, rest, f
<1>3. cs \in Seq(Entry) /\ ts \in Seq(Entry) /\ rs \in Seq(Entry) /\ rest \in Seq(Entry)
  BY <1>2 DEF OfKind
<1> DEFINE g == ts \o rs \o rest
<1>4. g \in Seq(Entry) /\ f = cs \o g
  BY <1>1, <1>3
<1>5. \A i \in DOMAIN g :
         \/ \E j \in DOMAIN ts : g[i] = ts[j]
         \/ \E j \in DOMAIN rs : g[i] = rs[j]
         \/ \E j \in DOMAIN rest : g[i] = rest[j]
  <2>1. ts \o rs \in Seq(Entry) /\ g = (ts \o rs) \o rest
    BY <1>3
  <2> HIDE DEF g
  <2>2. \A i \in DOMAIN (ts \o rs) :
            (\E j \in DOMAIN ts : (ts \o rs)[i] = ts[j]) \/ \E j \in DOMAIN rs : (ts \o rs)[i] = rs[j]
    BY <1>3, JoinedFrom
  <2>3. \A i \in DOMAIN g :
            (\E j \in DOMAIN (ts \o rs) : g[i] = (ts \o rs)[j]) \/ \E j \in DOMAIN rest : g[i] = rest[j]
    BY <1>3, <2>1, JoinedFrom
  <2> QED BY <2>2, <2>3
<1> HIDE DEF g
<1>6. \A i \in DOMAIN g :
         /\ g[i].kind # "counter"
         /\ g[i].kind \in {"trigger", "report"} => Listed(cs, g[i].cid)
         /\ ~odd => Valid(g[i])
  <2>1. \A i \in DOMAIN rest : Valid(rest[i]) /\ rest[i].kind \in {"action", "schedule"}
    BY <1>2, <1>3 DEF OfKind, Valid
  <2> QED BY <1>2, <1>5, <2>1 DEF OfKind, AllListed, AllValid
<1>7. \A i \in DOMAIN f :
         \/ i \in DOMAIN cs /\ f[i] = cs[i]
         \/ i > Len(cs) /\ \E j \in DOMAIN g : f[i] = g[j]
  BY <1>3, <1>4, Joined
<1>8. DOMAIN cs = 1..Len(cs) /\ Len(cs) \in Nat /\ DOMAIN cs \subseteq DOMAIN f
      /\ \A i \in DOMAIN cs : f[i] = cs[i] /\ cs[i].kind = "counter"
      /\ \A j \in DOMAIN f : j \in Nat
  BY <1>2, <1>3, <1>4, Joined DEF OfKind
<1>9. ASSUME NEW i \in DOMAIN f, f[i].kind \in {"trigger", "report"}
      PROVE \E j \in 1..i : f[j].kind = "counter" /\ f[j].cid = f[i].cid
  <2>1. i > Len(cs) /\ Listed(cs, f[i].cid)
    BY <1>6, <1>7, <1>8, <1>9
  <2>2. PICK j \in DOMAIN cs : cs[j].cid = f[i].cid
    BY <2>1 DEF Listed
  <2>3. j \in 1..i
    BY <1>8, <2>1
  <2> QED BY <1>8, <2>2, <2>3
<1>10. ASSUME NEW i \in DOMAIN f, NEW j \in DOMAIN f, f[i].kind = "counter", f[j].kind = "counter",
              f[i].cid = f[j].cid
       PROVE i = j
  <2>1. i \in DOMAIN cs /\ j \in DOMAIN cs
    BY <1>6, <1>7, <1>10
  <2> QED BY <1>2, <1>8, <1>10, <2>1 DEF Once
<1>11. ~odd => \A i \in DOMAIN f : Valid(f[i])
  BY <1>2, <1>6, <1>7 DEF AllValid
<1> QED BY <1>9, <1>10, <1>11 DEF ExportLoads, f

-----------------------------------------------------------------------------
(* What Export writes, Import reads, though rows changed while it was        *)
(* written, unless the API had stored what the bot would refuse              *)
(* (commands.go:511), for any stores, users and inputs.                      *)
THEOREM ExportsLoad == Spec => []ExportLoads
<1> DEFINE EInv == Regular /\ Exported /\ ExportLoads
<1>1. Init => EInv
  <2> SUFFICES ASSUME Init PROVE EInv
    OBVIOUS
  <2>1. Regular /\ Exported
    BY DEF Init, Regular, Exported
  <2>2. DOMAIN file = {}
    BY DEF Init
  <2> QED BY <2>1, <2>2 DEF ExportLoads
<1>2. IInv /\ EInv /\ [Next]_vars => EInv'
  <2> SUFFICES ASSUME IInv, EInv, [Next]_vars PROVE EInv'
    OBVIOUS
  <2>1. Regular' /\ (odd => odd')
    BY RegularStep
  <2>2. ASSUME export' \in {export, NoExport} PROVE Exported'
    BY <2>1, <2>2 DEF Exported
  <2>3. ASSUME file' = file PROVE ExportLoads'
    BY <2>1, <2>3 DEF ExportLoads
  <2>4. ASSUME Exporting PROVE Exported' /\ ExportLoads'
    <3>1. odd' = odd
      BY <2>4 DEF Exporting, history
    <3>2. CASE ExportTriggers \/ ExportReports
      <4>1. file' = file
        BY <3>2 DEF ExportTriggers, ExportReports
      <4> QED BY <2>3, <3>1, <3>2, <4>1, ExportGoesOn
    <3>3. CASE ExportDone
      BY <2>2, <3>1, <3>3, FileLoads DEF ExportDone
    <3> QED BY <2>4, <3>2, <3>3 DEF Exporting
  <2>5. ASSUME NEW u \in Users, Transfers(u) PROVE Exported' /\ ExportLoads'
    <3>1. ASSUME NEW args \in ExportArgs, Export(u, args.counter, args.safe) PROVE Exported' /\ ExportLoads'
      <4>1. args.counter \in Nat /\ args.safe \in BOOLEAN
        BY AdminAssumption
      <4>2. ExportStart(u, args.counter, args.safe) /\ odd' = odd
        BY <3>1 DEF Export, history
      <4>3. file' = file
        BY <4>2 DEF ExportStart
      <4> QED BY <2>3, <4>1, <4>2, <4>3, ExportBegins
    <3>2. ASSUME NEW f, NEW replace, Import(u, f, replace) PROVE Exported' /\ ExportLoads'
      BY <2>2, <2>3, <3>2 DEF Import, ImportStart
    <3> QED BY <2>5, <3>1, <3>2 DEF Transfers
  <2>6. ASSUME \/ \E u \in Users : Asks(u) \/ Saves(u) \/ Removes(u) \/ ScheduleAgain(u)
               \/ Posts \/ Jobs \/ Engine
        PROVE export' = export /\ file' = file
    BY <2>6 DEF Asks, AskCounter, AskAction, AskTrigger, AskReport, AskImport, Look, NoWrite,
                Saves, SaveCounter, SaveTrigger, SaveReport, SaveAlertAction, Write,
                Removes, RemoveCounter, RemoveTrigger, RemoveReport, RemoveAction, Reschedule,
                ScheduleAgain, Posts, PostCounter, PostTrigger,
                Jobs, Tick, RunNow, Start, transferVars, Engine
  <2>7. ASSUME Importing PROVE export' = export /\ file' = file
    BY <2>7 DEF Importing, ImportStep, ImportCounter, ImportTrigger, ImportReport, ImportAction,
                ImportSchedule, Applied
  <2>8. ASSUME ImportRefused \/ Imported \/ Crash \/ UNCHANGED vars
        PROVE export' \in {export, NoExport} /\ file' = file
    BY <2>8 DEF ImportRefused, ImportFails, Imported, ImportCommit, Crash, vars
  <2>9. Exported' /\ ExportLoads'
    BY <2>2, <2>3, <2>4, <2>5, <2>6, <2>7, <2>8 DEF Next
  <2> QED BY <2>1, <2>9
<1>3. EInv => ExportLoads
  OBVIOUS
<1> QED BY <1>1, <1>2, <1>3, Invariant, PTL DEF Spec

-----------------------------------------------------------------------------
(* An import in progress.                                                   *)

\* How a step treats the import and the database.
LEMMA TxSteps ==
    ASSUME [Next]_vars
    PROVE \/ tx' = tx /\ (db' = db \/ tx = NoTx)
          \/ \E f : \E u \in Users, replace, flow \in BOOLEAN : ImportStart(u, f, replace, flow)
          \/ Importing
          \/ tx # NoTx /\ tx' = NoTx /\ db' = db
          \/ Imported
<1>1. ASSUME \E u \in Users : Asks(u) \/ Saves(u) \/ Removes(u)
      PROVE tx' = tx /\ (db' = db \/ tx = NoTx)
  BY <1>1 DEF Asks, AskCounter, AskAction, AskTrigger, AskReport, AskImport, Look, NoWrite,
              Saves, SaveCounter, SaveTrigger, SaveReport, SaveAlertAction, Write,
              Removes, RemoveCounter, RemoveTrigger, RemoveReport, RemoveAction, Reschedule
<1>2. ASSUME Exporting \/ Posts \/ Jobs \/ Engine \/ UNCHANGED vars
      PROVE tx' = tx /\ (db' = db \/ tx = NoTx)
  BY <1>2 DEF Exporting, ExportTriggers, ExportReports, ExportDone, Posts, PostCounter, PostTrigger, Write,
              Jobs, Tick, RunNow, Start, transferVars, Engine, vars
<1>3. ASSUME NEW u \in Users, ScheduleAgain(u) PROVE tx' = tx /\ (db' = db \/ tx = NoTx)
  BY <1>3 DEF ScheduleAgain
<1>4. ASSUME NEW u \in Users, Transfers(u)
      PROVE \/ tx' = tx /\ db' = db
            \/ \E f : \E replace, flow \in BOOLEAN : ImportStart(u, f, replace, flow)
  <2>1. ASSUME NEW f, NEW replace \in BOOLEAN, Import(u, f, replace)
        PROVE \E flow \in BOOLEAN : ImportStart(u, f, replace, flow)
    BY <2>1 DEF Import
  <2>2. ASSUME NEW c, NEW safe, Export(u, c, safe) PROVE tx' = tx /\ db' = db
    BY <2>2 DEF Export, ExportStart
  <2> QED BY <1>4, <2>1, <2>2 DEF Transfers
<1>5. ASSUME ImportRefused PROVE tx # NoTx /\ tx' = NoTx /\ db' = db
  BY <1>5 DEF ImportRefused, ImportFails
<1>6. ASSUME Crash PROVE tx' = NoTx /\ db' = db
  BY <1>6 DEF Crash
<1> QED BY <1>1, <1>2, <1>3, <1>4, <1>5, <1>6 DEF Next

\* What a statement makes of an import's record.
LEMMA AppliedFields ==
    ASSUME IInv, tx # NoTx, NEW z, Applied(z)
    PROVE /\ tx'.store = z /\ tx'.at = tx.at + 1 /\ tx.at \in Nat /\ tx.at >= 1
          /\ tx'.file = tx.file /\ tx'.replace = tx.replace /\ db' = db
BY DEF IInv, Control, Applied, Ids

\* An entry of a file and the row that is made of it.
LEMMA EntryOfRow ==
    ASSUME NEW e \in Entry
    PROVE /\ Normal(e).kind = e.kind
          /\ e.kind = "counter" => Normal(e) = e /\
                CounterEntry([cid |-> e.cid, label |-> e.label, token |-> e.token, cursor |-> FALSE], FALSE) = e
          /\ e.kind = "trigger" => \A c : TriggerEntry(e.cid, TriggerOf(c, e)) = Normal(e)
          /\ e.kind = "report" => Normal(e) = e /\ \A c : ReportEntry(e.cid, ReportOf(c, e)) = e
          /\ e.kind = "action" => Normal(e) = e /\ ActionEntry([dest |-> e.dest, label |-> e.label]) = e
          /\ e.kind = "schedule" => Normal(e) = e /\ e.at \in Schedules /\ ScheduleEntry(e.at) = e
<1>1. CASE e \in [kind : {"counter"}, cid : Cids, label : Labels, token : Tokens \union {NoToken}]
  BY <1>1 DEF Normal, CounterEntry
<1>2. CASE e \in [kind : {"trigger"}, cid : Cids, name : Names, weeks : Int, floor : Int, on : BOOLEAN]
  BY <1>2 DEF Normal, TriggerEntry, TriggerOf
<1>3. CASE e \in [kind : {"report"}, cid : Cids, name : Names, period : Periods, on : BOOLEAN]
  BY <1>3 DEF Normal, ReportEntry, ReportOf
<1>4. CASE e \in [kind : {"action"}, dest : Dests, label : Labels]
  BY <1>4 DEF Normal, ActionEntry
<1>5. CASE e \in [kind : {"schedule"}, at : Schedules]
  BY <1>5 DEF Normal, ScheduleEntry
<1> QED BY <1>1, <1>2, <1>3, <1>4, <1>5 DEF Entry

-----------------------------------------------------------------------------
(* A replacing import.                                                      *)

\* The entries that the rows of a table stand for.
CounterEntries(s) == [c \in DOMAIN s.counters |-> CounterEntry(s.counters[c], FALSE)]
TriggerEntries(s) ==
    [t \in DOMAIN s.triggers |-> TriggerEntry(s.counters[s.triggers[t].counter].cid, s.triggers[t])]
ReportEntries(s) ==
    [r \in DOMAIN s.reports |-> ReportEntry(s.counters[s.reports[r].counter].cid, s.reports[r])]
ActionEntries(s) == [a \in DOMAIN s.actions |-> ActionEntry(s.actions[a])]

\* Before its entry k, the rows of a kind are those of the file's entries of that
\* kind, each as often as it is there.
Alike(f, k, e) == {i \in DOMAIN f : i < k /\ f[i] = e}
OneKind(f, k, kind) == {i \in DOMAIN f : i < k /\ f[i].kind = kind}
Rows(E, e) == {x \in DOMAIN E : E[x] = e}
Tallies(E, f, k, kind) ==
    /\ IsFiniteSet(DOMAIN E)
    /\ \A j \in DOMAIN f : f[j].kind = kind =>
          Cardinality(Rows(E, f[j])) = Cardinality(Alike(f, k, f[j]))
    /\ Cardinality(DOMAIN E) = Cardinality(OneKind(f, k, kind))

Restored(s, f, k, b) ==
    /\ Tallies(CounterEntries(s), f, k, "counter")
    /\ Tallies(TriggerEntries(s), f, k, "trigger")
    /\ Tallies(ReportEntries(s), f, k, "report")
    /\ IF HasKind(f, "action") THEN Tallies(ActionEntries(s), f, k, "action") ELSE s.actions = b.actions
    /\ \A i \in OneKind(f, k, "schedule") : s.schedule = f[i].at
    /\ ~HasKind(f, "schedule") => s.schedule = b.schedule

Restoring == tx # NoTx /\ tx.replace => Restored(tx.store, NormalFile(tx.file), tx.at, db)

LEMMA SomeFinite ==
    ASSUME NEW f, NEW m \in Nat, DOMAIN f = 1..m, NEW k, NEW e, NEW kind
    PROVE IsFiniteSet(Alike(f, k, e)) /\ IsFiniteSet(OneKind(f, k, kind))
<1>1. 1 \in Int /\ m \in Int
  OBVIOUS
<1>2. IsFiniteSet(1..m)
  BY <1>1, FS_Interval, Zenon
<1>3. Alike(f, k, e) \in SUBSET (1..m) /\ OneKind(f, k, kind) \in SUBSET (1..m)
  BY DEF Alike, OneKind
<1> QED BY <1>2, <1>3, FS_Subset

\* A row for entry k.
LEMMA TallyGrows ==
    ASSUME NEW f, NEW m \in Nat, DOMAIN f = 1..m, NEW k \in 1..m, NEW kind, f[k].kind = kind,
           NEW E, Tallies(E, f, k, kind), NEW n, n \notin DOMAIN E
    PROVE Tallies(Put(E, n, f[k]), f, k + 1, kind)
<1> DEFINE F == Put(E, n, f[k])
<1>1. DOMAIN F = DOMAIN E \union {n} /\ F[n] = f[k] /\ \A x \in DOMAIN E : F[x] = E[x]
  BY DEF Put
<1> HIDE DEF F
<1>2. IsFiniteSet(DOMAIN E) /\ IsFiniteSet(DOMAIN F)
  BY <1>1, FS_AddElement DEF Tallies
<1>3. ASSUME NEW j \in DOMAIN f, f[j].kind = kind
      PROVE Cardinality(Rows(F, f[j])) = Cardinality(Alike(f, k + 1, f[j]))
  <2> DEFINE e == f[j]
  <2>1. Cardinality(Rows(E, e)) = Cardinality(Alike(f, k, e))
    BY <1>3 DEF Tallies
  <2>2. IsFiniteSet(Rows(E, e))
    <3>1. Rows(E, e) \in SUBSET DOMAIN E
      BY DEF Rows
    <3> QED BY <1>2, <3>1, FS_Subset
  <2>3. IsFiniteSet(Alike(f, k, e))
    BY SomeFinite
  <2>4. n \notin Rows(E, e) /\ k \notin Alike(f, k, e)
    BY DEF Rows, Alike
  <2>5. CASE f[k] = e
    <3>1. Rows(F, e) = Rows(E, e) \union {n}
      BY <1>1, <2>5 DEF Rows
    <3>2. Alike(f, k + 1, e) = Alike(f, k, e) \union {k}
      BY <2>5 DEF Alike
    <3>3. Cardinality(Rows(F, e)) = Cardinality(Rows(E, e)) + 1
      BY <2>2, <2>4, <3>1, FS_AddElement
    <3>4. Cardinality(Alike(f, k + 1, e)) = Cardinality(Alike(f, k, e)) + 1
      BY <2>3, <2>4, <3>2, FS_AddElement
    <3> QED BY <2>1, <3>3, <3>4
  <2>6. CASE f[k] # e
    <3>1. Rows(F, e) = Rows(E, e)
      BY <1>1, <2>6 DEF Rows
    <3>2. Alike(f, k + 1, e) = Alike(f, k, e)
      BY <2>6 DEF Alike
    <3> QED BY <2>1, <3>1, <3>2
  <2> QED BY <2>5, <2>6
<1>4. Cardinality(DOMAIN F) = Cardinality(OneKind(f, k + 1, kind))
  <2>1. OneKind(f, k + 1, kind) = OneKind(f, k, kind) \union {k} /\ k \notin OneKind(f, k, kind)
    BY DEF OneKind
  <2>2. IsFiniteSet(OneKind(f, k, kind)) /\ Cardinality(DOMAIN E) = Cardinality(OneKind(f, k, kind))
    BY SomeFinite DEF Tallies
  <2> QED BY <1>1, <1>2, <2>1, <2>2, FS_AddElement
<1> QED BY <1>2, <1>3, <1>4 DEF Tallies, F

\* Entry k is of another kind.
LEMMA TallyStays ==
    ASSUME NEW f, NEW m \in Nat, DOMAIN f = 1..m, NEW k \in 1..m, NEW kind, f[k].kind # kind,
           NEW E, Tallies(E, f, k, kind)
    PROVE Tallies(E, f, k + 1, kind)
<1>1. \A j \in DOMAIN f : f[j].kind = kind => Alike(f, k + 1, f[j]) = Alike(f, k, f[j])
  BY DEF Alike
<1>2. OneKind(f, k + 1, kind) = OneKind(f, k, kind)
  BY DEF OneKind
<1> QED BY <1>1, <1>2 DEF Tallies

LEMMA NormalParts ==
    ASSUME NEW g, Readable(g)
    PROVE LET f == NormalFile(g) IN
          /\ DOMAIN f = DOMAIN g /\ DOMAIN f = 1..Len(g) /\ Len(g) \in Nat
          /\ \A i \in DOMAIN g : g[i] \in Entry /\ f[i] = Normal(g[i]) /\ f[i].kind = g[i].kind
          /\ \A kind : HasKind(f, kind) <=> HasKind(g, kind)
          /\ \A i, j \in DOMAIN f : f[i].kind = "schedule" /\ f[j].kind = "schedule" => i = j
<1>1. g \in Seq(Entry)
  BY DEF Readable
<1>2. \A i \in DOMAIN g : g[i] \in Entry
  BY <1>1
<1> DEFINE f == NormalFile(g)
<1>3. DOMAIN f = DOMAIN g /\ \A i \in DOMAIN g : f[i] = Normal(g[i])
  BY DEF NormalFile
<1> HIDE DEF f
<1>4. \A i \in DOMAIN g : f[i].kind = g[i].kind
  BY <1>2, <1>3, EntryOfRow
<1>5. \A kind : HasKind(f, kind) <=> HasKind(g, kind)
  BY <1>3, <1>4 DEF HasKind
<1>6. \A i, j \in DOMAIN f : f[i].kind = "schedule" /\ f[j].kind = "schedule" => i = j
  BY <1>3, <1>4 DEF Readable
<1> QED BY <1>1, <1>2, <1>3, <1>4, <1>5, <1>6 DEF f

\* Nothing is restored of a cleared store.
LEMMA ClearedRestored ==
    ASSUME NEW s, NEW st, Sound(s, st), NEW g, Readable(g)
    PROVE Restored(Cleared(s, g), NormalFile(g), 1, s)
<1> DEFINE z == Cleared(s, g)
           f == NormalFile(g)
<1>1. /\ DOMAIN z.counters = {} /\ DOMAIN z.triggers = {} /\ DOMAIN z.reports = {}
      /\ IF HasKind(g, "action") THEN DOMAIN z.actions = {} ELSE z.actions = s.actions
      /\ z.schedule = s.schedule
  BY DEF Cleared, Empty
<1>2. DOMAIN f = 1..Len(g) /\ Len(g) \in Nat /\ (HasKind(f, "action") <=> HasKind(g, "action"))
  BY NormalParts
<1> HIDE DEF z, f
<1>3. \A e, kind : Alike(f, 1, e) = {} /\ OneKind(f, 1, kind) = {}
  BY <1>2 DEF Alike, OneKind
<1>4. ASSUME NEW E, DOMAIN E = {}, NEW kind PROVE Tallies(E, f, 1, kind)
  <2>1. \A e : Rows(E, e) = {}
    BY <1>4 DEF Rows
  <2> QED BY <1>3, <1>4, <2>1, FS_EmptySet DEF Tallies
<1>5. /\ DOMAIN CounterEntries(z) = {} /\ DOMAIN TriggerEntries(z) = {} /\ DOMAIN ReportEntries(z) = {}
      /\ DOMAIN ActionEntries(z) = DOMAIN z.actions
  BY <1>1 DEF CounterEntries, TriggerEntries, ReportEntries, ActionEntries
<1> QED BY <1>1, <1>2, <1>3, <1>4, <1>5 DEF Restored, z, f

\* The next entry is stored as a row of its own.
LEMMA CounterRestored ==
    ASSUME NEW f, NEW m \in Nat, DOMAIN f = 1..m, NEW k \in 1..m, f[k].kind = "counter",
           NEW s, NEW b, Restored(s, f, k, b), NoOrphans(s), NEW n, n \notin DOMAIN s.counters,
           NEW row, CounterEntry(row, FALSE) = f[k],
           NEW z, z.counters = Put(s.counters, n, row), z.triggers = s.triggers, z.reports = s.reports,
           z.actions = s.actions, z.schedule = s.schedule
    PROVE Restored(z, f, k + 1, b)
<1>1. CounterEntries(z) = Put(CounterEntries(s), n, f[k])
  BY DEF CounterEntries, Put
<1>2. n \notin DOMAIN CounterEntries(s)
  BY DEF CounterEntries
<1>3. \A c \in DOMAIN s.counters : z.counters[c] = s.counters[c]
  BY DEF Put
<1>4. TriggerEntries(z) = TriggerEntries(s) /\ ReportEntries(z) = ReportEntries(s)
      /\ ActionEntries(z) = ActionEntries(s)
  BY <1>3 DEF TriggerEntries, ReportEntries, ActionEntries, NoOrphans
<1>5. Tallies(CounterEntries(z), f, k + 1, "counter")
  BY <1>1, <1>2, TallyGrows DEF Restored
<1>6. /\ Tallies(TriggerEntries(z), f, k + 1, "trigger") /\ Tallies(ReportEntries(z), f, k + 1, "report")
      /\ HasKind(f, "action") => Tallies(ActionEntries(z), f, k + 1, "action")
  BY <1>4, TallyStays DEF Restored
<1>7. OneKind(f, k + 1, "schedule") = OneKind(f, k, "schedule")
  BY DEF OneKind
<1> QED BY <1>5, <1>6, <1>7 DEF Restored

LEMMA TriggerRestored ==
    ASSUME NEW f, NEW m \in Nat, DOMAIN f = 1..m, NEW k \in 1..m, f[k].kind = "trigger",
           NEW s, NEW b, Restored(s, f, k, b), NEW n, n \notin DOMAIN s.triggers,
           NEW row, TriggerEntry(s.counters[row.counter].cid, row) = f[k],
           NEW z, z.triggers = Put(s.triggers, n, row), z.counters = s.counters, z.reports = s.reports,
           z.actions = s.actions, z.schedule = s.schedule
    PROVE Restored(z, f, k + 1, b)
<1>1. TriggerEntries(z) = Put(TriggerEntries(s), n, f[k])
  BY DEF TriggerEntries, Put
<1>2. n \notin DOMAIN TriggerEntries(s)
  BY DEF TriggerEntries
<1>3. CounterEntries(z) = CounterEntries(s) /\ ReportEntries(z) = ReportEntries(s)
      /\ ActionEntries(z) = ActionEntries(s)
  BY DEF CounterEntries, ReportEntries, ActionEntries
<1>4. Tallies(TriggerEntries(z), f, k + 1, "trigger")
  BY <1>1, <1>2, TallyGrows DEF Restored
<1>5. /\ Tallies(CounterEntries(z), f, k + 1, "counter") /\ Tallies(ReportEntries(z), f, k + 1, "report")
      /\ HasKind(f, "action") => Tallies(ActionEntries(z), f, k + 1, "action")
  BY <1>3, TallyStays DEF Restored
<1>6. OneKind(f, k + 1, "schedule") = OneKind(f, k, "schedule")
  BY DEF OneKind
<1> QED BY <1>4, <1>5, <1>6 DEF Restored

LEMMA ReportRestored ==
    ASSUME NEW f, NEW m \in Nat, DOMAIN f = 1..m, NEW k \in 1..m, f[k].kind = "report",
           NEW s, NEW b, Restored(s, f, k, b), NEW n, n \notin DOMAIN s.reports,
           NEW row, ReportEntry(s.counters[row.counter].cid, row) = f[k],
           NEW z, z.reports = Put(s.reports, n, row), z.counters = s.counters, z.triggers = s.triggers,
           z.actions = s.actions, z.schedule = s.schedule
    PROVE Restored(z, f, k + 1, b)
<1>1. ReportEntries(z) = Put(ReportEntries(s), n, f[k])
  BY DEF ReportEntries, Put
<1>2. n \notin DOMAIN ReportEntries(s)
  BY DEF ReportEntries
<1>3. CounterEntries(z) = CounterEntries(s) /\ TriggerEntries(z) = TriggerEntries(s)
      /\ ActionEntries(z) = ActionEntries(s)
  BY DEF CounterEntries, TriggerEntries, ActionEntries
<1>4. Tallies(ReportEntries(z), f, k + 1, "report")
  BY <1>1, <1>2, TallyGrows DEF Restored
<1>5. /\ Tallies(CounterEntries(z), f, k + 1, "counter") /\ Tallies(TriggerEntries(z), f, k + 1, "trigger")
      /\ HasKind(f, "action") => Tallies(ActionEntries(z), f, k + 1, "action")
  BY <1>3, TallyStays DEF Restored
<1>6. OneKind(f, k + 1, "schedule") = OneKind(f, k, "schedule")
  BY DEF OneKind
<1> QED BY <1>4, <1>5, <1>6 DEF Restored

LEMMA ActionRestored ==
    ASSUME NEW f, NEW m \in Nat, DOMAIN f = 1..m, NEW k \in 1..m, f[k].kind = "action",
           NEW s, NEW b, Restored(s, f, k, b), NEW n, n \notin DOMAIN s.actions,
           NEW row, ActionEntry(row) = f[k],
           NEW z, z.actions = Put(s.actions, n, row), z.counters = s.counters, z.triggers = s.triggers,
           z.reports = s.reports, z.schedule = s.schedule
    PROVE Restored(z, f, k + 1, b)
<1>1. ActionEntries(z) = Put(ActionEntries(s), n, f[k])
  BY DEF ActionEntries, Put
<1>2. n \notin DOMAIN ActionEntries(s) /\ HasKind(f, "action")
  BY DEF ActionEntries, HasKind
<1>3. CounterEntries(z) = CounterEntries(s) /\ TriggerEntries(z) = TriggerEntries(s)
      /\ ReportEntries(z) = ReportEntries(s)
  BY DEF CounterEntries, TriggerEntries, ReportEntries
<1>4. Tallies(ActionEntries(z), f, k + 1, "action")
  BY <1>1, <1>2, TallyGrows DEF Restored
<1>5. /\ Tallies(CounterEntries(z), f, k + 1, "counter") /\ Tallies(TriggerEntries(z), f, k + 1, "trigger")
      /\ Tallies(ReportEntries(z), f, k + 1, "report")
  BY <1>3, TallyStays DEF Restored
<1>6. OneKind(f, k + 1, "schedule") = OneKind(f, k, "schedule")
  BY DEF OneKind
<1> QED BY <1>2, <1>4, <1>5, <1>6 DEF Restored

LEMMA ScheduleRestored ==
    ASSUME NEW f, NEW m \in Nat, DOMAIN f = 1..m, NEW k \in 1..m, f[k].kind = "schedule",
           \A i, j \in DOMAIN f : f[i].kind = "schedule" /\ f[j].kind = "schedule" => i = j,
           NEW s, NEW b, Restored(s, f, k, b),
           NEW z, z.schedule = f[k].at, z.counters = s.counters, z.triggers = s.triggers,
           z.reports = s.reports, z.actions = s.actions
    PROVE Restored(z, f, k + 1, b)
<1>1. CounterEntries(z) = CounterEntries(s) /\ TriggerEntries(z) = TriggerEntries(s)
      /\ ReportEntries(z) = ReportEntries(s) /\ ActionEntries(z) = ActionEntries(s)
  BY DEF CounterEntries, TriggerEntries, ReportEntries, ActionEntries
<1>2. /\ Tallies(CounterEntries(z), f, k + 1, "counter") /\ Tallies(TriggerEntries(z), f, k + 1, "trigger")
      /\ Tallies(ReportEntries(z), f, k + 1, "report")
      /\ HasKind(f, "action") => Tallies(ActionEntries(z), f, k + 1, "action")
  BY <1>1, TallyStays DEF Restored
<1>3. OneKind(f, k + 1, "schedule") = {k} /\ HasKind(f, "schedule")
  BY DEF OneKind, HasKind
<1> QED BY <1>2, <1>3 DEF Restored

LEMMA RestoringGoesOn == IInv /\ Restoring /\ Importing /\ tx.replace => Restoring' /\ db' = db
<1> SUFFICES ASSUME IInv, Restoring, Importing, tx.replace PROVE Restoring' /\ db' = db
  OBVIOUS
<1> DEFINE s == tx.store
           g == tx.file
           f == NormalFile(tx.file)
           k == tx.at
           e == g[k]
           m == Len(g)
<1>1. tx # NoTx /\ IsStore(s) /\ NoOrphans(s) /\ Readable(g) /\ Restored(s, f, k, db)
  BY DEF Importing, IInv, Copy, Control, Sound, Restoring
<1>2. /\ DOMAIN f = 1..m /\ m \in Nat /\ DOMAIN f = DOMAIN g
      /\ \A i, j \in DOMAIN f : f[i].kind = "schedule" /\ f[j].kind = "schedule" => i = j
      /\ \A i \in DOMAIN g : g[i] \in Entry /\ f[i] = Normal(g[i]) /\ f[i].kind = g[i].kind
  BY <1>1, NormalParts
<1>3. /\ s.lastCounter + 1 \notin DOMAIN s.counters /\ s.lastTrigger + 1 \notin DOMAIN s.triggers
      /\ s.lastReport + 1 \notin DOMAIN s.reports /\ s.lastAction + 1 \notin DOMAIN s.actions
  BY <1>1 DEF IsStore, IsTable
<1>a. ASSUME NEW z, Applied(z), Restored(z, f, k + 1, db) PROVE Restoring' /\ db' = db
  <2>1. tx'.store = z /\ tx'.at = k + 1 /\ tx'.file = g /\ db' = db
    BY <1>1, <1>a, AppliedFields
  <2> QED BY <1>a, <2>1 DEF Restoring
<1>b. ASSUME k \in DOMAIN g PROVE k \in 1..m /\ e \in Entry /\ f[k] = Normal(e) /\ f[k].kind = e.kind
  BY <1>2, <1>b
<1> HIDE DEF s, f, m
<1>5. ASSUME ImportCounter PROVE Restoring' /\ db' = db
  <2>1. k \in DOMAIN g /\ e.kind = "counter" /\ Applied(CreateCounter(s, e.cid, e.label, e.token))
    BY <1>5 DEF ImportCounter, At, s
  <2>2. k \in 1..m /\ f[k].kind = "counter" /\ f[k] = e
    BY <1>b, <2>1, EntryOfRow
  <2> DEFINE z == CreateCounter(s, e.cid, e.label, e.token)
             row == [cid |-> e.cid, label |-> e.label, token |-> e.token, cursor |-> FALSE]
  <2>3. CounterEntry(row, FALSE) = f[k]
    BY <1>b, <2>1, <2>2, EntryOfRow
  <2>4. /\ z.counters = Put(s.counters, s.lastCounter + 1, row) /\ z.triggers = s.triggers
        /\ z.reports = s.reports /\ z.actions = s.actions /\ z.schedule = s.schedule
    BY <1>1 DEF CreateCounter, IsStore
  <2> HIDE DEF z, row
  <2>5. Restored(z, f, k + 1, db)
    BY <1>1, <1>2, <1>3, <2>2, <2>3, <2>4, CounterRestored
  <2> QED BY <1>a, <2>1, <2>5 DEF z
<1>6. ASSUME ImportTrigger PROVE Restoring' /\ db' = db
  <2>1. PICK c \in DOMAIN s.counters : /\ k \in DOMAIN g /\ e.kind = "trigger" /\ s.counters[c].cid = e.cid
                                       /\ Applied(CreateTrigger(s, TriggerOf(c, e)))
    BY <1>6 DEF ImportTrigger, At, s
  <2>2. k \in 1..m /\ f[k].kind = "trigger" /\ f[k] = Normal(e)
    BY <1>b, <2>1
  <2> DEFINE z == CreateTrigger(s, TriggerOf(c, e))
             row == TriggerOf(c, e)
  <2>3. row.counter = c /\ TriggerEntry(e.cid, row) = f[k]
    BY <1>b, <2>1, <2>2, EntryOfRow DEF TriggerOf
  <2>4. /\ z.triggers = Put(s.triggers, s.lastTrigger + 1, row) /\ z.counters = s.counters
        /\ z.reports = s.reports /\ z.actions = s.actions /\ z.schedule = s.schedule
    BY <1>1 DEF CreateTrigger, IsStore
  <2> HIDE DEF z, row
  <2>5. TriggerEntry(s.counters[row.counter].cid, row) = f[k]
    BY <2>1, <2>3
  <2>6. Restored(z, f, k + 1, db)
    BY <1>1, <1>2, <1>3, <2>2, <2>4, <2>5, TriggerRestored
  <2> QED BY <1>a, <2>1, <2>6 DEF z
<1>7. ASSUME ImportReport PROVE Restoring' /\ db' = db
  <2>1. PICK c \in DOMAIN s.counters : /\ k \in DOMAIN g /\ e.kind = "report" /\ s.counters[c].cid = e.cid
                                       /\ Applied(CreateReport(s, ReportOf(c, e)))
    BY <1>7 DEF ImportReport, At, s
  <2>2. k \in 1..m /\ f[k].kind = "report" /\ f[k] = e
    BY <1>b, <2>1, EntryOfRow
  <2> DEFINE z == CreateReport(s, ReportOf(c, e))
             row == ReportOf(c, e)
  <2>3. row.counter = c /\ ReportEntry(e.cid, row) = f[k]
    BY <1>b, <2>1, <2>2, EntryOfRow DEF ReportOf
  <2>4. /\ z.reports = Put(s.reports, s.lastReport + 1, row) /\ z.counters = s.counters
        /\ z.triggers = s.triggers /\ z.actions = s.actions /\ z.schedule = s.schedule
    BY <1>1 DEF CreateReport, IsStore
  <2> HIDE DEF z, row
  <2>5. ReportEntry(s.counters[row.counter].cid, row) = f[k]
    BY <2>1, <2>3
  <2>6. Restored(z, f, k + 1, db)
    BY <1>1, <1>2, <1>3, <2>2, <2>4, <2>5, ReportRestored
  <2> QED BY <1>a, <2>1, <2>6 DEF z
<1>8. ASSUME ImportAction PROVE Restoring' /\ db' = db
  <2> DEFINE row == [dest |-> e.dest, label |-> e.label]
             z == CreateAlertAction(s, row)
  <2>1. k \in DOMAIN g /\ e.kind = "action" /\ Applied(z)
    BY <1>8 DEF ImportAction, At, s
  <2>2. k \in 1..m /\ f[k].kind = "action" /\ f[k] = e
    BY <1>b, <2>1, EntryOfRow
  <2>3. ActionEntry(row) = f[k]
    BY <1>b, <2>1, <2>2, EntryOfRow
  <2> HIDE DEF row
  <2>4. /\ z.actions = Put(s.actions, s.lastAction + 1, row) /\ z.counters = s.counters
        /\ z.triggers = s.triggers /\ z.reports = s.reports /\ z.schedule = s.schedule
    BY <1>1 DEF CreateAlertAction, IsStore
  <2> HIDE DEF z
  <2>5. Restored(z, f, k + 1, db)
    BY <1>1, <1>2, <1>3, <2>2, <2>3, <2>4, ActionRestored
  <2> QED BY <1>a, <2>1, <2>5
<1>9. ASSUME ImportSchedule PROVE Restoring' /\ db' = db
  <2> DEFINE z == SetSetting(s, e.at)
  <2>1. k \in DOMAIN g /\ e.kind = "schedule" /\ Applied(z)
    BY <1>9 DEF ImportSchedule, At, s
  <2>2. k \in 1..m /\ f[k].kind = "schedule" /\ f[k] = e
    BY <1>b, <2>1, EntryOfRow
  <2>3. /\ z.schedule = f[k].at /\ z.counters = s.counters
        /\ z.triggers = s.triggers /\ z.reports = s.reports /\ z.actions = s.actions
    BY <1>1, <2>2 DEF SetSetting, IsStore
  <2> HIDE DEF z
  <2>4. Restored(z, f, k + 1, db)
    BY <1>1, <1>2, <2>2, <2>3, ScheduleRestored
  <2> QED BY <1>a, <2>1, <2>4
<1> QED BY <1>5, <1>6, <1>7, <1>8, <1>9 DEF Importing, ImportStep

LEMMA RestoringStep == IInv /\ Restoring /\ [Next]_vars => Restoring'
<1> SUFFICES ASSUME IInv, Restoring, [Next]_vars PROVE Restoring'
  OBVIOUS
<1>1. CASE tx' = tx /\ (db' = db \/ tx = NoTx)
  BY <1>1 DEF Restoring
<1>2. ASSUME NEW u, NEW f, NEW replace, NEW flow, ImportStart(u, f, replace, flow) PROVE Restoring'
  <2>1. /\ tx'.file = f /\ tx'.replace = replace /\ tx'.at = 1 /\ db' = db
        /\ replace => tx'.store = Cleared(db, f)
        /\ Readable(f)
    BY <1>2 DEF ImportStart
  <2>2. Sound(db, strays)
    BY DEF IInv
  <2>3. Restored(Cleared(db, f), NormalFile(f), 1, db)
    BY <2>1, <2>2, ClearedRestored
  <2> QED BY <2>1, <2>3 DEF Restoring
<1>3. CASE Importing
  <2>1. tx'.replace = tx.replace
    BY <1>3, AppliedFields
       DEF Importing, ImportStep, ImportCounter, ImportTrigger, ImportReport, ImportAction, ImportSchedule
  <2>2. CASE tx.replace
    BY <1>3, <2>2, RestoringGoesOn
  <2>3. CASE ~tx.replace
    BY <2>1, <2>3 DEF Restoring
  <2> QED BY <2>2, <2>3
<1>4. CASE tx' = NoTx
  BY <1>4 DEF Restoring
<1>5. CASE Imported
  BY <1>5 DEF Imported, ImportCommit, Restoring
<1> QED BY <1>1, <1>2, <1>3, <1>4, <1>5, TxSteps

\* At the end of a file its entries are in the store as often as they are in it.
LEMMA RestoredCounts ==
    ASSUME NEW f, NEW m \in Nat, DOMAIN f = 1..m, NEW k \in Nat, k > m,
           NEW s, NoOrphans(s), NEW b, Restored(s, f, k, b), NEW j \in DOMAIN f,
           \A i \in DOMAIN f : f[i].kind = "schedule" /\ f[j].kind = "schedule" => i = j,
           f[j].kind \in {"counter", "trigger", "report", "action", "schedule"},
           f[j].kind = "schedule" => f[j].at \in Schedules /\ ScheduleEntry(f[j].at) = f[j]
    PROVE InStore(s, f[j]) = InFile(f, f[j])
<1> DEFINE e == f[j]
           C == Cardinality(Rows(CounterEntries(s), e))
           T == Cardinality(Rows(TriggerEntries(s), e))
           R == Cardinality(Rows(ReportEntries(s), e))
           A == Cardinality(Rows(ActionEntries(s), e))
           S == IF s.schedule # Unset /\ ScheduleEntry(s.schedule) = e THEN 1 ELSE 0
           n == Cardinality(Alike(f, k, e))
<1>1. InStore(s, e) = C + T + R + A + S
  <2>1. Rows(CounterEntries(s), e) = {c \in DOMAIN s.counters : CounterEntry(s.counters[c], FALSE) = e}
    BY DEF Rows, CounterEntries
  <2>2. Rows(TriggerEntries(s), e) =
          {t \in DOMAIN s.triggers : s.triggers[t].counter \in DOMAIN s.counters
              /\ TriggerEntry(s.counters[s.triggers[t].counter].cid, s.triggers[t]) = e}
    BY DEF Rows, TriggerEntries, NoOrphans
  <2>3. Rows(ReportEntries(s), e) =
          {r \in DOMAIN s.reports : s.reports[r].counter \in DOMAIN s.counters
              /\ ReportEntry(s.counters[s.reports[r].counter].cid, s.reports[r]) = e}
    BY DEF Rows, ReportEntries, NoOrphans
  <2>4. Rows(ActionEntries(s), e) = {a \in DOMAIN s.actions : ActionEntry(s.actions[a]) = e}
    BY DEF Rows, ActionEntries
  <2> HIDE DEF e
  <2> QED BY <2>1, <2>2, <2>3, <2>4, Zenon DEF InStore, C, T, R, A, S
<1>2. InFile(f, e) = n
  <2>1. Alike(f, k, e) = {i \in DOMAIN f : f[i] = e}
    BY DEF Alike
  <2> QED BY <2>1 DEF InFile
<1>3. n \in Nat
  BY SomeFinite, FS_CardinalityType
<1>4. Cardinality({}) = 0
  BY FS_EmptySet
<1>5. e.kind # "counter" => C = 0
  <2>1. e.kind # "counter" => Rows(CounterEntries(s), e) = {}
    BY DEF Rows, CounterEntries, CounterEntry
  <2> QED BY <1>4, <2>1
<1>6. e.kind # "trigger" => T = 0
  <2>1. e.kind # "trigger" => Rows(TriggerEntries(s), e) = {}
    BY DEF Rows, TriggerEntries, TriggerEntry
  <2> QED BY <1>4, <2>1
<1>7. e.kind # "report" => R = 0
  <2>1. e.kind # "report" => Rows(ReportEntries(s), e) = {}
    BY DEF Rows, ReportEntries, ReportEntry
  <2> QED BY <1>4, <2>1
<1>8. e.kind # "action" => A = 0
  <2>1. e.kind # "action" => Rows(ActionEntries(s), e) = {}
    BY DEF Rows, ActionEntries, ActionEntry
  <2> QED BY <1>4, <2>1
<1>9. e.kind # "schedule" => S = 0
  BY DEF ScheduleEntry
<1>10. /\ e.kind = "counter" => C = n
       /\ e.kind = "trigger" => T = n
       /\ e.kind = "report" => R = n
       /\ e.kind = "action" => A = n
  BY DEF Restored, Tallies, HasKind
<1>11. e.kind = "schedule" => S = n
  <2> SUFFICES ASSUME e.kind = "schedule" PROVE S = n
    OBVIOUS
  <2>1. Alike(f, k, e) = {j} /\ j \in OneKind(f, k, "schedule")
    BY DEF Alike, OneKind
  <2>2. n = 1
    BY <2>1, FS_Singleton
  <2>3. s.schedule = e.at /\ s.schedule # Unset /\ ScheduleEntry(s.schedule) = e
    BY <2>1, StoreAssumption DEF Restored
  <2> QED BY <2>2, <2>3
<1> HIDE DEF C, T, R, A, S, n
<1>12. CASE e.kind = "counter"
  <2>1. C = n /\ T = 0 /\ R = 0 /\ A = 0 /\ S = 0
    BY <1>5, <1>6, <1>7, <1>8, <1>9, <1>10, <1>12
  <2> QED BY <1>1, <1>2, <1>3, <2>1
<1>13. CASE e.kind = "trigger"
  <2>1. C = 0 /\ T = n /\ R = 0 /\ A = 0 /\ S = 0
    BY <1>5, <1>6, <1>7, <1>8, <1>9, <1>10, <1>13
  <2> QED BY <1>1, <1>2, <1>3, <2>1
<1>14. CASE e.kind = "report"
  <2>1. C = 0 /\ T = 0 /\ R = n /\ A = 0 /\ S = 0
    BY <1>5, <1>6, <1>7, <1>8, <1>9, <1>10, <1>14
  <2> QED BY <1>1, <1>2, <1>3, <2>1
<1>15. CASE e.kind = "action"
  <2>1. C = 0 /\ T = 0 /\ R = 0 /\ A = n /\ S = 0
    BY <1>5, <1>6, <1>7, <1>8, <1>9, <1>10, <1>15
  <2> QED BY <1>1, <1>2, <1>3, <2>1
<1>16. CASE e.kind = "schedule"
  <2>1. C = 0 /\ T = 0 /\ R = 0 /\ A = 0 /\ S = n
    BY <1>5, <1>6, <1>7, <1>8, <1>11, <1>16
  <2> QED BY <1>1, <1>2, <1>3, <2>1
<1> QED BY <1>12, <1>13, <1>14, <1>15, <1>16

\* s has no other rows than those of f, but the destinations and the schedule of b
\* when f has none.
NothingElse(s, f, b) ==
    /\ DOMAIN s.triggers = {t \in DOMAIN s.triggers : s.triggers[t].counter \in DOMAIN s.counters}
    /\ Cardinality(DOMAIN s.counters) + Cardinality(DOMAIN s.triggers) + Cardinality(DOMAIN s.reports)
         = Cardinality({i \in DOMAIN f : f[i].kind \in {"counter", "trigger", "report"}})
    /\ IF HasKind(f, "action")
       THEN Cardinality(DOMAIN s.actions) = Cardinality({i \in DOMAIN f : f[i].kind = "action"})
       ELSE s.actions = b.actions
    /\ ~HasKind(f, "schedule") => s.schedule = b.schedule

LEMMA RestoredRows ==
    ASSUME NEW f, NEW m \in Nat, DOMAIN f = 1..m, NEW k \in Nat, k > m,
           NEW s, NoOrphans(s), NEW b, Restored(s, f, k, b)
    PROVE NothingElse(s, f, b)
<1> DEFINE C == OneKind(f, k, "counter")
           T == OneKind(f, k, "trigger")
           R == OneKind(f, k, "report")
<1>1. /\ Cardinality(DOMAIN s.counters) = Cardinality(C)
      /\ Cardinality(DOMAIN s.triggers) = Cardinality(T)
      /\ Cardinality(DOMAIN s.reports) = Cardinality(R)
      /\ HasKind(f, "action") => Cardinality(DOMAIN s.actions) = Cardinality(OneKind(f, k, "action"))
  <2>1. /\ DOMAIN CounterEntries(s) = DOMAIN s.counters /\ DOMAIN TriggerEntries(s) = DOMAIN s.triggers
        /\ DOMAIN ReportEntries(s) = DOMAIN s.reports /\ DOMAIN ActionEntries(s) = DOMAIN s.actions
    BY DEF CounterEntries, TriggerEntries, ReportEntries, ActionEntries
  <2> QED BY <2>1 DEF Restored, Tallies
<1>2. \A kind : OneKind(f, k, kind) = {i \in DOMAIN f : f[i].kind = kind}
  BY DEF OneKind
<1>3. {i \in DOMAIN f : f[i].kind \in {"counter", "trigger", "report"}} = (C \union T) \union R
  BY <1>2
<1>4. C \intersect T = {} /\ (C \union T) \intersect R = {}
  BY <1>2
<1>5. IsFiniteSet(C) /\ IsFiniteSet(T) /\ IsFiniteSet(R)
  BY SomeFinite
<1> HIDE DEF C, T, R
<1>6. /\ IsFiniteSet(C \union T)
      /\ Cardinality(C \union T) = Cardinality(C) + Cardinality(T) - Cardinality(C \intersect T)
  BY <1>5, FS_Union
<1>7. Cardinality((C \union T) \union R)
        = Cardinality(C \union T) + Cardinality(R) - Cardinality((C \union T) \intersect R)
  BY <1>5, <1>6, FS_Union
<1>8. Cardinality(C) \in Nat /\ Cardinality(T) \in Nat /\ Cardinality(R) \in Nat
  BY <1>5, FS_CardinalityType
<1>9. Cardinality({}) = 0
  BY FS_EmptySet
<1>10. Cardinality((C \union T) \union R) = Cardinality(C) + Cardinality(T) + Cardinality(R)
  <2>1. Cardinality(C \intersect T) = 0 /\ Cardinality((C \union T) \intersect R) = 0
    BY <1>4, <1>9, Zenon
  <2> QED BY <1>6, <1>7, <1>8, <2>1
<1> QED BY <1>1, <1>2, <1>3, <1>10 DEF NothingElse, NoOrphans, Restored

(* A replacing import leaves in the database each entry of its file as often *)
(* as the file has it, and nothing else but the destinations and the         *)
(* schedule when the file has none; a file is applied as a whole or not at   *)
(* all, however other writers, exports and a crash come between its          *)
(* statements (Import, export.go:141).                                       *)
THEOREM ReplacesWhole == Spec => ReplaceRestores
<1> DEFINE RInv == IInv /\ Restoring
<1>1. Init => Restoring
  BY DEF Init, Restoring
<1>2. IInv /\ Restoring /\ [Next]_vars => Restoring'
  BY RestoringStep
<1>3. ASSUME IInv, Restoring, [Next]_vars, tx # NoTx, tx.replace, db' # db
      PROVE LET f == NormalFile(tx.file) IN
            /\ \A i \in DOMAIN f : InStore(db', f[i]) = InFile(f, f[i])
            /\ DOMAIN db'.triggers = {t \in DOMAIN db'.triggers :
                                        db'.triggers[t].counter \in DOMAIN db'.counters}
            /\ Cardinality(DOMAIN db'.counters) + Cardinality(DOMAIN db'.triggers)
                   + Cardinality(DOMAIN db'.reports)
                 = Cardinality({i \in DOMAIN f : f[i].kind \in {"counter", "trigger", "report"}})
            /\ IF HasKind(f, "action")
               THEN Cardinality(DOMAIN db'.actions) = Cardinality({i \in DOMAIN f : f[i].kind = "action"})
               ELSE db'.actions = db.actions
            /\ ~HasKind(f, "schedule") => db'.schedule = db.schedule
  <2> DEFINE f == NormalFile(tx.file)
             g == tx.file
             m == Len(g)
  <2>1. Imported
    BY <1>3, TxSteps, RestoringGoesOn DEF ImportStart
  <2>2. db' = tx.store /\ tx.at \notin DOMAIN g
    BY <2>1 DEF Imported, ImportCommit
  <2>3. Readable(g) /\ tx.at \in Nat /\ tx.at >= 1 /\ NoOrphans(tx.store) /\ Restored(tx.store, f, tx.at, db)
    BY <1>3 DEF IInv, Control, Copy, Ids, Restoring
  <2>4. /\ DOMAIN f = 1..m /\ m \in Nat /\ DOMAIN f = DOMAIN g
        /\ \A i, j \in DOMAIN f : f[i].kind = "schedule" /\ f[j].kind = "schedule" => i = j
        /\ \A i \in DOMAIN g : g[i] \in Entry /\ f[i] = Normal(g[i]) /\ f[i].kind = g[i].kind
    BY <2>3, NormalParts
  <2> HIDE DEF f, m
  <2>5. tx.at > m
    BY <2>2, <2>3, <2>4
  <2>6. ASSUME NEW j \in DOMAIN f
        PROVE /\ f[j].kind \in {"counter", "trigger", "report", "action", "schedule"}
              /\ f[j].kind = "schedule" => f[j].at \in Schedules /\ ScheduleEntry(f[j].at) = f[j]
    <3>1. g[j] \in Entry /\ f[j] = Normal(g[j]) /\ f[j].kind = g[j].kind
      BY <2>4
    <3>2. g[j].kind \in {"counter", "trigger", "report", "action", "schedule"}
      BY <3>1 DEF Entry
    <3> QED BY <3>1, <3>2, EntryOfRow
  <2>7. \A j \in DOMAIN f : InStore(tx.store, f[j]) = InFile(f, f[j])
    BY <2>3, <2>4, <2>5, <2>6, RestoredCounts
  <2>8. NothingElse(tx.store, f, db)
    BY <2>3, <2>4, <2>5, RestoredRows
  <2>9. \A j \in DOMAIN f : InStore(db', f[j]) = InFile(f, f[j])
    BY <2>2, <2>7
  <2>10. NothingElse(db', f, db)
    BY <2>2, <2>8
  <2> QED BY <2>9, <2>10, Zenon DEF f, NothingElse
<1> QED BY <1>1, <1>2, <1>3, Invariant, PTL DEF Spec, ReplaceRestores

-----------------------------------------------------------------------------
(* A merging import.                                                        *)

\* The rows that merging an entry into s overwrites: at most one.
Targets(s, e) ==
    {c \in DOMAIN s.counters : e.kind = "counter" /\ s.counters[c].cid = e.cid}
    \union {t \in DOMAIN s.triggers :
              /\ e.kind = "trigger"
              /\ s.triggers[t].counter \in DOMAIN s.counters
              /\ s.counters[s.triggers[t].counter].cid = e.cid
              /\ t \in FirstNamed(s.triggers, TriggersOf(s, s.triggers[t].counter), e.name)}
    \union {r \in DOMAIN s.reports :
              /\ e.kind = "report"
              /\ s.reports[r].counter \in DOMAIN s.counters
              /\ s.counters[s.reports[r].counter].cid = e.cid
              /\ r \in FirstNamed(s.reports, ReportsOf(s, s.reports[r].counter), e.name)}
    \union {a \in DOMAIN s.actions :
              /\ e.kind = "action" /\ s.actions[a].dest = e.dest
              /\ \A b \in DOMAIN s.actions : s.actions[b].dest = e.dest => a <= b}
    \union {x \in {0} : e.kind = "schedule"}

\* Row x says what e does; the token apart, which e may leave out.
Agrees(s, e, x) ==
    /\ e.kind = "counter" => s.counters[x].label = e.label
    /\ e.kind = "trigger" => s.triggers[x] = TriggerOf(s.triggers[x].counter, e)
    /\ e.kind = "report" => s.reports[x] = ReportOf(s.reports[x].counter, e)
    /\ e.kind = "action" => s.actions[x].label = e.label
    /\ e.kind = "schedule" => s.schedule = e.at
Gives(e) == e.kind = "counter" /\ e.token # NoToken

\* The entries before k have rows, and of those of one row the last one tells.
Merged(s, f, k) ==
    \A i \in DOMAIN f : i < k =>
       \E x \in Targets(s, f[i]) :
          /\ \/ Agrees(s, f[i], x)
             \/ \E j \in DOMAIN f : i < j /\ j < k /\ f[j].kind = f[i].kind /\ x \in Targets(s, f[j])
          /\ Gives(f[i]) =>
                \/ s.counters[x].token = f[i].token
                \/ \E j \in DOMAIN f : i < j /\ j < k /\ Gives(f[j]) /\ x \in Targets(s, f[j])

\* s differs from b only in what the entries from k on are going to overwrite.
Ahead(b, f, k, kind, x) == \E i \in DOMAIN f : i >= k /\ f[i].kind = kind /\ x \in Targets(b, f[i])
Overlaid(s, b, f, k) ==
    /\ s = [b EXCEPT !.counters = s.counters, !.triggers = s.triggers, !.reports = s.reports,
                     !.actions = s.actions, !.schedule = s.schedule]
    /\ DOMAIN s.counters = DOMAIN b.counters
    /\ \A c \in DOMAIN b.counters :
          /\ s.counters[c].cid = b.counters[c].cid /\ s.counters[c].cursor = b.counters[c].cursor
          /\ s.counters[c].label = b.counters[c].label \/ Ahead(b, f, k, "counter", c)
          /\ \/ s.counters[c].token = b.counters[c].token
             \/ \E i \in DOMAIN f : i >= k /\ Gives(f[i]) /\ c \in Targets(b, f[i])
    /\ DOMAIN s.triggers = DOMAIN b.triggers
    /\ \A t \in DOMAIN b.triggers :
          /\ s.triggers[t].counter = b.triggers[t].counter /\ s.triggers[t].name = b.triggers[t].name
          /\ s.triggers[t] = b.triggers[t] \/ Ahead(b, f, k, "trigger", t)
    /\ DOMAIN s.reports = DOMAIN b.reports
    /\ \A r \in DOMAIN b.reports :
          /\ s.reports[r].counter = b.reports[r].counter /\ s.reports[r].name = b.reports[r].name
          /\ s.reports[r] = b.reports[r] \/ Ahead(b, f, k, "report", r)
    /\ DOMAIN s.actions = DOMAIN b.actions
    /\ \A a \in DOMAIN b.actions :
          /\ s.actions[a].dest = b.actions[a].dest
          /\ s.actions[a] = b.actions[a] \/ Ahead(b, f, k, "action", a)
    /\ s.schedule = b.schedule

\* What merging e makes of the tables of s, when it writes row y.
CountersWith(s, e, y, z) ==
    IF e.kind = "counter"
    THEN /\ DOMAIN z.counters = DOMAIN s.counters \union {y}
         /\ \A c \in DOMAIN s.counters : c # y => z.counters[c] = s.counters[c]
         /\ z.counters[y].cid = e.cid /\ z.counters[y].label = e.label
         /\ Gives(e) => z.counters[y].token = e.token
         /\ y \in DOMAIN s.counters =>
               /\ z.counters[y].cursor = s.counters[y].cursor
               /\ ~Gives(e) => z.counters[y].token = s.counters[y].token
    ELSE z.counters = s.counters
TriggersWith(s, e, y, z) ==
    IF e.kind = "trigger"
    THEN /\ DOMAIN z.triggers = DOMAIN s.triggers \union {y}
         /\ \A t \in DOMAIN s.triggers : t # y => z.triggers[t] = s.triggers[t]
         /\ \E c \in DOMAIN s.counters : s.counters[c].cid = e.cid /\ z.triggers[y] = TriggerOf(c, e)
    ELSE z.triggers = s.triggers
ReportsWith(s, e, y, z) ==
    IF e.kind = "report"
    THEN /\ DOMAIN z.reports = DOMAIN s.reports \union {y}
         /\ \A r \in DOMAIN s.reports : r # y => z.reports[r] = s.reports[r]
         /\ \E c \in DOMAIN s.counters : s.counters[c].cid = e.cid /\ z.reports[y] = ReportOf(c, e)
    ELSE z.reports = s.reports
ActionsWith(s, e, y, z) ==
    IF e.kind = "action"
    THEN /\ DOMAIN z.actions = DOMAIN s.actions \union {y}
         /\ \A a \in DOMAIN s.actions : a # y => z.actions[a] = s.actions[a]
         /\ z.actions[y] = [dest |-> e.dest, label |-> e.label]
    ELSE z.actions = s.actions
ScheduleWith(s, e, z) == z.schedule = IF e.kind = "schedule" THEN e.at ELSE s.schedule

\* It overwrites a row, and nothing else, or inserts one of a new id.
Overwrites(s, e, y, z) ==
    /\ y \in Targets(s, e)
    /\ z = [s EXCEPT !.counters = z.counters, !.triggers = z.triggers, !.reports = z.reports,
                     !.actions = z.actions, !.schedule = z.schedule]
Inserts(s, e, y) ==
    /\ Targets(s, e) = {}
    /\ e.kind = "counter" => y \notin DOMAIN s.counters
    /\ e.kind = "trigger" => y \in Nat /\ \A t \in DOMAIN s.triggers : t < y
    /\ e.kind = "report" => y \in Nat /\ \A r \in DOMAIN s.reports : r < y
    /\ e.kind = "action" => y \in Nat /\ \A a \in DOMAIN s.actions : a < y
Statement(s, e, y, z) ==
    /\ CountersWith(s, e, y, z) /\ TriggersWith(s, e, y, z) /\ ReportsWith(s, e, y, z)
    /\ ActionsWith(s, e, y, z) /\ ScheduleWith(s, e, z)
    /\ Overwrites(s, e, y, z) \/ Inserts(s, e, y)

\* An entry has one row at most.
LEMMA OneTarget ==
    ASSUME NEW s, IsStore(s), UniqueCids(s), NEW e, NEW x \in Targets(s, e), NEW y \in Targets(s, e)
    PROVE x = y
<1>1. /\ DOMAIN s.triggers \subseteq Nat /\ DOMAIN s.reports \subseteq Nat /\ DOMAIN s.actions \subseteq Nat
  BY DEF IsStore, IsTable
<1>2. CASE e.kind = "counter"
  BY <1>2 DEF Targets, UniqueCids
<1>3. CASE e.kind = "trigger"
  <2>1. /\ x \in Nat /\ y \in Nat /\ s.triggers[x].counter = s.triggers[y].counter
        /\ x \in FirstNamed(s.triggers, TriggersOf(s, s.triggers[x].counter), e.name)
        /\ y \in FirstNamed(s.triggers, TriggersOf(s, s.triggers[y].counter), e.name)
    BY <1>1, <1>3 DEF Targets, UniqueCids
  <2>2. x <= y /\ y <= x
    BY <2>1 DEF FirstNamed
  <2> QED BY <2>1, <2>2
<1>4. CASE e.kind = "report"
  <2>1. /\ x \in Nat /\ y \in Nat /\ s.reports[x].counter = s.reports[y].counter
        /\ x \in FirstNamed(s.reports, ReportsOf(s, s.reports[x].counter), e.name)
        /\ y \in FirstNamed(s.reports, ReportsOf(s, s.reports[y].counter), e.name)
    BY <1>1, <1>4 DEF Targets, UniqueCids
  <2>2. x <= y /\ y <= x
    BY <2>1 DEF FirstNamed
  <2> QED BY <2>1, <2>2
<1>5. CASE e.kind = "action"
  <2>1. x \in Nat /\ y \in Nat /\ x <= y /\ y <= x
    BY <1>1, <1>5 DEF Targets
  <2> QED BY <2>1
<1>6. CASE e.kind = "schedule"
  BY <1>6 DEF Targets
<1> QED BY <1>2, <1>3, <1>4, <1>5, <1>6 DEF Targets

LEMMA MergeCounter ==
    ASSUME IInv, tx # NoTx, ~tx.replace, ImportCounter
    PROVE \E y, z : Applied(z) /\ Statement(tx.store, tx.file[tx.at], y, z)
<1> DEFINE s == tx.store
           e == tx.file[tx.at]
<1>1. IsStore(s) /\ UniqueCids(s)
  BY DEF IInv, Copy, Sound
<1>2. e.kind = "counter"
  BY DEF ImportCounter, At
<1>3. ASSUME CidFree(s, e.cid), Applied(CreateCounter(s, e.cid, e.label, e.token))
      PROVE \E y, z : Applied(z) /\ Statement(s, e, y, z)
  <2> DEFINE z == CreateCounter(s, e.cid, e.label, e.token)
             y == s.lastCounter + 1
  <2>1. /\ z.counters = Put(s.counters, y, [cid |-> e.cid, label |-> e.label, token |-> e.token, cursor |-> FALSE])
        /\ z.triggers = s.triggers /\ z.reports = s.reports /\ z.actions = s.actions /\ z.schedule = s.schedule
    BY <1>1 DEF CreateCounter, IsStore
  <2>2. y \notin DOMAIN s.counters
    BY <1>1 DEF IsStore, IsTable
  <2>3. Targets(s, e) = {}
    BY <1>2, <1>3 DEF Targets, CidFree
  <2> HIDE DEF z, y
  <2>4. CountersWith(s, e, y, z)
    BY <1>2, <2>1, <2>2 DEF CountersWith, Put, Gives
  <2>5. Statement(s, e, y, z)
    BY <1>2, <2>1, <2>2, <2>3, <2>4
       DEF Statement, TriggersWith, ReportsWith, ActionsWith, ScheduleWith, Inserts
  <2> QED BY <1>3, <2>5 DEF z
<1>4. ASSUME NEW c \in DOMAIN s.counters, s.counters[c].cid = e.cid,
             Applied([s EXCEPT !.counters[c].label = e.label,
                               !.counters[c].token = IF e.token = NoToken THEN @ ELSE e.token])
      PROVE \E y, z : Applied(z) /\ Statement(s, e, y, z)
  <2> DEFINE token == IF e.token = NoToken THEN s.counters[c].token ELSE e.token
             z == [s EXCEPT !.counters[c].label = e.label, !.counters[c].token = token]
  <2>1. s.counters[c] \in CounterRow
    BY <1>1 DEF IsStore, IsTable
  <2>2. Applied(z)
    BY <1>1, <1>4, <2>1 DEF IsStore, CounterRow
  <2>3. c \in Targets(s, e)
    BY <1>2, <1>4 DEF Targets
  <2>4. Gives(e) => token = e.token
    BY DEF Gives
  <2>5. ~Gives(e) => token = s.counters[c].token
    BY <1>2 DEF Gives
  <2> HIDE DEF token
  <2>6. /\ z.triggers = s.triggers /\ z.reports = s.reports /\ z.actions = s.actions /\ z.schedule = s.schedule
        /\ DOMAIN z.counters = DOMAIN s.counters
        /\ \A d \in DOMAIN s.counters : d # c => z.counters[d] = s.counters[d]
        /\ z.counters[c].cid = e.cid /\ z.counters[c].label = e.label /\ z.counters[c].token = token
        /\ z.counters[c].cursor = s.counters[c].cursor
        /\ z = [s EXCEPT !.counters = z.counters]
    <3> DEFINE row == [s.counters[c] EXCEPT !.label = e.label, !.token = token]
               counters == [s.counters EXCEPT ![c] = row]
    <3>1. "counters" \in DOMAIN s
      BY <1>1 DEF IsStore
    <3>2. /\ row.cid = e.cid /\ row.label = e.label /\ row.token = token
          /\ row.cursor = s.counters[c].cursor
      BY <1>4, <2>1 DEF CounterRow
    <3>3. z = [s EXCEPT !.counters = counters]
      OBVIOUS
    <3> HIDE DEF row, z
    <3>4. DOMAIN counters = DOMAIN s.counters /\ counters[c] = row
          /\ \A d \in DOMAIN s.counters : d # c => counters[d] = s.counters[d]
      OBVIOUS
    <3> HIDE DEF counters
    <3>5. z.counters = counters
      BY <3>1, <3>3
    <3>6. z.triggers = s.triggers /\ z.reports = s.reports /\ z.actions = s.actions /\ z.schedule = s.schedule
      BY <1>1, <3>3 DEF IsStore
    <3> QED BY <3>2, <3>3, <3>4, <3>5, <3>6
  <2>7. z = [s EXCEPT !.counters = z.counters, !.triggers = z.triggers, !.reports = z.reports,
                      !.actions = z.actions, !.schedule = z.schedule]
    BY <1>1, <2>6 DEF IsStore
  <2> HIDE DEF z
  <2>8. CountersWith(s, e, c, z)
    BY <1>2, <2>4, <2>5, <2>6 DEF CountersWith
  <2>9. Statement(s, e, c, z)
    BY <1>2, <2>3, <2>6, <2>7, <2>8
       DEF Statement, TriggersWith, ReportsWith, ActionsWith, ScheduleWith, Overwrites
  <2> QED BY <2>2, <2>9
<1> QED BY <1>3, <1>4 DEF ImportCounter

LEMMA MergeTrigger ==
    ASSUME IInv, tx # NoTx, ~tx.replace, ImportTrigger
    PROVE \E y, z : Applied(z) /\ Statement(tx.store, tx.file[tx.at], y, z)
<1> DEFINE s == tx.store
           e == tx.file[tx.at]
<1>1. IsStore(s) /\ UniqueCids(s)
  BY DEF IInv, Copy, Sound
<1>2. e.kind = "trigger"
  BY DEF ImportTrigger, At
<1>3. PICK c \in DOMAIN s.counters :
         /\ s.counters[c].cid = e.cid
         /\ \/ FirstNamed(s.triggers, TriggersOf(s, c), e.name) = {} /\ Applied(CreateTrigger(s, TriggerOf(c, e)))
            \/ \E t \in FirstNamed(s.triggers, TriggersOf(s, c), e.name) :
                  Applied([s EXCEPT !.triggers[t] = TriggerOf(c, e)])
  BY DEF ImportTrigger
<1> DEFINE row == TriggerOf(c, e)
<1>4. ASSUME FirstNamed(s.triggers, TriggersOf(s, c), e.name) = {}, Applied(CreateTrigger(s, row))
      PROVE \E y, z : Applied(z) /\ Statement(s, e, y, z)
  <2> DEFINE z == CreateTrigger(s, row)
             y == s.lastTrigger + 1
  <2>1. /\ z.triggers = Put(s.triggers, y, row)
        /\ z.counters = s.counters /\ z.reports = s.reports /\ z.actions = s.actions /\ z.schedule = s.schedule
    BY <1>1 DEF CreateTrigger, IsStore
  <2>2. y \in Nat /\ \A t \in DOMAIN s.triggers : t < y /\ t # y
    BY <1>1 DEF IsStore, IsTable
  <2>3. Targets(s, e) = {}
    BY <1>1, <1>2, <1>3, <1>4 DEF Targets, UniqueCids
  <2> HIDE DEF z, y
  <2>4. TriggersWith(s, e, y, z)
    BY <1>2, <1>3, <2>1, <2>2 DEF TriggersWith, Put
  <2>5. Statement(s, e, y, z)
    BY <1>2, <2>1, <2>2, <2>3, <2>4
       DEF Statement, CountersWith, ReportsWith, ActionsWith, ScheduleWith, Inserts
  <2> QED BY <1>4, <2>5 DEF z
<1>5. ASSUME NEW t \in FirstNamed(s.triggers, TriggersOf(s, c), e.name),
             Applied([s EXCEPT !.triggers[t] = row])
      PROVE \E y, z : Applied(z) /\ Statement(s, e, y, z)
  <2> DEFINE z == [s EXCEPT !.triggers[t] = row]
  <2>1. t \in DOMAIN s.triggers /\ s.triggers[t].counter = c
    BY DEF FirstNamed, TriggersOf
  <2>2. t \in Targets(s, e)
    BY <1>2, <1>3, <2>1 DEF Targets
  <2>3. /\ z.counters = s.counters /\ z.reports = s.reports /\ z.actions = s.actions /\ z.schedule = s.schedule
        /\ z.triggers = [s.triggers EXCEPT ![t] = row]
        /\ z = [s EXCEPT !.triggers = z.triggers]
    BY <1>1 DEF IsStore
  <2>4. z = [s EXCEPT !.counters = z.counters, !.triggers = z.triggers, !.reports = z.reports,
                      !.actions = z.actions, !.schedule = z.schedule]
    BY <1>1, <2>3 DEF IsStore
  <2> HIDE DEF z
  <2>5. TriggersWith(s, e, t, z)
    BY <1>2, <1>3, <2>1, <2>3 DEF TriggersWith
  <2>6. Statement(s, e, t, z)
    BY <1>2, <2>2, <2>3, <2>4, <2>5
       DEF Statement, CountersWith, ReportsWith, ActionsWith, ScheduleWith, Overwrites
  <2> QED BY <1>5, <2>6 DEF z
<1> QED BY <1>3, <1>4, <1>5
LEMMA MergeReport ==
    ASSUME IInv, tx # NoTx, ~tx.replace, ImportReport
    PROVE \E y, z : Applied(z) /\ Statement(tx.store, tx.file[tx.at], y, z)
<1> DEFINE s == tx.store
           e == tx.file[tx.at]
<1>1. IsStore(s) /\ UniqueCids(s)
  BY DEF IInv, Copy, Sound
<1>2. e.kind = "report"
  BY DEF ImportReport, At
<1>3. PICK c \in DOMAIN s.counters :
         /\ s.counters[c].cid = e.cid
         /\ \/ FirstNamed(s.reports, ReportsOf(s, c), e.name) = {} /\ Applied(CreateReport(s, ReportOf(c, e)))
            \/ \E r \in FirstNamed(s.reports, ReportsOf(s, c), e.name) :
                  Applied([s EXCEPT !.reports[r] = ReportOf(c, e)])
  BY DEF ImportReport
<1> DEFINE row == ReportOf(c, e)
<1>4. ASSUME FirstNamed(s.reports, ReportsOf(s, c), e.name) = {}, Applied(CreateReport(s, row))
      PROVE \E y, z : Applied(z) /\ Statement(s, e, y, z)
  <2> DEFINE z == CreateReport(s, row)
             y == s.lastReport + 1
  <2>1. /\ z.reports = Put(s.reports, y, row)
        /\ z.counters = s.counters /\ z.triggers = s.triggers /\ z.actions = s.actions /\ z.schedule = s.schedule
    BY <1>1 DEF CreateReport, IsStore
  <2>2. y \in Nat /\ \A r \in DOMAIN s.reports : r < y /\ r # y
    BY <1>1 DEF IsStore, IsTable
  <2>3. Targets(s, e) = {}
    BY <1>1, <1>2, <1>3, <1>4 DEF Targets, UniqueCids
  <2> HIDE DEF z, y
  <2>4. ReportsWith(s, e, y, z)
    BY <1>2, <1>3, <2>1, <2>2 DEF ReportsWith, Put
  <2>5. Statement(s, e, y, z)
    BY <1>2, <2>1, <2>2, <2>3, <2>4
       DEF Statement, CountersWith, TriggersWith, ActionsWith, ScheduleWith, Inserts
  <2> QED BY <1>4, <2>5 DEF z
<1>5. ASSUME NEW r \in FirstNamed(s.reports, ReportsOf(s, c), e.name),
             Applied([s EXCEPT !.reports[r] = row])
      PROVE \E y, z : Applied(z) /\ Statement(s, e, y, z)
  <2> DEFINE z == [s EXCEPT !.reports[r] = row]
  <2>1. r \in DOMAIN s.reports /\ s.reports[r].counter = c
    BY DEF FirstNamed, ReportsOf
  <2>2. r \in Targets(s, e)
    BY <1>2, <1>3, <2>1 DEF Targets
  <2>3. /\ z.counters = s.counters /\ z.triggers = s.triggers /\ z.actions = s.actions /\ z.schedule = s.schedule
        /\ z.reports = [s.reports EXCEPT ![r] = row]
        /\ z = [s EXCEPT !.reports = z.reports]
    BY <1>1 DEF IsStore
  <2>4. z = [s EXCEPT !.counters = z.counters, !.reports = z.reports, !.triggers = z.triggers,
                      !.actions = z.actions, !.schedule = z.schedule]
    BY <1>1, <2>3 DEF IsStore
  <2> HIDE DEF z
  <2>5. ReportsWith(s, e, r, z)
    BY <1>2, <1>3, <2>1, <2>3 DEF ReportsWith
  <2>6. Statement(s, e, r, z)
    BY <1>2, <2>2, <2>3, <2>4, <2>5
       DEF Statement, CountersWith, TriggersWith, ActionsWith, ScheduleWith, Overwrites
  <2> QED BY <1>5, <2>6 DEF z
<1> QED BY <1>3, <1>4, <1>5

LEMMA MergeAction ==
    ASSUME IInv, tx # NoTx, ~tx.replace, ImportAction \/ ImportSchedule
    PROVE \E y, z : Applied(z) /\ Statement(tx.store, tx.file[tx.at], y, z)
<1> DEFINE s == tx.store
           e == tx.file[tx.at]
<1>1. IsStore(s)
  BY DEF IInv, Copy, Sound
<1>2. ASSUME ImportAction, {a \in DOMAIN s.actions : s.actions[a].dest = e.dest} = {},
             Applied(CreateAlertAction(s, [dest |-> e.dest, label |-> e.label]))
      PROVE \E y, z : Applied(z) /\ Statement(s, e, y, z)
  <2> DEFINE row == [dest |-> e.dest, label |-> e.label]
             z == CreateAlertAction(s, row)
             y == s.lastAction + 1
  <2>1. /\ z.actions = Put(s.actions, y, row)
        /\ z.counters = s.counters /\ z.reports = s.reports /\ z.triggers = s.triggers /\ z.schedule = s.schedule
    BY <1>1 DEF CreateAlertAction, IsStore
  <2>2. y \in Nat /\ \A a \in DOMAIN s.actions : a < y /\ a # y
    BY <1>1 DEF IsStore, IsTable
  <2>3. e.kind = "action" /\ Targets(s, e) = {}
    BY <1>2 DEF ImportAction, At, Targets
  <2> HIDE DEF z, y
  <2>4. ActionsWith(s, e, y, z)
    BY <2>1, <2>2, <2>3 DEF ActionsWith, Put
  <2>5. Statement(s, e, y, z)
    BY <2>1, <2>2, <2>3, <2>4
       DEF Statement, CountersWith, TriggersWith, ReportsWith, ScheduleWith, Inserts
  <2> QED BY <1>2, <2>5 DEF z
<1>3. ASSUME ImportAction, NEW a \in {b \in DOMAIN s.actions : s.actions[b].dest = e.dest},
             \A b \in {b \in DOMAIN s.actions : s.actions[b].dest = e.dest} : a <= b,
             Applied([s EXCEPT !.actions[a].label = e.label])
      PROVE \E y, z : Applied(z) /\ Statement(s, e, y, z)
  <2> DEFINE z == [s EXCEPT !.actions[a].label = e.label]
  <2>1. e.kind = "action" /\ a \in DOMAIN s.actions /\ s.actions[a] \in ActionRow /\ s.actions[a].dest = e.dest
    BY <1>1, <1>3 DEF ImportAction, At, IsStore, IsTable
  <2>2. a \in Targets(s, e)
    BY <1>3, <2>1 DEF Targets
  <2>3. /\ z.counters = s.counters /\ z.reports = s.reports /\ z.triggers = s.triggers /\ z.schedule = s.schedule
        /\ DOMAIN z.actions = DOMAIN s.actions
        /\ \A b \in DOMAIN s.actions : b # a => z.actions[b] = s.actions[b]
        /\ z.actions[a] = [dest |-> e.dest, label |-> e.label]
        /\ z = [s EXCEPT !.actions = z.actions]
    BY <1>1, <2>1 DEF IsStore, ActionRow
  <2>4. z = [s EXCEPT !.counters = z.counters, !.triggers = z.triggers, !.reports = z.reports,
                      !.actions = z.actions, !.schedule = z.schedule]
    BY <1>1, <2>3 DEF IsStore
  <2> HIDE DEF z
  <2>5. ActionsWith(s, e, a, z)
    BY <2>1, <2>3 DEF ActionsWith
  <2>6. Statement(s, e, a, z)
    BY <2>1, <2>2, <2>3, <2>4, <2>5
       DEF Statement, CountersWith, TriggersWith, ReportsWith, ScheduleWith, Overwrites
  <2> QED BY <1>3, <2>6 DEF z
<1>4. ASSUME ImportSchedule PROVE \E y, z : Applied(z) /\ Statement(s, e, y, z)
  <2> DEFINE z == SetSetting(s, e.at)
  <2>1. e.kind = "schedule" /\ Applied(z)
    BY <1>4 DEF ImportSchedule, At
  <2>2. 0 \in Targets(s, e)
    BY <2>1 DEF Targets
  <2>3. /\ z.counters = s.counters /\ z.reports = s.reports /\ z.triggers = s.triggers /\ z.actions = s.actions
        /\ z.schedule = e.at /\ z = [s EXCEPT !.schedule = z.schedule]
    BY <1>1 DEF IsStore, SetSetting
  <2>4. z = [s EXCEPT !.counters = z.counters, !.triggers = z.triggers, !.reports = z.reports,
                      !.actions = z.actions, !.schedule = z.schedule]
    BY <1>1, <2>3 DEF IsStore
  <2> HIDE DEF z
  <2>5. Statement(s, e, 0, z)
    BY <2>1, <2>2, <2>3, <2>4
       DEF Statement, CountersWith, TriggersWith, ReportsWith, ActionsWith, ScheduleWith, Overwrites
  <2> QED BY <2>1, <2>5
<1>5. ASSUME ImportAction PROVE \E y, z : Applied(z) /\ Statement(s, e, y, z)
  BY <1>2, <1>3, <1>5 DEF ImportAction
<1> QED BY <1>4, <1>5

\* z has the rows of s under their names, and later ones.
Named(s, z) ==
    /\ \A c \in DOMAIN s.counters : c \in DOMAIN z.counters /\ z.counters[c].cid = s.counters[c].cid
    /\ \A t \in DOMAIN s.triggers :
          /\ t \in DOMAIN z.triggers
          /\ z.triggers[t].counter = s.triggers[t].counter /\ z.triggers[t].name = s.triggers[t].name
    /\ \A t \in DOMAIN z.triggers \ DOMAIN s.triggers : \A v \in DOMAIN s.triggers : v <= t
    /\ \A r \in DOMAIN s.reports :
          /\ r \in DOMAIN z.reports
          /\ z.reports[r].counter = s.reports[r].counter /\ z.reports[r].name = s.reports[r].name
    /\ \A r \in DOMAIN z.reports \ DOMAIN s.reports : \A v \in DOMAIN s.reports : v <= r
    /\ \A a \in DOMAIN s.actions : a \in DOMAIN z.actions /\ z.actions[a].dest = s.actions[a].dest
    /\ \A a \in DOMAIN z.actions \ DOMAIN s.actions : \A b \in DOMAIN s.actions : b <= a

\* An entry keeps its row.
LEMMA TargetsKept ==
    ASSUME NEW s, NEW z, Named(s, z), NEW d, NEW x \in Targets(s, d)
    PROVE x \in Targets(z, d)
<1>1. CASE d.kind = "counter"
  BY <1>1 DEF Targets, Named
<1>2. CASE d.kind = "trigger"
  <2> DEFINE c == s.triggers[x].counter
  <2>1. /\ x \in DOMAIN s.triggers /\ c \in DOMAIN s.counters /\ s.counters[c].cid = d.cid
        /\ s.triggers[x].name = d.name
        /\ \A j \in TriggersOf(s, c) : s.triggers[j].name = d.name => x <= j
    BY <1>2 DEF Targets, FirstNamed
  <2> HIDE DEF c
  <2>2. /\ x \in DOMAIN z.triggers /\ z.triggers[x].counter = c /\ z.triggers[x].name = d.name
        /\ c \in DOMAIN z.counters /\ z.counters[c].cid = d.cid
    BY <2>1 DEF Named, c
  <2>3. ASSUME NEW j \in TriggersOf(z, c), z.triggers[j].name = d.name PROVE x <= j
    BY <2>1, <2>3 DEF Named, TriggersOf
  <2> QED BY <1>2, <2>2, <2>3 DEF Targets, FirstNamed, TriggersOf
<1>3. CASE d.kind = "report"
  <2> DEFINE c == s.reports[x].counter
  <2>1. /\ x \in DOMAIN s.reports /\ c \in DOMAIN s.counters /\ s.counters[c].cid = d.cid
        /\ s.reports[x].name = d.name
        /\ \A j \in ReportsOf(s, c) : s.reports[j].name = d.name => x <= j
    BY <1>3 DEF Targets, FirstNamed
  <2> HIDE DEF c
  <2>2. /\ x \in DOMAIN z.reports /\ z.reports[x].counter = c /\ z.reports[x].name = d.name
        /\ c \in DOMAIN z.counters /\ z.counters[c].cid = d.cid
    BY <2>1 DEF Named, c
  <2>3. ASSUME NEW j \in ReportsOf(z, c), z.reports[j].name = d.name PROVE x <= j
    BY <2>1, <2>3 DEF Named, ReportsOf
  <2> QED BY <1>3, <2>2, <2>3 DEF Targets, FirstNamed, ReportsOf
<1>4. CASE d.kind = "action"
  <2>1. /\ x \in DOMAIN s.actions /\ s.actions[x].dest = d.dest
        /\ \A b \in DOMAIN s.actions : s.actions[b].dest = d.dest => x <= b
    BY <1>4 DEF Targets
  <2>2. \A b \in DOMAIN z.actions : z.actions[b].dest = d.dest => x <= b
    BY <2>1 DEF Named
  <2> QED BY <1>4, <2>1, <2>2 DEF Targets, Named
<1>5. CASE d.kind = "schedule"
  BY <1>5 DEF Targets
<1> QED BY <1>1, <1>2, <1>3, <1>4, <1>5 DEF Targets

LEMMA NamesKept ==
    ASSUME NEW s, IsStore(s), UniqueCids(s), NEW e, NEW y, NEW z, Statement(s, e, y, z)
    PROVE Named(s, z)
<1>1. /\ DOMAIN s.triggers \subseteq Nat /\ DOMAIN s.reports \subseteq Nat /\ DOMAIN s.actions \subseteq Nat
  BY DEF IsStore, IsTable
<1>2. /\ e.kind = "counter" /\ y \in DOMAIN s.counters => y \in Targets(s, e)
      /\ e.kind = "trigger" /\ y \in DOMAIN s.triggers => y \in Targets(s, e)
      /\ e.kind = "report" /\ y \in DOMAIN s.reports => y \in Targets(s, e)
      /\ e.kind = "action" /\ y \in DOMAIN s.actions => y \in Targets(s, e)
  BY <1>1 DEF Statement, Overwrites, Inserts
<1>3. \A c \in DOMAIN s.counters : c \in DOMAIN z.counters /\ z.counters[c].cid = s.counters[c].cid
  BY <1>2 DEF Statement, CountersWith, Targets
<1>4. \A t \in DOMAIN s.triggers :
         /\ t \in DOMAIN z.triggers
         /\ z.triggers[t].counter = s.triggers[t].counter /\ z.triggers[t].name = s.triggers[t].name
  <2> SUFFICES ASSUME NEW t \in DOMAIN s.triggers
               PROVE /\ t \in DOMAIN z.triggers
                     /\ z.triggers[t].counter = s.triggers[t].counter /\ z.triggers[t].name = s.triggers[t].name
    OBVIOUS
  <2>1. CASE e.kind = "trigger" /\ t = y
    <3>1. PICK c \in DOMAIN s.counters : s.counters[c].cid = e.cid /\ z.triggers[y] = TriggerOf(c, e)
      BY <2>1 DEF Statement, TriggersWith
    <3>2. /\ s.triggers[y].counter \in DOMAIN s.counters /\ s.counters[s.triggers[y].counter].cid = e.cid
          /\ s.triggers[y].name = e.name
      BY <1>2, <2>1 DEF Targets, FirstNamed
    <3>3. s.triggers[y].counter = c
      BY <3>1, <3>2 DEF UniqueCids
    <3> QED BY <2>1, <3>1, <3>2, <3>3 DEF Statement, TriggersWith, TriggerOf
  <2> QED BY <2>1 DEF Statement, TriggersWith
<1>5. \A r \in DOMAIN s.reports :
         /\ r \in DOMAIN z.reports
         /\ z.reports[r].counter = s.reports[r].counter /\ z.reports[r].name = s.reports[r].name
  <2> SUFFICES ASSUME NEW r \in DOMAIN s.reports
               PROVE /\ r \in DOMAIN z.reports
                     /\ z.reports[r].counter = s.reports[r].counter /\ z.reports[r].name = s.reports[r].name
    OBVIOUS
  <2>1. CASE e.kind = "report" /\ r = y
    <3>1. PICK c \in DOMAIN s.counters : s.counters[c].cid = e.cid /\ z.reports[y] = ReportOf(c, e)
      BY <2>1 DEF Statement, ReportsWith
    <3>2. /\ s.reports[y].counter \in DOMAIN s.counters /\ s.counters[s.reports[y].counter].cid = e.cid
          /\ s.reports[y].name = e.name
      BY <1>2, <2>1 DEF Targets, FirstNamed
    <3>3. s.reports[y].counter = c
      BY <3>1, <3>2 DEF UniqueCids
    <3> QED BY <2>1, <3>1, <3>2, <3>3 DEF Statement, ReportsWith, ReportOf
  <2> QED BY <2>1 DEF Statement, ReportsWith
<1>6. \A a \in DOMAIN s.actions : a \in DOMAIN z.actions /\ z.actions[a].dest = s.actions[a].dest
  BY <1>2 DEF Statement, ActionsWith, Targets
<1>7. \A t \in DOMAIN z.triggers \ DOMAIN s.triggers : \A v \in DOMAIN s.triggers : v <= t
  <2>1. \A t \in DOMAIN z.triggers \ DOMAIN s.triggers :
           e.kind = "trigger" /\ t = y /\ Inserts(s, e, y)
    BY DEF Statement, TriggersWith, Overwrites, Targets
  <2> QED BY <1>1, <2>1 DEF Inserts
<1>8. \A r \in DOMAIN z.reports \ DOMAIN s.reports : \A v \in DOMAIN s.reports : v <= r
  <2>1. \A r \in DOMAIN z.reports \ DOMAIN s.reports :
           e.kind = "report" /\ r = y /\ Inserts(s, e, y)
    BY DEF Statement, ReportsWith, Overwrites, Targets
  <2> QED BY <1>1, <2>1 DEF Inserts
<1>9. \A a \in DOMAIN z.actions \ DOMAIN s.actions : \A b \in DOMAIN s.actions : b <= a
  <2>1. \A a \in DOMAIN z.actions \ DOMAIN s.actions :
           e.kind = "action" /\ a = y /\ Inserts(s, e, y)
    BY DEF Statement, ActionsWith, Overwrites, Targets
  <2> QED BY <1>1, <2>1 DEF Inserts
<1> QED BY <1>3, <1>4, <1>5, <1>6, <1>7, <1>8, <1>9 DEF Named

\* The row that was written is the entry's, and says what it does.
LEMMA RowWritten ==
    ASSUME NEW s, IsStore(s), UniqueCids(s), NEW e \in Entry, NEW y, NEW z, Statement(s, e, y, z)
    PROVE /\ y \in Targets(z, e) /\ Agrees(z, e, y)
          /\ Gives(e) => z.counters[y].token = e.token
<1>1. Named(s, z)
  BY NamesKept
<1>2. /\ DOMAIN s.triggers \subseteq Nat /\ DOMAIN s.reports \subseteq Nat /\ DOMAIN s.actions \subseteq Nat
  BY DEF IsStore, IsTable
<1>3. e.kind \in {"counter", "trigger", "report", "action", "schedule"}
  BY DEF Entry
<1>4. Agrees(z, e, y) /\ (Gives(e) => z.counters[y].token = e.token)
  <2>1. CASE e.kind = "counter"
    BY <2>1 DEF Agrees, Statement, CountersWith
  <2>2. CASE e.kind = "trigger"
    <3>1. PICK c : z.triggers[y] = TriggerOf(c, e)
      BY <2>2 DEF Statement, TriggersWith
    <3>2. z.triggers[y].counter = c
      BY <3>1 DEF TriggerOf
    <3> QED BY <2>2, <3>1, <3>2 DEF Agrees, Gives
  <2>3. CASE e.kind = "report"
    <3>1. PICK c : z.reports[y] = ReportOf(c, e)
      BY <2>3 DEF Statement, ReportsWith
    <3>2. z.reports[y].counter = c
      BY <3>1 DEF ReportOf
    <3> QED BY <2>3, <3>1, <3>2 DEF Agrees, Gives
  <2>4. CASE e.kind = "action"
    BY <2>4 DEF Agrees, Gives, Statement, ActionsWith
  <2>5. CASE e.kind = "schedule"
    BY <2>5 DEF Agrees, Gives, Statement, ScheduleWith
  <2> QED BY <1>3, <2>1, <2>2, <2>3, <2>4, <2>5
<1> SUFFICES y \in Targets(z, e)
  BY <1>4
<1>5. CASE y \in Targets(s, e)
  BY <1>1, <1>5, TargetsKept
<1>6. CASE Inserts(s, e, y)
  <2>1. CASE e.kind = "counter"
    BY <2>1 DEF Statement, CountersWith, Targets
  <2>2. CASE e.kind = "trigger"
    <3>1. PICK c \in DOMAIN s.counters : s.counters[c].cid = e.cid /\ z.triggers[y] = TriggerOf(c, e)
      BY <2>2 DEF Statement, TriggersWith
    <3> DEFINE N == {t \in TriggersOf(s, c) : s.triggers[t].name = e.name}
    <3>2. N = {}
      <4> SUFFICES ASSUME N # {} PROVE FALSE
        OBVIOUS
      <4>1. N \subseteq Nat
        BY <1>2 DEF TriggersOf
      <4>2. Least(N) \in N /\ \A j \in N : Least(N) <= j
        BY <4>1, LeastId
      <4> DEFINE t == Least(N)
      <4> HIDE DEF t
      <4>3. t \in TriggersOf(s, c) /\ s.triggers[t].name = e.name
            /\ \A j \in TriggersOf(s, c) : s.triggers[j].name = e.name => t <= j
        BY <4>2 DEF t
      <4>4. t \in Targets(s, e)
        BY <2>2, <3>1, <4>3 DEF Targets, FirstNamed, TriggersOf
      <4> QED BY <1>6, <4>4 DEF Inserts
    <3>3. z.counters = s.counters /\ DOMAIN z.triggers = DOMAIN s.triggers \union {y}
          /\ \A t \in DOMAIN s.triggers : t # y => z.triggers[t] = s.triggers[t]
      BY <2>2 DEF Statement, CountersWith, TriggersWith
    <3>4. \A j \in TriggersOf(z, c) : z.triggers[j].name = e.name => j = y
      BY <3>2, <3>3 DEF TriggersOf
    <3>5. y \in Nat /\ z.triggers[y].counter = c /\ z.triggers[y].name = e.name
      BY <1>6, <2>2, <3>1 DEF Inserts, TriggerOf
    <3>6. y \in FirstNamed(z.triggers, TriggersOf(z, c), e.name)
      BY <3>3, <3>4, <3>5 DEF FirstNamed, TriggersOf
    <3> QED BY <2>2, <3>1, <3>3, <3>5, <3>6 DEF Targets
  <2>3. CASE e.kind = "report"
    <3>1. PICK c \in DOMAIN s.counters : s.counters[c].cid = e.cid /\ z.reports[y] = ReportOf(c, e)
      BY <2>3 DEF Statement, ReportsWith
    <3> DEFINE N == {r \in ReportsOf(s, c) : s.reports[r].name = e.name}
    <3>2. N = {}
      <4> SUFFICES ASSUME N # {} PROVE FALSE
        OBVIOUS
      <4>1. N \subseteq Nat
        BY <1>2 DEF ReportsOf
      <4>2. Least(N) \in N /\ \A j \in N : Least(N) <= j
        BY <4>1, LeastId
      <4> DEFINE r == Least(N)
      <4> HIDE DEF r
      <4>3. r \in ReportsOf(s, c) /\ s.reports[r].name = e.name
            /\ \A j \in ReportsOf(s, c) : s.reports[j].name = e.name => r <= j
        BY <4>2 DEF r
      <4>4. r \in Targets(s, e)
        BY <2>3, <3>1, <4>3 DEF Targets, FirstNamed, ReportsOf
      <4> QED BY <1>6, <4>4 DEF Inserts
    <3>3. z.counters = s.counters /\ DOMAIN z.reports = DOMAIN s.reports \union {y}
          /\ \A r \in DOMAIN s.reports : r # y => z.reports[r] = s.reports[r]
      BY <2>3 DEF Statement, CountersWith, ReportsWith
    <3>4. \A j \in ReportsOf(z, c) : z.reports[j].name = e.name => j = y
      BY <3>2, <3>3 DEF ReportsOf
    <3>5. y \in Nat /\ z.reports[y].counter = c /\ z.reports[y].name = e.name
      BY <1>6, <2>3, <3>1 DEF Inserts, ReportOf
    <3>6. y \in FirstNamed(z.reports, ReportsOf(z, c), e.name)
      BY <3>3, <3>4, <3>5 DEF FirstNamed, ReportsOf
    <3> QED BY <2>3, <3>1, <3>3, <3>5, <3>6 DEF Targets
  <2>4. CASE e.kind = "action"
    <3> DEFINE N == {a \in DOMAIN s.actions : s.actions[a].dest = e.dest}
    <3>1. N = {}
      <4> SUFFICES ASSUME N # {} PROVE FALSE
        OBVIOUS
      <4>1. N \subseteq Nat
        BY <1>2
      <4>2. Least(N) \in N /\ \A j \in N : Least(N) <= j
        BY <4>1, LeastId
      <4>3. Least(N) \in Targets(s, e)
        BY <2>4, <4>2 DEF Targets
      <4> QED BY <1>6, <4>3 DEF Inserts
    <3>2. /\ DOMAIN z.actions = DOMAIN s.actions \union {y}
          /\ \A a \in DOMAIN s.actions : a # y => z.actions[a] = s.actions[a]
          /\ z.actions[y].dest = e.dest /\ y \in Nat
      BY <1>6, <2>4 DEF Statement, ActionsWith, Inserts
    <3>3. \A b \in DOMAIN z.actions : z.actions[b].dest = e.dest => b = y
      BY <3>1, <3>2
    <3> QED BY <2>4, <3>2, <3>3 DEF Targets
  <2>5. CASE e.kind = "schedule"
    BY <1>6, <2>5 DEF Inserts, Targets
  <2> QED BY <1>3, <2>1, <2>2, <2>3, <2>4, <2>5
<1> QED BY <1>5, <1>6 DEF Statement, Overwrites

\* Other rows say what they said.
LEMMA OthersKept ==
    ASSUME NEW s, NEW e, NEW y, NEW z, Statement(s, e, y, z), NEW d, NEW x \in Targets(s, d)
    PROVE /\ Agrees(s, d, x) => Agrees(z, d, x) \/ (d.kind = e.kind /\ x = y)
          /\ d.kind = "counter" => z.counters[x].token = s.counters[x].token \/ (Gives(e) /\ x = y)
<1>1. CASE d.kind = "counter"
  BY <1>1 DEF Targets, Agrees, Statement, CountersWith, Gives
<1>2. CASE d.kind = "trigger"
  BY <1>2 DEF Targets, Agrees, Statement, TriggersWith
<1>3. CASE d.kind = "report"
  BY <1>3 DEF Targets, Agrees, Statement, ReportsWith
<1>4. CASE d.kind = "action"
  BY <1>4 DEF Targets, Agrees, Statement, ActionsWith
<1>5. CASE d.kind = "schedule"
  <2>1. x = 0 /\ (e.kind = "schedule" => y = 0)
    BY <1>5 DEF Targets, Statement, Overwrites, Inserts
  <2> QED BY <1>5, <2>1 DEF Agrees, Statement, ScheduleWith
<1> QED BY <1>1, <1>2, <1>3, <1>4, <1>5 DEF Targets

LEMMA MergedGoesOn ==
    ASSUME NEW s, IsStore(s), UniqueCids(s), NEW f, NEW m \in Nat, DOMAIN f = 1..m, NEW k \in 1..m,
           f[k] \in Entry, Merged(s, f, k), NEW y, NEW z, Statement(s, f[k], y, z)
    PROVE Merged(z, f, k + 1)
<1>1. /\ y \in Targets(z, f[k]) /\ Agrees(z, f[k], y)
      /\ Gives(f[k]) => z.counters[y].token = f[k].token
  BY RowWritten
<1>2. \A d : \A x \in Targets(s, d) :
         /\ x \in Targets(z, d)
         /\ Agrees(s, d, x) => Agrees(z, d, x) \/ (d.kind = f[k].kind /\ x = y)
         /\ d.kind = "counter" => z.counters[x].token = s.counters[x].token \/ (Gives(f[k]) /\ x = y)
  BY OthersKept, NamesKept, TargetsKept
<1> DEFINE Later(w, i, kk, x) ==
             \E j \in DOMAIN f : i < j /\ j < kk /\ f[j].kind = f[i].kind /\ x \in Targets(w, f[j])
           Giver(w, i, kk, x) ==
             \E j \in DOMAIN f : i < j /\ j < kk /\ Gives(f[j]) /\ x \in Targets(w, f[j])
<1>3. ASSUME NEW i \in DOMAIN f, i < k + 1
      PROVE \E x \in Targets(z, f[i]) :
               /\ Agrees(z, f[i], x) \/ Later(z, i, k + 1, x)
               /\ Gives(f[i]) => z.counters[x].token = f[i].token \/ Giver(z, i, k + 1, x)
  <2>1. CASE i = k
    BY <1>1, <2>1
  <2>2. CASE i < k
    <3>1. PICK x \in Targets(s, f[i]) :
             /\ Agrees(s, f[i], x) \/ Later(s, i, k, x)
             /\ Gives(f[i]) => s.counters[x].token = f[i].token \/ Giver(s, i, k, x)
      BY <2>2 DEF Merged
    <3>2. Later(s, i, k, x) => Later(z, i, k + 1, x)
      BY <1>2
    <3>3. Giver(s, i, k, x) => Giver(z, i, k + 1, x)
      BY <1>2
    <3>4. f[k].kind = f[i].kind /\ x = y => Later(z, i, k + 1, x)
      BY <1>1, <2>2
    <3>5. Gives(f[k]) /\ x = y => Giver(z, i, k + 1, x)
      BY <1>1, <2>2
    <3>6. Gives(f[i]) => f[i].kind = "counter"
      BY DEF Gives
    <3> HIDE DEF Later, Giver
    <3> QED BY <1>2, <3>1, <3>2, <3>3, <3>4, <3>5, <3>6
  <2> QED BY <1>3, <2>1, <2>2
<1> QED BY <1>3 DEF Merged

\* While a copy is only overlaid its entries have the rows they have in b.
LEMMA OverlaidTargets ==
    ASSUME NEW s, NEW b, NEW f, NEW k, Overlaid(s, b, f, k), NEW d
    PROVE Targets(s, d) = Targets(b, d)
<1>1. Named(s, b) /\ Named(b, s)
  BY DEF Overlaid, Named
<1> QED BY <1>1, TargetsKept

LEMMA OverlaidSelf ==
    ASSUME NEW b, IsStore(b), NEW f, NEW k
    PROVE Overlaid(b, b, f, k)
<1>1. b = [b EXCEPT !.counters = b.counters, !.triggers = b.triggers, !.reports = b.reports,
                    !.actions = b.actions, !.schedule = b.schedule]
  BY DEF IsStore, IsRecord
<1> QED BY <1>1 DEF Overlaid

LEMMA OverlaidGoesOn ==
    ASSUME NEW b, IsStore(b), UniqueCids(b), NEW s, IsStore(s), UniqueCids(s),
           NEW f, NEW m \in Nat, DOMAIN f = 1..m, NEW k \in 1..m, f[k] \in Entry,
           \A i, j \in DOMAIN f : f[i].kind = "schedule" /\ f[j].kind = "schedule" => i = j,
           Merged(b, f, m + 1), Overlaid(s, b, f, k), NEW y, NEW z, Statement(s, f[k], y, z)
    PROVE Overlaid(z, b, f, k + 1)
<1> DEFINE e == f[k]
           Giver(kk, x) == \E i \in DOMAIN f : i >= kk /\ Gives(f[i]) /\ x \in Targets(b, f[i])
<1>1. PICK x \in Targets(b, e) :
         /\ Agrees(b, e, x) \/ \E j \in DOMAIN f : k < j /\ f[j].kind = e.kind /\ x \in Targets(b, f[j])
         /\ Gives(e) => \/ b.counters[x].token = e.token
                        \/ \E j \in DOMAIN f : k < j /\ Gives(f[j]) /\ x \in Targets(b, f[j])
  BY DEF Merged
<1>2. Targets(s, e) = Targets(b, e)
  BY OverlaidTargets
<1>3. Overwrites(s, e, y, z) /\ y = x /\ y \in Targets(b, e)
  BY <1>1, <1>2, OneTarget DEF Statement, Overwrites, Inserts
<1>4. Agrees(b, e, y) \/ Ahead(b, f, k + 1, e.kind, y)
  BY <1>1, <1>3 DEF Ahead
<1>5. Gives(e) => b.counters[y].token = e.token \/ Giver(k + 1, y)
  BY <1>1, <1>3
<1>6. \A kind, v : Ahead(b, f, k, kind, v) => Ahead(b, f, k + 1, kind, v) \/ (e.kind = kind /\ v = y)
  <2> SUFFICES ASSUME NEW kind, NEW v, NEW i \in DOMAIN f, i >= k, f[i].kind = kind, v \in Targets(b, f[i])
               PROVE Ahead(b, f, k + 1, kind, v) \/ (e.kind = kind /\ v = y)
    BY DEF Ahead
  <2>1. CASE i = k
    BY <1>3, <2>1, OneTarget
  <2>2. CASE i # k
    BY <2>2 DEF Ahead
  <2> QED BY <2>1, <2>2
<1>7. \A v : Giver(k, v) => Giver(k + 1, v) \/ (Gives(e) /\ v = y)
  <2> SUFFICES ASSUME NEW v, NEW i \in DOMAIN f, i >= k, Gives(f[i]), v \in Targets(b, f[i])
               PROVE Giver(k + 1, v) \/ (Gives(e) /\ v = y)
    OBVIOUS
  <2>1. CASE i = k
    BY <1>3, <2>1, OneTarget
  <2>2. CASE i # k
    BY <2>2
  <2> QED BY <2>1, <2>2
<1>8. Named(s, z) /\ e.kind \in {"counter", "trigger", "report", "action", "schedule"}
  BY NamesKept DEF Entry
<1> HIDE DEF e, Giver
<1>9. z = [b EXCEPT !.counters = z.counters, !.triggers = z.triggers, !.reports = z.reports,
                    !.actions = z.actions, !.schedule = z.schedule]
  BY <1>3 DEF Overlaid, Overwrites, IsStore
<1>10. /\ DOMAIN z.counters = DOMAIN b.counters
       /\ \A c \in DOMAIN b.counters :
             /\ z.counters[c].cid = b.counters[c].cid /\ z.counters[c].cursor = b.counters[c].cursor
             /\ z.counters[c].label = b.counters[c].label \/ Ahead(b, f, k + 1, "counter", c)
             /\ z.counters[c].token = b.counters[c].token \/ Giver(k + 1, c)
  <2>1. /\ DOMAIN s.counters = DOMAIN b.counters
        /\ \A c \in DOMAIN b.counters :
              /\ s.counters[c].cid = b.counters[c].cid /\ s.counters[c].cursor = b.counters[c].cursor
              /\ s.counters[c].label = b.counters[c].label \/ Ahead(b, f, k, "counter", c)
              /\ s.counters[c].token = b.counters[c].token \/ Giver(k, c)
    BY DEF Overlaid, Giver
  <2>2. CASE e.kind = "counter"
    <3>1. y \in DOMAIN b.counters /\ b.counters[y].cid = e.cid
      BY <1>3, <2>2 DEF Targets
    <3>2. /\ DOMAIN z.counters = DOMAIN s.counters \union {y}
          /\ \A c \in DOMAIN s.counters : c # y => z.counters[c] = s.counters[c]
          /\ z.counters[y].cid = e.cid /\ z.counters[y].label = e.label
          /\ Gives(e) => z.counters[y].token = e.token
          /\ z.counters[y].cursor = s.counters[y].cursor
          /\ ~Gives(e) => z.counters[y].token = s.counters[y].token
      BY <2>1, <2>2, <3>1 DEF Statement, CountersWith, e
    <3>3. e.label = b.counters[y].label \/ Ahead(b, f, k + 1, "counter", y)
      BY <1>4, <2>2 DEF Agrees
    <3>4. z.counters[y].token = b.counters[y].token \/ Giver(k + 1, y)
      BY <1>5, <1>7, <2>1, <3>1, <3>2
    <3>5. ASSUME NEW c \in DOMAIN b.counters, c # y
          PROVE /\ z.counters[c].cid = b.counters[c].cid /\ z.counters[c].cursor = b.counters[c].cursor
                /\ z.counters[c].label = b.counters[c].label \/ Ahead(b, f, k + 1, "counter", c)
                /\ z.counters[c].token = b.counters[c].token \/ Giver(k + 1, c)
      BY <1>6, <1>7, <2>1, <3>2, <3>5
    <3> QED BY <2>1, <3>1, <3>2, <3>3, <3>4, <3>5
  <2>3. CASE e.kind # "counter"
    <3>1. z.counters = s.counters /\ ~Gives(e)
      BY <2>3 DEF Statement, CountersWith, Gives, e
    <3> QED BY <1>6, <1>7, <2>1, <2>3, <3>1
  <2> QED BY <2>2, <2>3
<1>11. /\ DOMAIN z.triggers = DOMAIN b.triggers
       /\ \A t \in DOMAIN b.triggers :
             /\ z.triggers[t].counter = b.triggers[t].counter /\ z.triggers[t].name = b.triggers[t].name
             /\ z.triggers[t] = b.triggers[t] \/ Ahead(b, f, k + 1, "trigger", t)
  <2>1. /\ DOMAIN s.triggers = DOMAIN b.triggers
        /\ \A t \in DOMAIN b.triggers :
              /\ z.triggers[t].counter = b.triggers[t].counter /\ z.triggers[t].name = b.triggers[t].name
              /\ s.triggers[t] = b.triggers[t] \/ Ahead(b, f, k, "trigger", t)
    BY <1>8 DEF Overlaid, Named
  <2>2. CASE e.kind = "trigger"
    <3>1. y \in DOMAIN b.triggers
      BY <1>3, <2>2 DEF Targets
    <3>2. PICK c : /\ DOMAIN z.triggers = DOMAIN s.triggers \union {y}
                   /\ \A t \in DOMAIN s.triggers : t # y => z.triggers[t] = s.triggers[t]
                   /\ z.triggers[y] = TriggerOf(c, e)
      BY <2>2 DEF Statement, TriggersWith, e
    <3>3. z.triggers[y].counter = c
      BY <3>2 DEF TriggerOf
    <3>4. z.triggers[y] = b.triggers[y] \/ Ahead(b, f, k + 1, "trigger", y)
      BY <1>4, <2>1, <2>2, <3>1, <3>2, <3>3 DEF Agrees
    <3> QED BY <1>6, <2>1, <2>2, <3>1, <3>2, <3>4
  <2>3. CASE e.kind # "trigger"
    <3>1. z.triggers = s.triggers
      BY <2>3 DEF Statement, TriggersWith, e
    <3> QED BY <1>6, <2>1, <2>3, <3>1
  <2> QED BY <2>2, <2>3
<1>12. /\ DOMAIN z.reports = DOMAIN b.reports
       /\ \A r \in DOMAIN b.reports :
             /\ z.reports[r].counter = b.reports[r].counter /\ z.reports[r].name = b.reports[r].name
             /\ z.reports[r] = b.reports[r] \/ Ahead(b, f, k + 1, "report", r)
  <2>1. /\ DOMAIN s.reports = DOMAIN b.reports
        /\ \A r \in DOMAIN b.reports :
              /\ z.reports[r].counter = b.reports[r].counter /\ z.reports[r].name = b.reports[r].name
              /\ s.reports[r] = b.reports[r] \/ Ahead(b, f, k, "report", r)
    BY <1>8 DEF Overlaid, Named
  <2>2. CASE e.kind = "report"
    <3>1. y \in DOMAIN b.reports
      BY <1>3, <2>2 DEF Targets
    <3>2. PICK c : /\ DOMAIN z.reports = DOMAIN s.reports \union {y}
                   /\ \A r \in DOMAIN s.reports : r # y => z.reports[r] = s.reports[r]
                   /\ z.reports[y] = ReportOf(c, e)
      BY <2>2 DEF Statement, ReportsWith, e
    <3>3. z.reports[y].counter = c
      BY <3>2 DEF ReportOf
    <3>4. z.reports[y] = b.reports[y] \/ Ahead(b, f, k + 1, "report", y)
      BY <1>4, <2>1, <2>2, <3>1, <3>2, <3>3 DEF Agrees
    <3> QED BY <1>6, <2>1, <2>2, <3>1, <3>2, <3>4
  <2>3. CASE e.kind # "report"
    <3>1. z.reports = s.reports
      BY <2>3 DEF Statement, ReportsWith, e
    <3> QED BY <1>6, <2>1, <2>3, <3>1
  <2> QED BY <2>2, <2>3
<1>13. /\ DOMAIN z.actions = DOMAIN b.actions
       /\ \A a \in DOMAIN b.actions :
             /\ z.actions[a].dest = b.actions[a].dest
             /\ z.actions[a] = b.actions[a] \/ Ahead(b, f, k + 1, "action", a)
  <2>1. /\ DOMAIN s.actions = DOMAIN b.actions
        /\ \A a \in DOMAIN b.actions :
              /\ z.actions[a].dest = b.actions[a].dest
              /\ s.actions[a] = b.actions[a] \/ Ahead(b, f, k, "action", a)
    BY <1>8 DEF Overlaid, Named
  <2>2. CASE e.kind = "action"
    <3>1. y \in DOMAIN b.actions /\ b.actions[y].dest = e.dest /\ b.actions[y] \in ActionRow
      BY <1>3, <2>2 DEF Targets, IsStore, IsTable
    <3>2. /\ DOMAIN z.actions = DOMAIN s.actions \union {y}
          /\ \A a \in DOMAIN s.actions : a # y => z.actions[a] = s.actions[a]
          /\ z.actions[y] = [dest |-> e.dest, label |-> e.label]
      BY <2>2 DEF Statement, ActionsWith, e
    <3>3. z.actions[y] = b.actions[y] \/ Ahead(b, f, k + 1, "action", y)
      BY <1>4, <2>2, <3>1, <3>2 DEF Agrees, ActionRow
    <3> QED BY <1>6, <2>1, <2>2, <3>1, <3>2, <3>3
  <2>3. CASE e.kind # "action"
    <3>1. z.actions = s.actions
      BY <2>3 DEF Statement, ActionsWith, e
    <3> QED BY <1>6, <2>1, <2>3, <3>1
  <2> QED BY <2>2, <2>3
<1>14. z.schedule = b.schedule
  <2>1. CASE e.kind = "schedule"
    <3>1. ~Ahead(b, f, k + 1, "schedule", y)
      BY <2>1 DEF Ahead, e
    <3> QED BY <1>4, <2>1, <3>1 DEF Agrees, Statement, ScheduleWith, e
  <2>2. CASE e.kind # "schedule"
    BY <2>2 DEF Statement, ScheduleWith, Overlaid, e
  <2> QED BY <2>1, <2>2
<1> QED BY <1>9, <1>10, <1>11, <1>12, <1>13, <1>14 DEF Overlaid, Giver

\* At the end of the file the copy is b again.
LEMMA OverlaidWhole ==
    ASSUME NEW b, IsStore(b), NEW s, IsStore(s), NEW f, NEW m \in Nat, DOMAIN f = 1..m,
           NEW k \in Nat, k > m, Overlaid(s, b, f, k)
    PROVE s = b
<1>1. \A i \in DOMAIN f : ~(i >= k)
  OBVIOUS
<1>2. \A kind, x : ~Ahead(b, f, k, kind, x)
  BY <1>1 DEF Ahead
<1>3. s.counters = b.counters
  <2>1. /\ s.counters \in [DOMAIN b.counters -> CounterRow]
        /\ b.counters \in [DOMAIN b.counters -> CounterRow]
    BY DEF IsStore, IsTable, Overlaid
  <2>2. \A c \in DOMAIN b.counters :
           /\ s.counters[c].cid = b.counters[c].cid /\ s.counters[c].cursor = b.counters[c].cursor
           /\ s.counters[c].label = b.counters[c].label /\ s.counters[c].token = b.counters[c].token
    BY <1>1, <1>2 DEF Overlaid
  <2>3. ASSUME NEW c \in DOMAIN b.counters PROVE s.counters[c] = b.counters[c]
    <3>1. s.counters[c] \in CounterRow /\ b.counters[c] \in CounterRow
      BY <2>1
    <3> QED BY <2>2, <3>1 DEF CounterRow
  <2> QED BY <2>1, <2>3
<1>4. s.triggers = b.triggers
  BY <1>2 DEF Overlaid, IsStore, IsTable
<1>5. s.reports = b.reports
  BY <1>2 DEF Overlaid, IsStore, IsTable
<1>6. s.actions = b.actions
  BY <1>2 DEF Overlaid, IsStore, IsTable
<1>7. s.schedule = b.schedule
  BY DEF Overlaid
<1>8. b = [b EXCEPT !.counters = b.counters, !.triggers = b.triggers, !.reports = b.reports,
                    !.actions = b.actions, !.schedule = b.schedule]
  BY DEF IsStore, IsRecord
<1> QED BY <1>3, <1>4, <1>5, <1>6, <1>7, <1>8 DEF Overlaid

\* An entry that an export of b has is in b, and says what its row does.
LEMMA OwnRow ==
    ASSUME NEW b, IsStore(b), UniqueCids(b), Distinct(b), NEW e \in Entry,
           \/ InStore(b, e) = 1
           \/ e.kind = "counter" /\ e.token = NoToken
              /\ \E c \in DOMAIN b.counters : CounterEntry(b.counters[c], TRUE) = e
    PROVE \E x \in Targets(b, e) :
             Agrees(b, e, x) /\ (Gives(e) => b.counters[x].token = e.token)
<1> DEFINE C == {c \in DOMAIN b.counters : CounterEntry(b.counters[c], FALSE) = e}
           T == {t \in DOMAIN b.triggers : b.triggers[t].counter \in DOMAIN b.counters
                    /\ TriggerEntry(b.counters[b.triggers[t].counter].cid, b.triggers[t]) = e}
           R == {r \in DOMAIN b.reports : b.reports[r].counter \in DOMAIN b.counters
                    /\ ReportEntry(b.counters[b.reports[r].counter].cid, b.reports[r]) = e}
           A == {a \in DOMAIN b.actions : ActionEntry(b.actions[a]) = e}
           S == b.schedule # Unset /\ ScheduleEntry(b.schedule) = e
<1>1. InStore(b, e) = 1 => C # {} \/ T # {} \/ R # {} \/ A # {} \/ S
  <2> SUFFICES ASSUME C = {}, T = {}, R = {}, A = {}, ~S PROVE InStore(b, e) # 1
    OBVIOUS
  <2>1. Cardinality({}) = 0
    BY FS_EmptySet
  <2>2. Cardinality(C) = 0 /\ Cardinality(T) = 0 /\ Cardinality(R) = 0 /\ Cardinality(A) = 0
    BY <2>1
  <2>3. InStore(b, e) = Cardinality(C) + Cardinality(T) + Cardinality(R) + Cardinality(A) + (IF S THEN 1 ELSE 0)
    BY DEF InStore
  <2> HIDE DEF C, T, R, A, S
  <2> QED BY <2>2, <2>3
<1>i. DOMAIN b.triggers \subseteq Nat /\ DOMAIN b.reports \subseteq Nat /\ DOMAIN b.actions \subseteq Nat
  BY DEF IsStore, IsTable
<1>2. ASSUME NEW c \in DOMAIN b.counters, NEW safe \in BOOLEAN, CounterEntry(b.counters[c], safe) = e,
             safe => e.token = NoToken
      PROVE \E x \in Targets(b, e) :
               Agrees(b, e, x) /\ (Gives(e) => b.counters[x].token = e.token)
  <2>1. e.kind = "counter" /\ e.cid = b.counters[c].cid /\ e.label = b.counters[c].label
    BY <1>2 DEF CounterEntry
  <2>2. Gives(e) => b.counters[c].token = e.token
    BY <1>2 DEF CounterEntry, Gives
  <2>3. c \in Targets(b, e) /\ Agrees(b, e, c)
    BY <2>1 DEF Targets, Agrees
  <2> QED BY <2>2, <2>3
<1>3. ASSUME NEW t \in T
      PROVE \E x \in Targets(b, e) :
               Agrees(b, e, x) /\ (Gives(e) => b.counters[x].token = e.token)
  <2> DEFINE row == b.triggers[t]
             c == row.counter
  <2>1. row \in TriggerRow /\ c \in DOMAIN b.counters /\ TriggerEntry(b.counters[c].cid, row) = e
    BY DEF IsStore, IsTable
  <2>2. /\ e.kind = "trigger" /\ e.cid = b.counters[c].cid /\ e.name = row.name
        /\ e.weeks = row.weeks /\ e.weeks # 0 /\ e.floor = row.floor /\ e.on = row.on
    BY <2>1 DEF TriggerEntry, TriggerRow
  <2>3. row = TriggerOf(c, e)
    BY <2>1, <2>2 DEF TriggerOf, Weeks, TriggerRow
  <2>4. \A j \in TriggersOf(b, c) : b.triggers[j].name = e.name => t <= j
    BY <1>i, <2>2 DEF TriggersOf, Distinct
  <2>5. t \in Targets(b, e)
    BY <2>1, <2>2, <2>4 DEF Targets, FirstNamed, TriggersOf
  <2> QED BY <2>2, <2>3, <2>5 DEF Agrees, Gives
<1>4. ASSUME NEW r \in R
      PROVE \E x \in Targets(b, e) :
               Agrees(b, e, x) /\ (Gives(e) => b.counters[x].token = e.token)
  <2> DEFINE row == b.reports[r]
             c == row.counter
  <2>1. row \in ReportRow /\ c \in DOMAIN b.counters /\ ReportEntry(b.counters[c].cid, row) = e
    BY DEF IsStore, IsTable
  <2>2. /\ e.kind = "report" /\ e.cid = b.counters[c].cid /\ e.name = row.name
        /\ e.period = row.period /\ e.on = row.on
    BY <2>1 DEF ReportEntry, ReportRow
  <2>3. row = ReportOf(c, e)
    BY <2>1, <2>2 DEF ReportOf, ReportRow
  <2>4. \A j \in ReportsOf(b, c) : b.reports[j].name = e.name => r <= j
    BY <1>i, <2>2 DEF ReportsOf, Distinct
  <2>5. r \in Targets(b, e)
    BY <2>1, <2>2, <2>4 DEF Targets, FirstNamed, ReportsOf
  <2> QED BY <2>2, <2>3, <2>5 DEF Agrees, Gives
<1>5. ASSUME NEW a \in A
      PROVE \E x \in Targets(b, e) :
               Agrees(b, e, x) /\ (Gives(e) => b.counters[x].token = e.token)
  <2>1. e.kind = "action" /\ e.dest = b.actions[a].dest /\ e.label = b.actions[a].label
    BY DEF ActionEntry
  <2>2. \A d \in DOMAIN b.actions : b.actions[d].dest = e.dest => a <= d
    BY <1>i, <2>1 DEF Distinct
  <2>3. a \in Targets(b, e)
    BY <2>1, <2>2 DEF Targets
  <2> QED BY <2>1, <2>3 DEF Agrees, Gives
<1>6. ASSUME S
      PROVE \E x \in Targets(b, e) :
               Agrees(b, e, x) /\ (Gives(e) => b.counters[x].token = e.token)
  <2>1. e.kind = "schedule" /\ e.at = b.schedule
    BY <1>6 DEF ScheduleEntry
  <2>2. 0 \in Targets(b, e)
    BY <2>1 DEF Targets
  <2> QED BY <2>1, <2>2 DEF Agrees, Gives
<1>7. C # {} => \E x \in Targets(b, e) :
                   Agrees(b, e, x) /\ (Gives(e) => b.counters[x].token = e.token)
  BY <1>2
<1>8. CASE InStore(b, e) = 1
  <2> HIDE DEF C, T, R, A, S
  <2> QED BY <1>1, <1>3, <1>4, <1>5, <1>6, <1>7, <1>8
<1> QED BY <1>2, <1>8

LEMMA OwnStays ==
    ASSUME NEW b, IsStore(b), UniqueCids(b), NEW e \in Entry, NEW x \in Targets(b, e), Agrees(b, e, x),
           Gives(e) => b.counters[x].token = e.token,
           NEW y, NEW z, IsStore(z), Statement(b, e, y, z)
    PROVE z = b
<1>1. Overwrites(b, e, y, z) /\ y = x
  BY OneTarget DEF Statement, Overwrites, Inserts
<1>2. e.kind \in {"counter", "trigger", "report", "action", "schedule"}
  BY DEF Entry
<1>3. z.counters = b.counters
  <2>1. CASE e.kind = "counter"
    <3>1. x \in DOMAIN b.counters /\ b.counters[x].cid = e.cid /\ b.counters[x].label = e.label
      BY <2>1 DEF Targets, Agrees
    <3>2. /\ DOMAIN z.counters = DOMAIN b.counters
          /\ \A c \in DOMAIN b.counters : c # x => z.counters[c] = b.counters[c]
          /\ z.counters[x].cid = e.cid /\ z.counters[x].label = e.label
          /\ z.counters[x].token = b.counters[x].token /\ z.counters[x].cursor = b.counters[x].cursor
      BY <1>1, <2>1, <3>1 DEF Statement, CountersWith
    <3>3. z.counters \in [DOMAIN b.counters -> CounterRow] /\ b.counters \in [DOMAIN b.counters -> CounterRow]
      BY <3>2 DEF IsStore, IsTable
    <3>4. z.counters[x] = b.counters[x]
      <4>1. z.counters[x] \in CounterRow /\ b.counters[x] \in CounterRow
        BY <3>1, <3>3
      <4> QED BY <3>1, <3>2, <4>1 DEF CounterRow
    <3> QED BY <3>2, <3>3, <3>4
  <2> QED BY <2>1 DEF Statement, CountersWith
<1>4. z.triggers = b.triggers
  <2>1. CASE e.kind = "trigger"
    <3>1. x \in DOMAIN b.triggers /\ b.triggers[x].counter \in DOMAIN b.counters
          /\ b.counters[b.triggers[x].counter].cid = e.cid
          /\ b.triggers[x] = TriggerOf(b.triggers[x].counter, e)
      BY <2>1 DEF Targets, Agrees
    <3>2. PICK c \in DOMAIN b.counters : b.counters[c].cid = e.cid /\ z.triggers[x] = TriggerOf(c, e)
      BY <1>1, <2>1 DEF Statement, TriggersWith
    <3>3. z.triggers[x] = b.triggers[x]
      BY <3>1, <3>2 DEF UniqueCids
    <3>4. /\ DOMAIN z.triggers = DOMAIN b.triggers
          /\ \A t \in DOMAIN b.triggers : z.triggers[t] = b.triggers[t]
      BY <1>1, <2>1, <3>1, <3>3 DEF Statement, TriggersWith
    <3> QED BY <3>4 DEF IsStore, IsTable
  <2> QED BY <2>1 DEF Statement, TriggersWith
<1>5. z.reports = b.reports
  <2>1. CASE e.kind = "report"
    <3>1. x \in DOMAIN b.reports /\ b.reports[x].counter \in DOMAIN b.counters
          /\ b.counters[b.reports[x].counter].cid = e.cid
          /\ b.reports[x] = ReportOf(b.reports[x].counter, e)
      BY <2>1 DEF Targets, Agrees
    <3>2. PICK c \in DOMAIN b.counters : b.counters[c].cid = e.cid /\ z.reports[x] = ReportOf(c, e)
      BY <1>1, <2>1 DEF Statement, ReportsWith
    <3>3. z.reports[x] = b.reports[x]
      BY <3>1, <3>2 DEF UniqueCids
    <3>4. /\ DOMAIN z.reports = DOMAIN b.reports
          /\ \A r \in DOMAIN b.reports : z.reports[r] = b.reports[r]
      BY <1>1, <2>1, <3>1, <3>3 DEF Statement, ReportsWith
    <3> QED BY <3>4 DEF IsStore, IsTable
  <2> QED BY <2>1 DEF Statement, ReportsWith
<1>6. z.actions = b.actions
  <2>1. CASE e.kind = "action"
    <3>1. x \in DOMAIN b.actions /\ b.actions[x].dest = e.dest /\ b.actions[x].label = e.label
      BY <2>1 DEF Targets, Agrees
    <3>2. b.actions[x] \in ActionRow
      BY <3>1 DEF IsStore, IsTable
    <3>3. b.actions[x] = [dest |-> e.dest, label |-> e.label]
      BY <3>1, <3>2 DEF ActionRow
    <3>4. /\ DOMAIN z.actions = DOMAIN b.actions
          /\ \A a \in DOMAIN b.actions : z.actions[a] = b.actions[a]
      BY <1>1, <2>1, <3>1, <3>3 DEF Statement, ActionsWith
    <3> QED BY <3>4 DEF IsStore, IsTable
  <2> QED BY <2>1 DEF Statement, ActionsWith
<1>7. z.schedule = b.schedule
  BY DEF Statement, ScheduleWith, Agrees
<1>8. b = [b EXCEPT !.counters = b.counters, !.triggers = b.triggers, !.reports = b.reports,
                    !.actions = b.actions, !.schedule = b.schedule]
  BY DEF IsStore, IsRecord
<1> QED BY <1>1, <1>3, <1>4, <1>5, <1>6, <1>7, <1>8 DEF Overwrites

-----------------------------------------------------------------------------
(* What the engine writes is not the configuration.                         *)

LEMMA MergedStays ==
    ASSUME NEW s, NEW f, NEW k, Merged(s, f, k), NEW z,
           z.triggers = s.triggers, z.reports = s.reports, z.actions = s.actions, z.schedule = s.schedule,
           DOMAIN z.counters = DOMAIN s.counters,
           \A c \in DOMAIN s.counters :
              /\ z.counters[c].cid = s.counters[c].cid /\ z.counters[c].label = s.counters[c].label
              /\ z.counters[c].token = s.counters[c].token
    PROVE Merged(z, f, k)
<1>1. Named(s, z)
  BY DEF Named
<1>2. \A d : \A x \in Targets(s, d) : x \in Targets(z, d)
  BY <1>1, TargetsKept
<1>3. \A d : \A x \in Targets(s, d) :
         /\ Agrees(s, d, x) => Agrees(z, d, x)
         /\ Gives(d) => z.counters[x].token = s.counters[x].token
  BY DEF Agrees, Gives, Targets
<1> QED BY <1>2, <1>3 DEF Merged

LEMMA EngineWrites ==
    ASSUME IInv, Engine
    PROVE /\ db'.triggers = db.triggers /\ db'.reports = db.reports /\ db'.actions = db.actions
          /\ db'.schedule = db.schedule /\ DOMAIN db'.counters = DOMAIN db.counters
          /\ \A c \in DOMAIN db.counters :
                /\ db'.counters[c].cid = db.counters[c].cid /\ db'.counters[c].label = db.counters[c].label
                /\ db'.counters[c].token = db.counters[c].token
<1> DEFINE c == job.counter
           t == job.trigger
<1>1. IsStore(db)
  BY DEF IInv, Sound
<1>2. CASE t = 0
  <2>1. db' = CreateReportSnapshot(db, c)
    BY <1>2 DEF Engine
  <2> QED BY <1>1, <2>1 DEF CreateReportSnapshot, IsStore
<1>3. CASE t # 0
  <2> DEFINE y == RecordTriggerFire(CreateAlert(db, c, t), t)
  <2>1. db' = SetLastHourChecked(y, c)
    BY <1>3 DEF Engine
  <2>2. /\ DOMAIN y = DOMAIN db /\ y.counters = db.counters /\ y.triggers = db.triggers
        /\ y.reports = db.reports /\ y.actions = db.actions /\ y.schedule = db.schedule
    BY <1>1 DEF RecordTriggerFire, CreateAlert, IsStore
  <2> HIDE DEF y
  <2>3. CASE c \in DOMAIN db.counters
    <3>1. db.counters[c] \in CounterRow
      BY <1>1, <2>3 DEF IsStore, IsTable
    <3>2. db' = [y EXCEPT !.counters[c].cursor = TRUE]
      BY <2>1, <2>2, <2>3 DEF SetLastHourChecked
    <3>3. /\ db'.triggers = y.triggers /\ db'.reports = y.reports /\ db'.actions = y.actions
          /\ db'.schedule = y.schedule
          /\ db'.counters = [y.counters EXCEPT ![c].cursor = TRUE]
      BY <1>1, <2>2, <3>2 DEF IsStore
    <3> QED BY <2>2, <3>1, <3>3 DEF CounterRow
  <2>4. CASE c \notin DOMAIN db.counters
    BY <2>1, <2>2, <2>4 DEF SetLastHourChecked
  <2> QED BY <2>3, <2>4
<1> QED BY <1>2, <1>3

-----------------------------------------------------------------------------
(* A merge in progress, and the file that was merged last.                  *)

Settling ==
    /\ settled # << >> => Merged(db, settled, Len(settled) + 1)
    /\ tx # NoTx /\ ~tx.replace =>
          /\ Merged(tx.store, tx.file, tx.at)
          /\ tx.file = settled => Overlaid(tx.store, db, tx.file, tx.at)
          /\ Distinct(db) /\ OwnExport(db, tx.file) => tx.store = db

\* Only an import is remembered; whoever changes the configuration ends that.
LEMMA SettledSteps ==
    ASSUME [Next]_vars
    PROVE \/ settled' = << >>
          \/ settled' = settled /\ (db' = db \/ Engine)
          \/ Imported
<1>1. ASSUME \E u \in Users : Asks(u) \/ Saves(u) \/ Removes(u)
      PROVE settled' = << >> \/ (settled' = settled /\ db' = db)
  BY <1>1 DEF Asks, AskCounter, AskAction, AskTrigger, AskReport, AskImport, Look, NoWrite, history,
              Saves, SaveCounter, SaveTrigger, SaveReport, SaveAlertAction, Write,
              Removes, RemoveCounter, RemoveTrigger, RemoveReport, RemoveAction, Reschedule
<1>2. ASSUME Exporting \/ Posts \/ Jobs \/ UNCHANGED vars
      PROVE settled' = << >> \/ (settled' = settled /\ db' = db)
  BY <1>2 DEF Exporting, ExportTriggers, ExportReports, ExportDone, Posts, PostCounter, PostTrigger, Write,
              Jobs, Tick, RunNow, Start, transferVars, vars, history
<1>3. ASSUME NEW u \in Users, ScheduleAgain(u)
      PROVE settled' = << >> \/ (settled' = settled /\ db' = db)
  BY <1>3 DEF ScheduleAgain
<1>4. ASSUME NEW u \in Users, Transfers(u) PROVE settled' = settled /\ db' = db
  <2>1. ASSUME NEW f, NEW replace \in BOOLEAN, Import(u, f, replace) PROVE settled' = settled /\ db' = db
    BY <2>1 DEF Import, ImportStart, history
  <2>2. ASSUME NEW c, NEW safe, Export(u, c, safe) PROVE settled' = settled /\ db' = db
    BY <2>2 DEF Export, ExportStart, history
  <2> QED BY <1>4, <2>1, <2>2 DEF Transfers
<1>5. ASSUME Importing \/ ImportRefused \/ Crash PROVE settled' = settled /\ db' = db
  BY <1>5 DEF Importing, ImportStep, ImportCounter, ImportTrigger, ImportReport, ImportAction, ImportSchedule,
              Applied, ImportRefused, ImportFails, Crash, history
<1>6. ASSUME Engine PROVE settled' = settled
  BY <1>6 DEF Engine, history
<1> QED BY <1>1, <1>2, <1>3, <1>4, <1>5, <1>6 DEF Next

\* A statement of a merge.
LEMMA SettlingGoesOn ==
    ASSUME IInv, IInv', Settling, Importing, ~tx.replace
    PROVE Settling'
<1> DEFINE s == tx.store
           f == tx.file
           k == tx.at
           m == Len(f)
<1>1. tx # NoTx /\ IsStore(s) /\ UniqueCids(s) /\ IsStore(db) /\ UniqueCids(db) /\ Readable(f)
  BY DEF Importing, IInv, Control, Copy, Sound
<1>2. PICK y, z : Applied(z) /\ Statement(s, f[k], y, z)
  BY <1>1, MergeCounter, MergeTrigger, MergeReport, MergeAction DEF Importing, ImportStep
<1>3. /\ tx'.store = z /\ tx'.at = k + 1 /\ tx'.file = f /\ ~tx'.replace /\ db' = db /\ settled' = settled
  BY <1>1, <1>2, AppliedFields DEF Importing, history
<1>4. k \in 1..m /\ m \in Nat /\ DOMAIN f = 1..m /\ (\A i \in DOMAIN f : f[i] \in Entry)
      /\ \A i, j \in DOMAIN f : f[i].kind = "schedule" /\ f[j].kind = "schedule" => i = j
  <2>1. f \in Seq(Entry)
    BY <1>1 DEF Readable
  <2>2. k \in DOMAIN f
    BY DEF Importing, ImportStep, ImportCounter, ImportTrigger, ImportReport, ImportAction, ImportSchedule, At
  <2> QED BY <1>1, <2>1, <2>2 DEF Readable
<1> HIDE DEF m
<1>5. Merged(s, f, k) /\ (f = settled => Overlaid(s, db, f, k))
      /\ (Distinct(db) /\ OwnExport(db, f) => s = db)
  BY <1>1 DEF Settling
<1>6. Merged(z, f, k + 1)
  BY <1>1, <1>2, <1>4, <1>5, MergedGoesOn
<1>7. ASSUME f = settled PROVE Overlaid(z, db, f, k + 1)
  <2>1. f # << >> /\ Len(f) = m
    BY <1>1 DEF Readable, m
  <2>2. Merged(db, f, m + 1)
    BY <1>7, <2>1 DEF Settling
  <2> QED BY <1>1, <1>2, <1>4, <1>5, <1>7, <2>2, OverlaidGoesOn
<1>8. ASSUME tx' # NoTx, Distinct(db), OwnExport(db, f) PROVE z = db
  <2>1. IsStore(z)
    BY <1>3, <1>8 DEF IInv, Copy, Sound
  <2>2. \/ InStore(db, f[k]) = 1
        \/ f[k].kind = "counter" /\ f[k].token = NoToken
           /\ \E c \in DOMAIN db.counters : CounterEntry(db.counters[c], TRUE) = f[k]
    BY <1>4, <1>8 DEF OwnExport
  <2>3. PICK x \in Targets(db, f[k]) :
           Agrees(db, f[k], x) /\ (Gives(f[k]) => db.counters[x].token = f[k].token)
    <3> DEFINE e == f[k]
    <3>1. IsStore(db) /\ UniqueCids(db) /\ Distinct(db) /\ e \in Entry
      BY <1>1, <1>4, <1>8
    <3> HIDE DEF e
    <3> SUFFICES \E x \in Targets(db, e) : Agrees(db, e, x) /\ (Gives(e) => db.counters[x].token = e.token)
      BY Zenon DEF e
    <3>2. \/ InStore(db, e) = 1
          \/ e.kind = "counter" /\ e.token = NoToken
             /\ \E c \in DOMAIN db.counters : CounterEntry(db.counters[c], TRUE) = e
      BY <2>2, Zenon DEF e
    <3> QED BY <3>1, <3>2, OwnRow, Zenon
  <2>4. Statement(db, f[k], y, z)
    BY <1>2, <1>5, <1>8
  <2> QED BY <1>1, <1>4, <2>1, <2>3, <2>4, OwnStays
<1>9. settled' # << >> => Merged(db', settled', Len(settled') + 1)
  BY <1>3 DEF Settling
<1> HIDE DEF s, f, k
<1> QED BY <1>3, <1>6, <1>7, <1>8, <1>9 DEF Settling

LEMMA SettlingStep == IInv /\ IInv' /\ Settling /\ [Next]_vars => Settling'
<1> SUFFICES ASSUME IInv, IInv', Settling, [Next]_vars PROVE Settling'
  OBVIOUS
<1> DEFINE LastMerged == settled' # << >> => Merged(db', settled', Len(settled') + 1)
\* The file that was merged last.
<1>1. Imported => LastMerged
  <2> SUFFICES ASSUME Imported, settled' # << >> PROVE Merged(db', settled', Len(settled') + 1)
    OBVIOUS
  <2>1. /\ tx # NoTx /\ ~tx.replace /\ settled' = tx.file /\ db' = tx.store
        /\ tx.at \notin DOMAIN tx.file /\ tx.at \in Ids /\ Readable(tx.file)
    BY DEF Imported, ImportCommit, IInv, Control
  <2>2. DOMAIN tx.file = 1..Len(tx.file) /\ Len(tx.file) \in Nat
    <3>1. tx.file \in Seq(Entry)
      BY <2>1 DEF Readable
    <3> QED BY <3>1
  <2>3. Merged(tx.store, tx.file, tx.at)
    BY <2>1 DEF Settling
  <2>4. \A i \in DOMAIN tx.file : i < tx.at
    BY <2>1, <2>2 DEF Ids
  <2>5. \A i, j \in DOMAIN tx.file : j < Len(tx.file) + 1
    BY <2>2
  <2>6. Merged(tx.store, tx.file, Len(tx.file) + 1)
    BY <2>3, <2>4, <2>5 DEF Merged
  <2> QED BY <2>1, <2>6
<1>2. LastMerged
  <2>1. CASE settled' = << >>
    BY <2>1
  <2>2. CASE settled' = settled /\ db' = db
    BY <2>2 DEF Settling
  <2>3. CASE settled' = settled /\ Engine
    BY <2>3, EngineWrites, MergedStays DEF Settling
  <2> QED BY <1>1, <2>1, <2>2, <2>3, SettledSteps
\* The merge in progress.
<1>3. CASE tx' = tx /\ tx # NoTx /\ db' = db
  <2>1. ~Imported
    BY <1>3 DEF Imported, ImportCommit
  <2>2. ~tx.replace /\ tx.file = settled' => settled' = settled
    <3>1. tx.file # << >>
      BY <1>3 DEF IInv, Control, Readable
    <3> QED BY <2>1, <3>1, SettledSteps
  <2> QED BY <1>2, <1>3, <2>2 DEF Settling
<1>4. CASE tx' = NoTx
  BY <1>2, <1>4 DEF Settling
<1>5. ASSUME NEW u, NEW f, NEW replace, NEW flow, ImportStart(u, f, replace, flow) PROVE Settling'
  <2>1. /\ tx'.file = f /\ tx'.replace = replace /\ tx'.at = 1 /\ db' = db
        /\ ~replace => tx'.store = db
        /\ Readable(f)
    BY <1>5 DEF ImportStart
  <2>2. DOMAIN f = 1..Len(f)
    BY <2>1 DEF Readable
  <2>3. Merged(db, f, 1)
    BY <2>2 DEF Merged
  <2>4. Overlaid(db, db, f, 1)
    BY OverlaidSelf DEF IInv, Sound
  <2> QED BY <1>2, <2>1, <2>3, <2>4 DEF Settling
<1>6. CASE Importing
  <2>1. CASE tx.replace
    <3>1. tx'.replace = tx.replace
      BY <1>6, AppliedFields
         DEF Importing, ImportStep, ImportCounter, ImportTrigger, ImportReport, ImportAction, ImportSchedule
    <3> QED BY <1>2, <2>1, <3>1 DEF Settling
  <2>2. CASE ~tx.replace
    BY <1>6, <2>2, SettlingGoesOn
  <2> QED BY <2>1, <2>2
<1>7. CASE Imported
  BY <1>2, <1>7 DEF Imported, ImportCommit, Settling
<1> HIDE DEF LastMerged
<1>8. CASE tx' = tx /\ tx = NoTx
  BY <1>4, <1>8
<1> QED BY <1>3, <1>4, <1>5, <1>6, <1>7, <1>8, TxSteps

(* Merging a file a second time changes nothing, whatever rows of one key it *)
(* has, whatever the engine has written since, and although the second merge *)
(* first takes some rows back to what an earlier entry says; nor does        *)
(* merging an export of just this configuration, with or without its tokens, *)
(* when no two of its rules, reports or destinations are called the same     *)
(* (importTriggers and its siblings, export.go).                             *)
THEOREM MergesOnce == Spec => MergeIsIdempotent
<1>1. Init => Settling
  BY DEF Init, Settling
<1>2. IInv /\ IInv' /\ Settling /\ [Next]_vars => Settling'
  BY SettlingStep
<1>3. ASSUME IInv, Settling, [Next]_vars, Committing, ~tx.replace
      PROVE db' = db \/ (tx.file # settled /\ ~(Distinct(db) /\ OwnExport(db, tx.file)))
  <2>1. db' = db \/ Imported
    BY <1>3, TxSteps DEF Committing, ImportStart, Importing, ImportStep, ImportCounter, ImportTrigger,
          ImportReport, ImportAction, ImportSchedule, At
  <2> SUFFICES ASSUME Imported PROVE db' = db \/ (tx.file # settled /\ ~(Distinct(db) /\ OwnExport(db, tx.file)))
    BY <2>1
  <2>2. db' = tx.store /\ tx.at \notin DOMAIN tx.file /\ tx # NoTx
    BY DEF Imported, ImportCommit
  <2>3. /\ tx.file = settled => Overlaid(tx.store, db, tx.file, tx.at)
        /\ Distinct(db) /\ OwnExport(db, tx.file) => tx.store = db
    BY <1>3, <2>2 DEF Settling
  <2>4. ASSUME tx.file = settled PROVE tx.store = db
    <3>1. IsStore(db) /\ IsStore(tx.store) /\ Readable(tx.file) /\ tx.at \in Ids
      BY <1>3, <2>2 DEF IInv, Control, Copy, Sound
    <3>2. DOMAIN tx.file = 1..Len(tx.file) /\ Len(tx.file) \in Nat
      <4>1. tx.file \in Seq(Entry)
        BY <3>1 DEF Readable
      <4> QED BY <4>1
    <3>3. tx.at \in Nat /\ tx.at > Len(tx.file)
      BY <2>2, <3>1, <3>2 DEF Ids
    <3>4. Overlaid(tx.store, db, tx.file, tx.at)
      BY <2>3, <2>4
    <3> QED BY <3>1, <3>2, <3>3, <3>4, OverlaidWhole
  <2> QED BY <2>2, <2>3, <2>4
<1> QED BY <1>1, <1>2, <1>3, Invariant, PTL DEF Spec, MergeIsIdempotent
=================================================================================
