------------------------------- MODULE AdminProofs -------------------------------
(***************************************************************************)
(* Theorems about Admin.  Each statement of the store is shown once to keep *)
(* a store sound; the steps of Admin and those of an import cite it.        *)
(***************************************************************************)
EXTENDS Admin, TLAPS

\* A store whose rules and reports without a counter are all among st.
Sound(s, st) ==
    /\ IsStore(s) /\ UniqueCids(s) /\ Issued(s)
    /\ DOMAIN st = {"triggers", "reports"}
    /\ st.triggers \subseteq 1..s.lastTrigger /\ st.reports \subseteq 1..s.lastReport
    /\ \A t \in DOMAIN s.triggers \ st.triggers : s.triggers[t].counter \in DOMAIN s.counters
    /\ \A r \in DOMAIN s.reports \ st.reports : s.reports[r].counter \in DOMAIN s.counters

\* s has come from b: ids have only grown, rows that b has not are new, and the
\* history is of rules that b knew.
Since(b, s) ==
    /\ b.lastCounter \in Nat /\ b.lastTrigger \in Nat /\ b.lastReport \in Nat
    /\ b.lastCounter <= s.lastCounter /\ b.lastTrigger <= s.lastTrigger
    /\ b.lastReport <= s.lastReport
    /\ \A c \in DOMAIN s.counters \ DOMAIN b.counters :
          c > b.lastCounter /\ s.counters[c].cursor = FALSE
    /\ \A t \in DOMAIN s.triggers \ DOMAIN b.triggers : t > b.lastTrigger
    /\ \A t \in s.cooldowns : t <= b.lastTrigger
    /\ \A a \in s.alerts : a.trigger <= b.lastTrigger

\* With a counter of b go its rows.
Whole(b, s) ==
    \A c \in DOMAIN b.counters \ DOMAIN s.counters :
        /\ TriggersOf(s, c) = {} /\ ReportsOf(s, c) = {}
        /\ c \notin s.snapshots
        /\ \A a \in s.alerts : a.counter # c
        /\ TriggersOf(b, c) \cap s.cooldowns = {}

\* A store without history.
Bare(s) == s.cooldowns = {} /\ s.alerts = {} /\ s.snapshots = {}

LEMMA SinceSelf ==
    ASSUME NEW s, NEW st, Sound(s, st)
    PROVE Since(s, s) /\ Whole(s, s)
BY DEF Sound, Since, Whole, IsStore, IsTable, Issued

-----------------------------------------------------------------------------
(* The statements of the store.                                             *)

LEMMA CounterCreated ==
    ASSUME NEW s, NEW st, NEW b, Sound(s, st), Since(b, s),
           NEW cid \in Cids, NEW label \in Labels, NEW token \in Tokens \union {NoToken},
           CidFree(s, cid)
    PROVE LET z == CreateCounter(s, cid, label, token) IN
          /\ Sound(z, st) /\ Since(b, z)
          /\ Kept(b, s) => Kept(b, z)
          /\ NoOrphans(s) => NoOrphans(z)
          /\ Bare(s) => Bare(z)
          /\ DOMAIN s.counters \subseteq DOMAIN z.counters
<1> DEFINE n == s.lastCounter + 1
           row == [cid |-> cid, label |-> label, token |-> token, cursor |-> FALSE]
           z == CreateCounter(s, cid, label, token)
<1> SUFFICES /\ Sound(z, st) /\ Since(b, z)
             /\ Kept(b, s) => Kept(b, z)
             /\ NoOrphans(s) => NoOrphans(z)
             /\ Bare(s) => Bare(z)
             /\ DOMAIN s.counters \subseteq DOMAIN z.counters
  OBVIOUS
<1>1. /\ z.counters = Put(s.counters, n, row) /\ z.lastCounter = n
      /\ z.triggers = s.triggers /\ z.reports = s.reports /\ z.actions = s.actions
      /\ z.cooldowns = s.cooldowns /\ z.alerts = s.alerts /\ z.snapshots = s.snapshots
      /\ z.schedule = s.schedule /\ z.lastTrigger = s.lastTrigger
      /\ z.lastReport = s.lastReport /\ z.lastAction = s.lastAction
      /\ DOMAIN z = DOMAIN s /\ IsRecord(z)
  BY DEF CreateCounter, Sound, IsStore, IsRecord
<1>2. /\ DOMAIN z.counters = DOMAIN s.counters \union {n} /\ z.counters[n] = row
      /\ row.cid = cid /\ row.cursor = FALSE
      /\ n \notin DOMAIN s.counters /\ DOMAIN s.counters \subseteq 1..s.lastCounter
      /\ \A c \in DOMAIN s.counters : z.counters[c] = s.counters[c]
  BY <1>1 DEF Put, Sound, IsStore, IsTable
<1>3. IsTable(z.counters, CounterRow, z.lastCounter)
  BY <1>1, <1>2 DEF Put, Sound, IsStore, IsTable, CounterRow
<1>i. n \in Nat /\ n = s.lastCounter + 1 /\ s.lastCounter \in Nat
  BY DEF Sound, IsStore
<1> HIDE DEF n, row, z
<1>4. IsStore(z)
  BY <1>1, <1>3, <1>i DEF Sound, IsStore
<1>5. UniqueCids(z)
  <2> SUFFICES ASSUME NEW c \in DOMAIN z.counters, NEW d \in DOMAIN z.counters,
                      z.counters[c].cid = z.counters[d].cid
               PROVE c = d
    BY DEF UniqueCids
  <2>1. CASE c = n \/ d = n
    BY <1>2, <2>1 DEF CidFree
  <2>2. CASE c # n /\ d # n
    BY <1>2, <2>2 DEF Sound, UniqueCids
  <2> QED BY <2>1, <2>2
<1>6. Issued(z)
  BY <1>1, <1>i DEF Sound, IsStore, Issued, IsTable, ReportRow, Ids
<1>7. Sound(z, st)
  BY <1>1, <1>2, <1>4, <1>5, <1>6 DEF Sound
<1>8. Since(b, z)
  BY <1>1, <1>2, <1>i DEF Since
<1>9. Kept(b, s) => Kept(b, z)
  BY <1>1, <1>2 DEF Kept
<1>10. (NoOrphans(s) => NoOrphans(z)) /\ (Bare(s) => Bare(z))
  BY <1>1, <1>2 DEF NoOrphans, Bare
<1> QED BY <1>2, <1>7, <1>8, <1>9, <1>10

\* s and z differ in their rules only, in their reports only, ...
OnlyTriggers(s, z) ==
    /\ DOMAIN z = DOMAIN s /\ IsRecord(z)
    /\ z.counters = s.counters /\ z.reports = s.reports /\ z.actions = s.actions
    /\ z.cooldowns = s.cooldowns /\ z.alerts = s.alerts /\ z.snapshots = s.snapshots
    /\ z.schedule = s.schedule /\ z.lastCounter = s.lastCounter
    /\ z.lastReport = s.lastReport /\ z.lastAction = s.lastAction
OnlyReports(s, z) ==
    /\ DOMAIN z = DOMAIN s /\ IsRecord(z)
    /\ z.counters = s.counters /\ z.triggers = s.triggers /\ z.actions = s.actions
    /\ z.cooldowns = s.cooldowns /\ z.alerts = s.alerts /\ z.snapshots = s.snapshots
    /\ z.schedule = s.schedule /\ z.lastCounter = s.lastCounter
    /\ z.lastTrigger = s.lastTrigger /\ z.lastAction = s.lastAction

LEMMA TriggersChanged ==
    ASSUME NEW s, NEW z, NEW st, NEW st2, NEW b, Sound(s, st), Since(b, s), OnlyTriggers(s, z),
           z.lastTrigger \in Nat, z.lastTrigger >= s.lastTrigger,
           IsTable(z.triggers, TriggerRow, z.lastTrigger),
           \A t \in DOMAIN z.triggers \ DOMAIN s.triggers : t > s.lastTrigger,
           DOMAIN st2 = {"triggers", "reports"}, st2.reports = st.reports,
           st2.triggers \subseteq 1..z.lastTrigger,
           \A t \in DOMAIN z.triggers \ st2.triggers : z.triggers[t].counter \in DOMAIN s.counters
    PROVE Sound(z, st2) /\ Since(b, z)
<1>1. IsStore(z)
  BY DEF Sound, IsStore, OnlyTriggers
<1>2. UniqueCids(z)
  BY DEF Sound, UniqueCids, OnlyTriggers
<1>3. Issued(z)
  BY DEF Sound, IsStore, Issued, OnlyTriggers, Ids
<1>4. Sound(z, st2)
  BY <1>1, <1>2, <1>3 DEF Sound, OnlyTriggers
<1>5. Since(b, z)
  <2>1. \A t \in DOMAIN z.triggers \ DOMAIN b.triggers : t > b.lastTrigger
    <3> SUFFICES ASSUME NEW t \in DOMAIN z.triggers, t \notin DOMAIN b.triggers
                 PROVE t > b.lastTrigger
      OBVIOUS
    <3>1. CASE t \in DOMAIN s.triggers
      BY <3>1 DEF Since
    <3>2. CASE t \notin DOMAIN s.triggers
      BY <3>2 DEF Since, Sound, IsStore, IsTable
    <3> QED BY <3>1, <3>2
  <2>2. b.lastTrigger <= z.lastTrigger
    BY DEF Since, Sound, IsStore
  <2> QED BY <2>1, <2>2 DEF Since, OnlyTriggers
<1> QED BY <1>4, <1>5

LEMMA ReportsChanged ==
    ASSUME NEW s, NEW z, NEW st, NEW st2, NEW b, Sound(s, st), Since(b, s), OnlyReports(s, z),
           z.lastReport \in Nat, z.lastReport >= s.lastReport,
           IsTable(z.reports, ReportRow, z.lastReport),
           \A r \in DOMAIN z.reports : z.reports[r].counter <= s.lastCounter,
           DOMAIN st2 = {"triggers", "reports"}, st2.triggers = st.triggers,
           st2.reports \subseteq 1..z.lastReport,
           \A r \in DOMAIN z.reports \ st2.reports : z.reports[r].counter \in DOMAIN s.counters
    PROVE Sound(z, st2) /\ Since(b, z)
<1>1. IsStore(z)
  BY DEF Sound, IsStore, OnlyReports
<1>2. UniqueCids(z)
  BY DEF Sound, UniqueCids, OnlyReports
<1>3. Issued(z)
  BY DEF Sound, IsStore, Issued, OnlyReports
<1>4. Sound(z, st2)
  BY <1>1, <1>2, <1>3 DEF Sound, OnlyReports
<1>5. Since(b, z)
  <2>1. b.lastReport <= z.lastReport
    BY DEF Since, Sound, IsStore
  <2> QED BY <2>1 DEF Since, OnlyReports
<1> QED BY <1>4, <1>5

LEMMA TriggerCreated ==
    ASSUME NEW s, NEW st, NEW st2, NEW b, Sound(s, st), Since(b, s), NEW row \in TriggerRow,
           st2 = IF row.counter \in DOMAIN s.counters THEN st
                 ELSE [st EXCEPT !.triggers = @ \union {s.lastTrigger + 1}]
    PROVE LET z == CreateTrigger(s, row) IN
          /\ Sound(z, st2) /\ Since(b, z)
          /\ Kept(b, s) => Kept(b, z)
          /\ NoOrphans(s) /\ row.counter \in DOMAIN s.counters => NoOrphans(z)
          /\ Bare(s) => Bare(z)
          /\ z.counters = s.counters
<1> DEFINE n == s.lastTrigger + 1
           z == CreateTrigger(s, row)
<1> SUFFICES /\ Sound(z, st2) /\ Since(b, z)
             /\ Kept(b, s) => Kept(b, z)
             /\ NoOrphans(s) /\ row.counter \in DOMAIN s.counters => NoOrphans(z)
             /\ Bare(s) => Bare(z)
             /\ z.counters = s.counters
  OBVIOUS
<1>1. OnlyTriggers(s, z) /\ z.triggers = Put(s.triggers, n, row) /\ z.lastTrigger = n
  BY DEF CreateTrigger, Sound, IsStore, OnlyTriggers, IsRecord
<1>2. /\ DOMAIN z.triggers = DOMAIN s.triggers \union {n} /\ z.triggers[n] = row
      /\ n \notin DOMAIN s.triggers /\ DOMAIN s.triggers \subseteq 1..s.lastTrigger
      /\ \A t \in DOMAIN s.triggers : z.triggers[t] = s.triggers[t]
  BY <1>1 DEF Put, Sound, IsStore, IsTable
<1>3. IsTable(z.triggers, TriggerRow, z.lastTrigger)
  BY <1>1, <1>2 DEF Put, Sound, IsStore, IsTable
<1>4. n \in Nat /\ n = s.lastTrigger + 1 /\ s.lastTrigger \in Nat
  BY DEF Sound, IsStore
<1> HIDE DEF n, z
<1>5. /\ DOMAIN st2 = {"triggers", "reports"} /\ st2.reports = st.reports
      /\ st2.triggers = IF row.counter \in DOMAIN s.counters THEN st.triggers
                        ELSE st.triggers \union {n}
  BY <1>4 DEF Sound
<1>6. /\ st2.triggers \subseteq 1..z.lastTrigger
      /\ \A t \in DOMAIN z.triggers \ st2.triggers : z.triggers[t].counter \in DOMAIN s.counters
  BY <1>1, <1>2, <1>4, <1>5 DEF Sound
<1>7. Sound(z, st2) /\ Since(b, z)
  <2>1. \A t \in DOMAIN z.triggers \ DOMAIN s.triggers : t > s.lastTrigger
    BY <1>2, <1>4
  <2>2. z.lastTrigger \in Nat /\ z.lastTrigger >= s.lastTrigger
    BY <1>1, <1>4
  <2> QED BY <1>1, <1>3, <1>5, <1>6, <2>1, <2>2, TriggersChanged
<1>8. /\ Kept(b, s) => Kept(b, z)
      /\ NoOrphans(s) /\ row.counter \in DOMAIN s.counters => NoOrphans(z)
      /\ (Bare(s) => Bare(z)) /\ z.counters = s.counters
  BY <1>1, <1>2 DEF Kept, NoOrphans, Bare, OnlyTriggers
<1> QED BY <1>7, <1>8

\* A rule of that counter and name is written over.
LEMMA TriggerUpdated ==
    ASSUME NEW s, NEW st, NEW b, Sound(s, st), Since(b, s),
           NEW t \in DOMAIN s.triggers, NEW row \in TriggerRow,
           row.counter = s.triggers[t].counter, row.name = s.triggers[t].name
    PROVE LET z == [s EXCEPT !.triggers[t] = row] IN
          /\ Sound(z, st) /\ Since(b, z)
          /\ Kept(b, s) => Kept(b, z)
          /\ NoOrphans(s) => NoOrphans(z)
          /\ Bare(s) => Bare(z)
          /\ z.counters = s.counters
<1> DEFINE z == [s EXCEPT !.triggers[t] = row]
<1>1. OnlyTriggers(s, z) /\ z.triggers = [s.triggers EXCEPT ![t] = row]
      /\ z.lastTrigger = s.lastTrigger
  BY DEF Sound, IsStore, OnlyTriggers, IsRecord
<1>2. s.triggers \in [DOMAIN s.triggers -> TriggerRow] /\ s.lastTrigger \in Nat
      /\ DOMAIN s.triggers \subseteq 1..s.lastTrigger
  BY DEF Sound, IsStore, IsTable
<1> HIDE DEF z
<1>3. /\ DOMAIN z.triggers = DOMAIN s.triggers /\ z.triggers[t] = row
      /\ \A v \in DOMAIN s.triggers : v # t => z.triggers[v] = s.triggers[v]
      /\ IsTable(z.triggers, TriggerRow, z.lastTrigger)
  BY <1>1, <1>2 DEF IsTable
<1>4. \A v \in DOMAIN s.triggers : z.triggers[v].counter = s.triggers[v].counter
                                   /\ z.triggers[v].name = s.triggers[v].name
  BY <1>3
<1>5. Sound(z, st) /\ Since(b, z)
  <2>1. \A v \in DOMAIN z.triggers \ st.triggers : z.triggers[v].counter \in DOMAIN s.counters
    BY <1>3, <1>4 DEF Sound
  <2>2. DOMAIN st = {"triggers", "reports"} /\ st.triggers \subseteq 1..z.lastTrigger
    BY <1>1 DEF Sound
  <2>3. z.lastTrigger \in Nat /\ z.lastTrigger >= s.lastTrigger
        /\ \A v \in DOMAIN z.triggers \ DOMAIN s.triggers : v > s.lastTrigger
    BY <1>1, <1>2, <1>3
  <2> QED BY <1>1, <1>3, <2>1, <2>2, <2>3, TriggersChanged
<1>6. /\ Kept(b, s) => Kept(b, z)
      /\ NoOrphans(s) => NoOrphans(z)
      /\ (Bare(s) => Bare(z)) /\ z.counters = s.counters
  BY <1>1, <1>3, <1>4 DEF Kept, NoOrphans, Bare, OnlyTriggers
<1> QED BY <1>5, <1>6 DEF z

LEMMA ReportCreated ==
    ASSUME NEW s, NEW st, NEW st2, NEW b, Sound(s, st), Since(b, s), NEW row \in ReportRow,
           row.counter <= s.lastCounter,
           st2 = IF row.counter \in DOMAIN s.counters THEN st
                 ELSE [st EXCEPT !.reports = @ \union {s.lastReport + 1}]
    PROVE LET z == CreateReport(s, row) IN
          /\ Sound(z, st2) /\ Since(b, z)
          /\ Kept(b, s) => Kept(b, z)
          /\ NoOrphans(s) /\ row.counter \in DOMAIN s.counters => NoOrphans(z)
          /\ Bare(s) => Bare(z)
          /\ z.counters = s.counters
<1> DEFINE n == s.lastReport + 1
           z == CreateReport(s, row)
<1> SUFFICES /\ Sound(z, st2) /\ Since(b, z)
             /\ Kept(b, s) => Kept(b, z)
             /\ NoOrphans(s) /\ row.counter \in DOMAIN s.counters => NoOrphans(z)
             /\ Bare(s) => Bare(z)
             /\ z.counters = s.counters
  OBVIOUS
<1>1. OnlyReports(s, z) /\ z.reports = Put(s.reports, n, row) /\ z.lastReport = n
  BY DEF CreateReport, Sound, IsStore, OnlyReports, IsRecord
<1>2. /\ DOMAIN z.reports = DOMAIN s.reports \union {n} /\ z.reports[n] = row
      /\ n \notin DOMAIN s.reports /\ DOMAIN s.reports \subseteq 1..s.lastReport
      /\ \A r \in DOMAIN s.reports : z.reports[r] = s.reports[r]
  BY <1>1 DEF Put, Sound, IsStore, IsTable
<1>3. IsTable(z.reports, ReportRow, z.lastReport)
  BY <1>1, <1>2 DEF Put, Sound, IsStore, IsTable
<1>4. n \in Nat /\ n = s.lastReport + 1 /\ s.lastReport \in Nat
  BY DEF Sound, IsStore
<1> HIDE DEF n, z
<1>5. /\ DOMAIN st2 = {"triggers", "reports"} /\ st2.triggers = st.triggers
      /\ st2.reports = IF row.counter \in DOMAIN s.counters THEN st.reports
                       ELSE st.reports \union {n}
  BY <1>4 DEF Sound
<1>6. /\ st2.reports \subseteq 1..z.lastReport
      /\ \A r \in DOMAIN z.reports \ st2.reports : z.reports[r].counter \in DOMAIN s.counters
  BY <1>1, <1>2, <1>4, <1>5 DEF Sound
<1>7. Sound(z, st2) /\ Since(b, z)
  <2>1. \A r \in DOMAIN z.reports : z.reports[r].counter <= s.lastCounter
    BY <1>2 DEF Sound, Issued
  <2>2. z.lastReport \in Nat /\ z.lastReport >= s.lastReport
    BY <1>1, <1>4
  <2> QED BY <1>1, <1>3, <1>5, <1>6, <2>1, <2>2, ReportsChanged
<1>8. /\ Kept(b, s) => Kept(b, z)
      /\ NoOrphans(s) /\ row.counter \in DOMAIN s.counters => NoOrphans(z)
      /\ (Bare(s) => Bare(z)) /\ z.counters = s.counters
  BY <1>1, <1>2 DEF Kept, NoOrphans, Bare, OnlyReports
<1> QED BY <1>7, <1>8

LEMMA ReportUpdated ==
    ASSUME NEW s, NEW st, NEW b, Sound(s, st), Since(b, s),
           NEW r \in DOMAIN s.reports, NEW row \in ReportRow,
           row.counter = s.reports[r].counter, row.name = s.reports[r].name
    PROVE LET z == [s EXCEPT !.reports[r] = row] IN
          /\ Sound(z, st) /\ Since(b, z)
          /\ Kept(b, s) => Kept(b, z)
          /\ NoOrphans(s) => NoOrphans(z)
          /\ Bare(s) => Bare(z)
          /\ z.counters = s.counters
<1> DEFINE z == [s EXCEPT !.reports[r] = row]
<1>1. OnlyReports(s, z) /\ z.reports = [s.reports EXCEPT ![r] = row]
      /\ z.lastReport = s.lastReport
  BY DEF Sound, IsStore, OnlyReports, IsRecord
<1>2. s.reports \in [DOMAIN s.reports -> ReportRow] /\ s.lastReport \in Nat
      /\ DOMAIN s.reports \subseteq 1..s.lastReport
  BY DEF Sound, IsStore, IsTable
<1> HIDE DEF z
<1>3. /\ DOMAIN z.reports = DOMAIN s.reports /\ z.reports[r] = row
      /\ \A v \in DOMAIN s.reports : v # r => z.reports[v] = s.reports[v]
      /\ IsTable(z.reports, ReportRow, z.lastReport)
  BY <1>1, <1>2 DEF IsTable
<1>4. \A v \in DOMAIN s.reports : z.reports[v].counter = s.reports[v].counter
                                  /\ z.reports[v].name = s.reports[v].name
  BY <1>3
<1>5. Sound(z, st) /\ Since(b, z)
  <2>1. /\ \A v \in DOMAIN z.reports \ st.reports : z.reports[v].counter \in DOMAIN s.counters
        /\ \A v \in DOMAIN z.reports : z.reports[v].counter <= s.lastCounter
    BY <1>3, <1>4 DEF Sound, Issued
  <2>2. DOMAIN st = {"triggers", "reports"} /\ st.reports \subseteq 1..z.lastReport
    BY <1>1 DEF Sound
  <2>3. z.lastReport \in Nat /\ z.lastReport >= s.lastReport
    BY <1>1, <1>2
  <2> QED BY <1>1, <1>3, <2>1, <2>2, <2>3, ReportsChanged
<1>6. /\ Kept(b, s) => Kept(b, z)
      /\ NoOrphans(s) => NoOrphans(z)
      /\ (Bare(s) => Bare(z)) /\ z.counters = s.counters
  BY <1>1, <1>3, <1>4 DEF Kept, NoOrphans, Bare, OnlyReports
<1> QED BY <1>5, <1>6 DEF z

\* A counter's name and token change.
LEMMA CounterUpdated ==
    ASSUME NEW s, NEW st, NEW b, Sound(s, st), Since(b, s), NEW c \in DOMAIN s.counters,
           NEW label \in Labels, NEW token \in Tokens \union {NoToken},
           s.counters[c].token # NoToken => token # NoToken
    PROVE LET z == [s EXCEPT !.counters[c].label = label, !.counters[c].token = token] IN
          /\ Sound(z, st) /\ Since(b, z)
          /\ Kept(b, s) => Kept(b, z)
          /\ NoOrphans(s) => NoOrphans(z)
          /\ Bare(s) => Bare(z)
          /\ DOMAIN z.counters = DOMAIN s.counters
<1> DEFINE z == [s EXCEPT !.counters[c].label = label, !.counters[c].token = token]
           row == [s.counters[c] EXCEPT !.label = label, !.token = token]
<1>1. s.counters \in [DOMAIN s.counters -> CounterRow] /\ s.lastCounter \in Nat
      /\ DOMAIN s.counters \subseteq 1..s.lastCounter /\ s.counters[c] \in CounterRow
  BY DEF Sound, IsStore, IsTable
<1>2. /\ row \in CounterRow /\ row.cid = s.counters[c].cid /\ row.cursor = s.counters[c].cursor
      /\ s.counters[c].token # NoToken => row.token # NoToken
  BY <1>1 DEF CounterRow
<1>3. /\ DOMAIN z.counters = DOMAIN s.counters /\ z.counters[c] = row
      /\ \A d \in DOMAIN s.counters : d # c => z.counters[d] = s.counters[d]
      /\ z.counters \in [DOMAIN s.counters -> CounterRow]
  BY <1>1, <1>2 DEF Sound, IsStore
<1>4. /\ DOMAIN z = DOMAIN s /\ IsRecord(z) /\ z.lastCounter = s.lastCounter
      /\ z.triggers = s.triggers /\ z.reports = s.reports /\ z.actions = s.actions
      /\ z.cooldowns = s.cooldowns /\ z.alerts = s.alerts /\ z.snapshots = s.snapshots
      /\ z.schedule = s.schedule /\ z.lastTrigger = s.lastTrigger
      /\ z.lastReport = s.lastReport /\ z.lastAction = s.lastAction
  BY DEF Sound, IsStore, IsRecord
<1> HIDE DEF z, row
<1>5. \A d \in DOMAIN s.counters :
         /\ z.counters[d].cid = s.counters[d].cid /\ z.counters[d].cursor = s.counters[d].cursor
         /\ s.counters[d].token # NoToken => z.counters[d].token # NoToken
  BY <1>2, <1>3
<1>6. IsStore(z)
  BY <1>1, <1>3, <1>4 DEF Sound, IsStore, IsTable
<1>7. UniqueCids(z) /\ Issued(z)
  BY <1>3, <1>4, <1>5 DEF Sound, UniqueCids, Issued
<1>8. Sound(z, st) /\ Since(b, z)
  BY <1>3, <1>4, <1>5, <1>6, <1>7 DEF Sound, Since
<1>9. Kept(b, s) => Kept(b, z)
  BY <1>3, <1>4, <1>5 DEF Kept
<1>10. (NoOrphans(s) => NoOrphans(z)) /\ (Bare(s) => Bare(z))
  BY <1>3, <1>4 DEF NoOrphans, Bare
<1> QED BY <1>3, <1>8, <1>9, <1>10 DEF z

\* s and z differ in destinations and schedule only.
OnlyAside(s, z) ==
    /\ DOMAIN z = DOMAIN s /\ IsRecord(z)
    /\ z.counters = s.counters /\ z.triggers = s.triggers /\ z.reports = s.reports
    /\ z.cooldowns = s.cooldowns /\ z.alerts = s.alerts /\ z.snapshots = s.snapshots
    /\ z.lastCounter = s.lastCounter /\ z.lastTrigger = s.lastTrigger
    /\ z.lastReport = s.lastReport

LEMMA AsideChanged ==
    ASSUME NEW s, NEW z, NEW st, NEW b, Sound(s, st), Since(b, s), OnlyAside(s, z),
           z.lastAction \in Nat, IsTable(z.actions, ActionRow, z.lastAction),
           z.schedule \in Schedules \union {Unset}
    PROVE /\ Sound(z, st) /\ Since(b, z)
          /\ NoOrphans(s) => NoOrphans(z)
          /\ Bare(s) => Bare(z)
          /\ (\A a \in DOMAIN s.actions : a \in DOMAIN z.actions /\ z.actions[a].dest = s.actions[a].dest)
                => (Kept(b, s) => Kept(b, z))
<1>1. IsStore(z)
  BY DEF Sound, IsStore, OnlyAside
<1>2. Sound(z, st)
  BY <1>1 DEF Sound, UniqueCids, Issued, OnlyAside
<1>3. Since(b, z)
  BY DEF Since, OnlyAside
<1>4. (NoOrphans(s) => NoOrphans(z)) /\ (Bare(s) => Bare(z))
  BY DEF NoOrphans, Bare, OnlyAside
<1>5. ASSUME \A a \in DOMAIN s.actions : a \in DOMAIN z.actions /\ z.actions[a].dest = s.actions[a].dest,
             Kept(b, s)
      PROVE Kept(b, z)
  <2>1. \A a \in DOMAIN b.actions : a \in DOMAIN z.actions /\ z.actions[a].dest = b.actions[a].dest
    BY <1>5 DEF Kept
  <2> QED BY <1>5, <2>1 DEF Kept, OnlyAside
<1> QED BY <1>2, <1>3, <1>4, <1>5

LEMMA ActionCreated ==
    ASSUME NEW s, NEW st, NEW b, Sound(s, st), Since(b, s), NEW row \in ActionRow
    PROVE LET z == CreateAlertAction(s, row) IN
          /\ Sound(z, st) /\ Since(b, z)
          /\ Kept(b, s) => Kept(b, z)
          /\ NoOrphans(s) => NoOrphans(z)
          /\ Bare(s) => Bare(z)
          /\ z.counters = s.counters
<1> DEFINE n == s.lastAction + 1
           z == CreateAlertAction(s, row)
<1>1. OnlyAside(s, z) /\ z.actions = Put(s.actions, n, row) /\ z.lastAction = n
      /\ z.schedule = s.schedule /\ z.schedule \in Schedules \union {Unset}
  BY DEF CreateAlertAction, Sound, IsStore, OnlyAside, IsRecord
<1>2. /\ DOMAIN z.actions = DOMAIN s.actions \union {n} /\ z.actions[n] = row
      /\ n \notin DOMAIN s.actions /\ DOMAIN s.actions \subseteq 1..s.lastAction
      /\ \A a \in DOMAIN s.actions : z.actions[a] = s.actions[a]
  BY <1>1 DEF Put, Sound, IsStore, IsTable
<1>3. IsTable(z.actions, ActionRow, z.lastAction) /\ z.lastAction \in Nat
  BY <1>1, <1>2 DEF Put, Sound, IsStore, IsTable
<1>4. z.counters = s.counters
  BY <1>1 DEF OnlyAside
<1> HIDE DEF n, z
<1>5. \A a \in DOMAIN s.actions : a \in DOMAIN z.actions /\ z.actions[a].dest = s.actions[a].dest
  BY <1>2
<1> QED BY <1>1, <1>3, <1>4, <1>5, AsideChanged DEF z

LEMMA ActionRenamed ==
    ASSUME NEW s, NEW st, NEW b, Sound(s, st), Since(b, s), NEW a \in DOMAIN s.actions,
           NEW label \in Labels
    PROVE LET z == [s EXCEPT !.actions[a].label = label] IN
          /\ Sound(z, st) /\ Since(b, z)
          /\ Kept(b, s) => Kept(b, z)
          /\ NoOrphans(s) => NoOrphans(z)
          /\ Bare(s) => Bare(z)
          /\ z.counters = s.counters
<1> DEFINE z == [s EXCEPT !.actions[a].label = label]
           row == [s.actions[a] EXCEPT !.label = label]
<1>1. s.actions \in [DOMAIN s.actions -> ActionRow] /\ s.lastAction \in Nat
      /\ DOMAIN s.actions \subseteq 1..s.lastAction /\ s.actions[a] \in ActionRow
  BY DEF Sound, IsStore, IsTable
<1>2. row \in ActionRow /\ row.dest = s.actions[a].dest
  BY <1>1 DEF ActionRow
<1>3. OnlyAside(s, z) /\ z.actions = [s.actions EXCEPT ![a] = row]
      /\ z.lastAction = s.lastAction /\ z.schedule \in Schedules \union {Unset}
  BY <1>1 DEF Sound, IsStore, OnlyAside, IsRecord
<1> HIDE DEF z, row
<1>4. /\ IsTable(z.actions, ActionRow, z.lastAction) /\ z.lastAction \in Nat
      /\ \A d \in DOMAIN s.actions : d \in DOMAIN z.actions /\ z.actions[d].dest = s.actions[d].dest
  BY <1>1, <1>2, <1>3 DEF IsTable
<1>5. z.counters = s.counters
  BY <1>3 DEF OnlyAside
<1> QED BY <1>3, <1>4, <1>5, AsideChanged DEF z

LEMMA SettingSet ==
    ASSUME NEW s, NEW st, NEW b, Sound(s, st), Since(b, s), NEW at \in Schedules \union {Unset}
    PROVE LET z == SetSetting(s, at) IN
          /\ Sound(z, st) /\ Since(b, z)
          /\ Kept(b, s) => Kept(b, z)
          /\ NoOrphans(s) => NoOrphans(z)
          /\ Bare(s) => Bare(z)
          /\ z.counters = s.counters
<1> DEFINE z == SetSetting(s, at)
<1>1. /\ OnlyAside(s, z) /\ z.actions = s.actions
      /\ z.lastAction \in Nat /\ IsTable(z.actions, ActionRow, z.lastAction)
      /\ z.schedule \in Schedules \union {Unset}
      /\ z.counters = s.counters
  BY DEF SetSetting, Sound, IsStore, OnlyAside, IsRecord
<1> HIDE DEF z
<1> QED BY <1>1, AsideChanged DEF z

-----------------------------------------------------------------------------
(* Statements that take rows away, and those of the engine.                 *)

LEMMA ActionDeleted ==
    ASSUME NEW s, NEW st, Sound(s, st), NEW a
    PROVE LET z == DeleteAlertAction(s, a) IN
          Sound(z, st) /\ Since(s, z) /\ z.counters = s.counters
<1> DEFINE z == DeleteAlertAction(s, a)
<1>1. /\ OnlyAside(s, z)
      /\ z.lastAction \in Nat /\ IsTable(z.actions, ActionRow, z.lastAction)
      /\ z.schedule \in Schedules \union {Unset}
      /\ z.counters = s.counters
  BY DEF DeleteAlertAction, Without, Sound, IsStore, IsTable, OnlyAside, IsRecord
<1> HIDE DEF z
<1> QED BY <1>1, AsideChanged, SinceSelf DEF z

LEMMA TriggerDeleted ==
    ASSUME NEW s, NEW st, Sound(s, st), NEW t
    PROVE LET z == DeleteTrigger(s, t) IN
          Sound(z, st) /\ Since(s, z) /\ z.counters = s.counters
<1> DEFINE z == DeleteTrigger(s, t)
<1>1. OnlyTriggers(s, z) /\ z.triggers = Without(s.triggers, {t}) /\ z.lastTrigger = s.lastTrigger
  BY DEF DeleteTrigger, Sound, IsStore, OnlyTriggers, IsRecord
<1>2. z.lastTrigger \in Nat /\ z.lastTrigger >= s.lastTrigger
      /\ IsTable(z.triggers, TriggerRow, z.lastTrigger)
  BY <1>1 DEF Without, Sound, IsStore, IsTable
<1>3. DOMAIN z.triggers \subseteq DOMAIN s.triggers
      /\ \A v \in DOMAIN z.triggers : z.triggers[v] = s.triggers[v]
  BY <1>1 DEF Without
<1> HIDE DEF z
<1>4. /\ \A v \in DOMAIN z.triggers \ DOMAIN s.triggers : v > s.lastTrigger
      /\ DOMAIN st = {"triggers", "reports"} /\ st.triggers \subseteq 1..z.lastTrigger
      /\ \A v \in DOMAIN z.triggers \ st.triggers : z.triggers[v].counter \in DOMAIN s.counters
  BY <1>1, <1>3 DEF Sound
<1>5. z.counters = s.counters
  BY <1>1 DEF OnlyTriggers
<1> QED BY <1>1, <1>2, <1>4, <1>5, TriggersChanged, SinceSelf DEF z

LEMMA ReportDeleted ==
    ASSUME NEW s, NEW st, Sound(s, st), NEW r
    PROVE LET z == DeleteReport(s, r) IN
          Sound(z, st) /\ Since(s, z) /\ z.counters = s.counters
<1> DEFINE z == DeleteReport(s, r)
<1>1. OnlyReports(s, z) /\ z.reports = Without(s.reports, {r}) /\ z.lastReport = s.lastReport
  BY DEF DeleteReport, Sound, IsStore, OnlyReports, IsRecord
<1>2. z.lastReport \in Nat /\ z.lastReport >= s.lastReport
      /\ IsTable(z.reports, ReportRow, z.lastReport)
  BY <1>1 DEF Without, Sound, IsStore, IsTable
<1>3. DOMAIN z.reports \subseteq DOMAIN s.reports
      /\ \A v \in DOMAIN z.reports : z.reports[v] = s.reports[v]
  BY <1>1 DEF Without
<1> HIDE DEF z
<1>4. /\ \A v \in DOMAIN z.reports : z.reports[v].counter <= s.lastCounter
      /\ DOMAIN st = {"triggers", "reports"} /\ st.reports \subseteq 1..z.lastReport
      /\ \A v \in DOMAIN z.reports \ st.reports : z.reports[v].counter \in DOMAIN s.counters
  BY <1>1, <1>3 DEF Sound, Issued
<1>5. z.counters = s.counters
  BY <1>1 DEF OnlyReports
<1> QED BY <1>1, <1>2, <1>4, <1>5, ReportsChanged, SinceSelf DEF z

LEMMA CounterDeleted ==
    ASSUME NEW s, NEW st, Sound(s, st), NEW c \in DOMAIN s.counters
    PROVE LET z == DeleteCounter(s, c) IN Sound(z, st) /\ Since(s, z) /\ Whole(s, z)
<1> DEFINE z == DeleteCounter(s, c)
<1>1. /\ DOMAIN z = DOMAIN s /\ IsRecord(z)
      /\ z.reports = Without(s.reports, ReportsOf(s, c))
      /\ z.cooldowns = s.cooldowns \ TriggersOf(s, c)
      /\ z.triggers = Without(s.triggers, TriggersOf(s, c))
      /\ z.snapshots = s.snapshots \ {c}
      /\ z.alerts = {a \in s.alerts : a.counter # c}
      /\ z.counters = Without(s.counters, {c})
      /\ z.actions = s.actions /\ z.schedule = s.schedule
      /\ z.lastCounter = s.lastCounter /\ z.lastTrigger = s.lastTrigger
      /\ z.lastReport = s.lastReport /\ z.lastAction = s.lastAction
  BY DEF DeleteCounter, Sound, IsStore, IsRecord
<1> HIDE DEF z
<1>2. /\ DOMAIN z.counters = DOMAIN s.counters \ {c}
      /\ \A d \in DOMAIN z.counters : z.counters[d] = s.counters[d]
      /\ DOMAIN z.triggers = DOMAIN s.triggers \ TriggersOf(s, c)
      /\ \A t \in DOMAIN z.triggers : z.triggers[t] = s.triggers[t] /\ s.triggers[t].counter # c
      /\ DOMAIN z.reports = DOMAIN s.reports \ ReportsOf(s, c)
      /\ \A r \in DOMAIN z.reports : z.reports[r] = s.reports[r] /\ s.reports[r].counter # c
  BY <1>1 DEF Without, TriggersOf, ReportsOf
<1>3. /\ IsTable(z.counters, CounterRow, z.lastCounter)
      /\ IsTable(z.triggers, TriggerRow, z.lastTrigger)
      /\ IsTable(z.reports, ReportRow, z.lastReport)
  BY <1>1, <1>2 DEF Without, Sound, IsStore, IsTable
<1>4. IsStore(z)
  BY <1>1, <1>3 DEF Sound, IsStore
<1>5. UniqueCids(z) /\ Issued(z)
  BY <1>1, <1>2 DEF Sound, UniqueCids, Issued
<1>6. Sound(z, st)
  BY <1>1, <1>2, <1>4, <1>5 DEF Sound
<1>7. Since(s, z)
  BY <1>1, <1>2, SinceSelf DEF Since
<1>8. Whole(s, z)
  BY <1>1, <1>2 DEF Whole, TriggersOf, ReportsOf
<1> QED BY <1>6, <1>7, <1>8 DEF z

LEMMA SnapshotWritten ==
    ASSUME NEW s, NEW st, Sound(s, st), NEW c \in Ids, c <= s.lastCounter
    PROVE LET z == CreateReportSnapshot(s, c) IN
          Sound(z, st) /\ Since(s, z) /\ DOMAIN z.counters = DOMAIN s.counters
<1> DEFINE z == CreateReportSnapshot(s, c)
<1>1. /\ DOMAIN z = DOMAIN s /\ IsRecord(z) /\ z.snapshots = s.snapshots \union {c}
      /\ z.counters = s.counters /\ z.triggers = s.triggers /\ z.reports = s.reports
      /\ z.actions = s.actions /\ z.cooldowns = s.cooldowns /\ z.alerts = s.alerts
      /\ z.schedule = s.schedule
      /\ z.lastCounter = s.lastCounter /\ z.lastTrigger = s.lastTrigger
      /\ z.lastReport = s.lastReport /\ z.lastAction = s.lastAction
  BY DEF CreateReportSnapshot, Sound, IsStore, IsRecord
<1> HIDE DEF z
<1>2. IsStore(z) /\ UniqueCids(z) /\ Issued(z)
  BY <1>1 DEF Sound, IsStore, UniqueCids, Issued
<1>3. Sound(z, st) /\ Since(s, z)
  BY <1>1, <1>2, SinceSelf DEF Sound, Since
<1> QED BY <1>1, <1>3 DEF z

LEMMA AlertWritten ==
    ASSUME NEW s, NEW st, Sound(s, st), NEW c \in Ids, c <= s.lastCounter,
           NEW t \in Ids, t <= s.lastTrigger
    PROVE LET z == SetLastHourChecked(RecordTriggerFire(CreateAlert(s, c, t), t), c) IN
          Sound(z, st) /\ Since(s, z) /\ DOMAIN z.counters = DOMAIN s.counters
<1> DEFINE y == RecordTriggerFire(CreateAlert(s, c, t), t)
           z == SetLastHourChecked(y, c)
<1>1. /\ DOMAIN y = DOMAIN s /\ IsRecord(y)
      /\ y.alerts = s.alerts \union {[counter |-> c, trigger |-> t]}
      /\ y.cooldowns = s.cooldowns \union {t}
      /\ y.counters = s.counters /\ y.triggers = s.triggers /\ y.reports = s.reports
      /\ y.actions = s.actions /\ y.snapshots = s.snapshots /\ y.schedule = s.schedule
      /\ y.lastCounter = s.lastCounter /\ y.lastTrigger = s.lastTrigger
      /\ y.lastReport = s.lastReport /\ y.lastAction = s.lastAction
  BY DEF RecordTriggerFire, CreateAlert, Sound, IsStore, IsRecord
<1> HIDE DEF y
<1>2. IsStore(y) /\ UniqueCids(y) /\ Issued(y)
  BY <1>1 DEF Sound, IsStore, UniqueCids, Issued
<1>3. Sound(y, st) /\ Since(s, y)
  BY <1>1, <1>2, SinceSelf DEF Sound, Since, Issued
<1>4. CASE c \in DOMAIN s.counters
  <2> DEFINE row == [s.counters[c] EXCEPT !.cursor = TRUE]
  <2>1. s.counters \in [DOMAIN s.counters -> CounterRow] /\ s.counters[c] \in CounterRow
    BY <1>4 DEF Sound, IsStore, IsTable
  <2>2. row \in CounterRow /\ row.cid = s.counters[c].cid
    BY <2>1 DEF CounterRow
  <2>3. /\ DOMAIN z = DOMAIN y /\ IsRecord(z) /\ z.counters = [s.counters EXCEPT ![c] = row]
        /\ z.alerts = y.alerts /\ z.cooldowns = y.cooldowns
        /\ z.triggers = y.triggers /\ z.reports = y.reports
        /\ z.actions = y.actions /\ z.snapshots = y.snapshots /\ z.schedule = y.schedule
        /\ z.lastCounter = y.lastCounter /\ z.lastTrigger = y.lastTrigger
        /\ z.lastReport = y.lastReport /\ z.lastAction = y.lastAction
    BY <1>1, <1>4, <2>1 DEF SetLastHourChecked, Sound, IsStore, IsRecord
  <2> HIDE DEF z, row
  <2>4. /\ DOMAIN z.counters = DOMAIN s.counters
        /\ z.counters \in [DOMAIN s.counters -> CounterRow]
        /\ \A d \in DOMAIN s.counters : z.counters[d].cid = s.counters[d].cid
    BY <1>4, <2>1, <2>2, <2>3
  <2>5. IsStore(z)
    BY <1>1, <1>2, <2>3, <2>4 DEF IsStore, IsTable
  <2>6. UniqueCids(z) /\ Issued(z)
    BY <1>1, <1>2, <2>3, <2>4 DEF UniqueCids, Issued
  <2>7. Sound(z, st)
    BY <1>1, <1>3, <2>3, <2>4, <2>5, <2>6 DEF Sound
  <2>8. Since(s, z)
    BY <1>1, <1>3, <2>3, <2>4 DEF Since
  <2> QED BY <2>4, <2>7, <2>8 DEF z, y
<1>5. CASE c \notin DOMAIN s.counters
  BY <1>1, <1>3, <1>5 DEF SetLastHourChecked, y
<1> QED BY <1>4, <1>5

\* A replacing import starts from no rows and no history.
LEMMA ClearedSound ==
    ASSUME NEW s, NEW st, Sound(s, st), NEW f
    PROVE LET z == Cleared(s, f) IN
          Sound(z, st) /\ Since(s, z) /\ NoOrphans(z) /\ Bare(z) /\ z.counters = Empty.counters
<1> DEFINE z == Cleared(s, f)
<1>1. /\ DOMAIN z = DOMAIN s /\ IsRecord(z) /\ DOMAIN z.counters = {} /\ DOMAIN z.triggers = {}
      /\ DOMAIN z.reports = {} /\ z.actions \in {Empty.actions, s.actions}
      /\ z.cooldowns = {} /\ z.alerts = {} /\ z.snapshots = {}
      /\ z.schedule = s.schedule /\ z.counters = Empty.counters
      /\ z.lastCounter = s.lastCounter /\ z.lastTrigger = s.lastTrigger
      /\ z.lastReport = s.lastReport /\ z.lastAction = s.lastAction
  BY DEF Cleared, Empty, Sound, IsStore, IsRecord
<1>2. /\ z.counters \in [{} -> CounterRow] /\ z.triggers \in [{} -> TriggerRow]
      /\ z.reports \in [{} -> ReportRow] /\ Empty.actions \in [{} -> ActionRow]
      /\ DOMAIN Empty.actions = {}
  BY DEF Cleared, Empty
<1> HIDE DEF z
<1>3. IsStore(z)
  BY <1>1, <1>2 DEF Sound, IsStore, IsTable
<1>4. UniqueCids(z) /\ Issued(z) /\ NoOrphans(z) /\ Bare(z)
  BY <1>1 DEF UniqueCids, Issued, NoOrphans, Bare
<1>5. Sound(z, st)
  BY <1>1, <1>3, <1>4 DEF Sound
<1>6. Since(s, z)
  BY <1>1, SinceSelf DEF Since
<1> QED BY <1>1, <1>4, <1>5, <1>6 DEF z

-----------------------------------------------------------------------------
(* The inductive invariant: the store and the copy an import works on are   *)
(* sound, the copy comes from the store, and what the program holds besides  *)
(* them refers to ids that were handed out.                                  *)

Control ==
    /\ tx # NoTx =>
          /\ DOMAIN tx = {"by", "file", "at", "replace", "flow", "store"}
          /\ tx.by \in Users /\ tx.flow \in BOOLEAN /\ tx.replace \in BOOLEAN
          /\ tx.at \in Ids
          /\ Readable(tx.file)
    /\ export # NoExport =>
          /\ DOMAIN export = {"by", "rows", "left", "part", "counters", "triggers", "reports", "rest"}
          /\ export.by \in Users
    /\ pending \in [Users -> Flow \union {NoFlow}]
    /\ job \in Job \union {NoJob}
    /\ again \in [Users -> Schedules \union {Unset}]
    /\ writes \in 0..MaxWrites
    /\ odd \in BOOLEAN

Held ==
    /\ \A u \in Users : pending[u] # NoFlow =>
          u \in Admins /\ pending[u].counter <= db.lastCounter
    /\ job # NoJob => job.counter <= db.lastCounter /\ job.trigger <= db.lastTrigger

Copy ==
    tx # NoTx =>
       /\ Sound(tx.store, strays) /\ Since(db, tx.store)
       /\ tx.replace => NoOrphans(tx.store) /\ Bare(tx.store)
       /\ ~tx.replace => Kept(db, tx.store)

IInv == Control /\ Sound(db, strays) /\ Held /\ Copy

\* What a step may do to the store.
Step ==
    /\ Since(db, db') /\ Whole(db, db')
    /\ tx # NoTx /\ ~tx.replace => Kept(db, db')

LEMMA Invariants == IInv => TypeOK /\ ReferencesIssued /\ OrphansAreStrays
<1> SUFFICES ASSUME IInv PROVE TypeOK /\ ReferencesIssued /\ OrphansAreStrays
  OBVIOUS
<1>1. TypeOK
  BY DEF IInv, Control, Copy, Sound, TypeOK
<1>2. OrphansAreStrays
  BY DEF IInv, Sound, OrphansAreStrays
<1>3. ReferencesIssued
  <2>1. \A t \in DOMAIN db.triggers \ strays.triggers : db.triggers[t].counter <= db.lastCounter
    BY DEF IInv, Sound, IsStore, IsTable
  <2> QED BY <2>1 DEF IInv, Held, Sound, ReferencesIssued
<1> QED BY <1>1, <1>2, <1>3

LEMMA FlowCounter == \A f \in Flow : f.counter \in Nat
<1> SUFFICES ASSUME NEW f \in Flow PROVE f.counter \in Nat
  OBVIOUS
<1>1. CASE f \in [kind : {"counter", "action", "import"}, counter : {0}, replace : BOOLEAN]
  BY <1>1
<1>2. CASE f \in [kind : {"trigger", "report"}, counter : Ids, replace : {FALSE}]
  BY <1>2 DEF Ids
<1> QED BY <1>1, <1>2 DEF Flow

LEMMA KeptSelf == \A s : Kept(s, s)
BY DEF Kept

LEMMA InitInv == Init => IInv
<1> SUFFICES ASSUME Init PROVE IInv
  OBVIOUS
<1>1. IsStore(db) /\ UniqueCids(db) /\ Issued(db) /\ NoOrphans(db)
  BY AdminAssumption DEF Init
<1>2. Sound(db, strays)
  BY <1>1 DEF Init, Sound, NoOrphans
<1>3. Control
  <2>1. odd \in BOOLEAN
    BY DEF Init
  <2>2. pending \in [Users -> Flow \union {NoFlow}] /\ again \in [Users -> Schedules \union {Unset}]
    BY DEF Init
  <2>3. writes \in 0..MaxWrites /\ job \in Job \union {NoJob}
    BY AdminAssumption DEF Init
  <2> QED BY <2>1, <2>2, <2>3 DEF Init, Control
<1>4. Held /\ Copy
  BY DEF Init, Held, Copy
<1> QED BY <1>2, <1>3, <1>4 DEF IInv

\* A step that leaves the database, the copy and the strays alone.
LEMMA NotWritten ==
    ASSUME IInv, UNCHANGED <<db, tx, strays>>, Control', Held'
    PROVE IInv' /\ Step
<1>1. Sound(db', strays') /\ Copy'
  BY DEF IInv, Copy
<1>2. Step
  BY SinceSelf, KeptSelf DEF IInv, Step
<1> QED BY <1>1, <1>2 DEF IInv

\* A statement of a user or a client.
LEMMA Written ==
    ASSUME IInv, NEW s, Write(s), pending' = pending \/ \E u \in Users : Done(u),
           odd' \in BOOLEAN, Sound(s, strays'), Since(db, s), Whole(db, s)
    PROVE IInv' /\ Step
<1>1. tx = NoTx /\ tx' = NoTx /\ db' = s /\ job' = job
  BY DEF Write
<1>2. \A u \in Users : pending'[u] \in {pending[u], NoFlow}
  BY DEF Done, IInv, Control
<1>3. Control'
  <2>1. pending' \in [Users -> Flow \union {NoFlow}]
    BY DEF Done, IInv, Control
  <2>2. writes' \in 0..MaxWrites
    BY AdminAssumption DEF Write, IInv, Control
  <2> QED BY <1>1, <2>1, <2>2 DEF Write, IInv, Control
<1>4. Held'
  <2>1. ASSUME NEW u \in Users, pending'[u] # NoFlow
        PROVE u \in Admins /\ pending'[u].counter <= db'.lastCounter
    <3>1. pending'[u] = pending[u] /\ pending[u] \in Flow
      BY <1>2, <2>1 DEF IInv, Control
    <3>2. db.lastCounter <= db'.lastCounter /\ db.lastCounter \in Nat /\ db'.lastCounter \in Nat
      BY <1>1 DEF Since, Sound, IsStore
    <3> QED BY <2>1, <3>1, <3>2, FlowCounter DEF IInv, Held
  <2>2. job' # NoJob => job'.counter <= db'.lastCounter /\ job'.trigger <= db'.lastTrigger
    <3> SUFFICES ASSUME job # NoJob
                 PROVE job.counter <= db'.lastCounter /\ job.trigger <= db'.lastTrigger
      BY <1>1
    <3>1. job \in Job
      BY DEF IInv, Control
    <3> QED BY <1>1, <3>1 DEF IInv, Held, Since, Sound, IsStore, Job, Ids
  <2> QED BY <2>1, <2>2 DEF Held
<1>5. Copy' /\ Step
  BY <1>1 DEF Copy, Step
<1> QED BY <1>1, <1>3, <1>4, <1>5 DEF IInv

-----------------------------------------------------------------------------
(* Entries of a file.                                                       *)

LEMMA EntryTyped ==
    ASSUME NEW f, NEW i \in DOMAIN f, Readable(f)
    PROVE LET e == f[i] IN
          /\ e.kind = "counter" =>
                e.cid \in Cids /\ e.label \in Labels /\ e.token \in Tokens \union {NoToken}
          /\ e.kind = "trigger" =>
                e.cid \in Cids /\ e.name \in Names /\ e.weeks \in Int /\ e.floor \in Int /\ e.on \in BOOLEAN
          /\ e.kind = "report" =>
                e.cid \in Cids /\ e.name \in Names /\ e.period \in Periods /\ e.on \in BOOLEAN
          /\ e.kind = "action" => e.dest \in Dests /\ e.label \in Labels
          /\ e.kind = "schedule" => e.at \in Schedules
<1>1. f[i] \in Entry
  BY DEF Readable, Valid
<1> QED BY <1>1 DEF Entry

LEMMA RowsTyped ==
    ASSUME NEW e, NEW c \in Ids
    PROVE /\ e.name \in Names /\ e.weeks \in Int /\ e.floor \in Int /\ e.on \in BOOLEAN =>
                TriggerOf(c, e) \in TriggerRow
          /\ e.name \in Names /\ e.period \in Periods /\ e.on \in BOOLEAN =>
                ReportOf(c, e) \in ReportRow
BY DEF TriggerOf, ReportOf, TriggerRow, ReportRow, Weeks

\* The copy after a statement of an import.
Imports(z) ==
    /\ Sound(z, strays) /\ Since(db, z)
    /\ tx.replace => NoOrphans(z) /\ Bare(z)
    /\ ~tx.replace => Kept(db, z)

\* What is shown of a copy shows the step.
LEMMA AppliedCopy ==
    ASSUME IInv, NEW z, tx # NoTx, Applied(z), Imports(z),
           UNCHANGED <<pending, job, again, writes, history>>
    PROVE IInv' /\ Step
<1>1. DOMAIN tx = {"by", "file", "at", "replace", "flow", "store"} /\ tx.at \in Ids
  BY DEF IInv, Control
<1>2. /\ DOMAIN tx' = DOMAIN tx /\ tx'.store = z /\ tx'.at = tx.at + 1 /\ tx'.by = tx.by
      /\ tx'.file = tx.file /\ tx'.replace = tx.replace /\ tx'.flow = tx.flow
  BY <1>1 DEF Applied
<1>3. Control'
  BY <1>1, <1>2 DEF IInv, Control, Applied, history, Ids
<1>4. Held'
  BY DEF IInv, Held, Applied
<1>5. Copy'
  BY <1>2 DEF Copy, Imports, Applied, history
<1>6. Sound(db', strays') /\ Step
  BY SinceSelf, KeptSelf DEF IInv, Step, Applied, history
<1> QED BY <1>3, <1>4, <1>5, <1>6 DEF IInv

LEMMA ImportCounterStep ==
    ASSUME IInv, ImportCounter, UNCHANGED <<pending, job, again, writes, history>>
    PROVE IInv' /\ Step
<1> DEFINE s == tx.store
           e == tx.file[tx.at]
<1>1. tx # NoTx /\ Imports(s)
  BY DEF ImportCounter, At, IInv, Copy, Imports
<1>2. e.cid \in Cids /\ e.label \in Labels /\ e.token \in Tokens \union {NoToken}
  BY EntryTyped DEF ImportCounter, At, IInv, Control
<1>3. ASSUME CidFree(s, e.cid), Applied(CreateCounter(s, e.cid, e.label, e.token))
      PROVE IInv' /\ Step
  <2>1. Imports(CreateCounter(s, e.cid, e.label, e.token))
    BY <1>1, <1>2, <1>3, CounterCreated DEF Imports
  <2> QED BY <1>1, <1>3, <2>1, AppliedCopy
<1>4. ASSUME NEW c \in DOMAIN s.counters, ~tx.replace,
             Applied([s EXCEPT !.counters[c].label = e.label,
                               !.counters[c].token = IF e.token = NoToken THEN @ ELSE e.token])
      PROVE IInv' /\ Step
  <2> DEFINE token == IF e.token = NoToken THEN s.counters[c].token ELSE e.token
             z == [s EXCEPT !.counters[c].label = e.label, !.counters[c].token = token]
  <2>1. s.counters[c].token \in Tokens \union {NoToken}
    BY <1>1 DEF Imports, Sound, IsStore, IsTable, CounterRow
  <2>2. token \in Tokens \union {NoToken} /\ (s.counters[c].token # NoToken => token # NoToken)
    BY <1>2, <2>1
  <2> HIDE DEF token
  <2>3. Imports(z)
    BY <1>1, <1>2, <1>4, <2>2, CounterUpdated DEF Imports
  <2>4. Applied(z)
    BY <1>1, <1>4 DEF token, Imports, Sound, IsStore, IsTable, CounterRow
  <2> QED BY <1>1, <2>3, <2>4, AppliedCopy
<1> QED BY <1>3, <1>4 DEF ImportCounter

LEMMA ImportTriggerStep ==
    ASSUME IInv, ImportTrigger, UNCHANGED <<pending, job, again, writes, history>>
    PROVE IInv' /\ Step
<1> DEFINE s == tx.store
           e == tx.file[tx.at]
<1>1. tx # NoTx /\ Imports(s)
  BY DEF ImportTrigger, At, IInv, Copy, Imports
<1>2. e.name \in Names /\ e.weeks \in Int /\ e.floor \in Int /\ e.on \in BOOLEAN
  BY EntryTyped DEF ImportTrigger, At, IInv, Control
<1>3. ASSUME NEW c \in DOMAIN s.counters, Applied(CreateTrigger(s, TriggerOf(c, e)))
      PROVE IInv' /\ Step
  <2>1. TriggerOf(c, e) \in TriggerRow /\ TriggerOf(c, e).counter = c
    <3>1. c \in Ids
      BY <1>1 DEF Imports, Sound, IsStore, IsTable, Ids
    <3>2. TriggerOf(c, e) \in TriggerRow
      BY <1>2, <3>1, RowsTyped
    <3> QED BY <3>2 DEF TriggerOf
  <2>2. Imports(CreateTrigger(s, TriggerOf(c, e)))
    BY <1>1, <2>1, TriggerCreated DEF Imports
  <2> QED BY <1>1, <1>3, <2>2, AppliedCopy
<1>4. ASSUME NEW c \in DOMAIN s.counters, ~tx.replace,
             NEW t \in FirstNamed(s.triggers, TriggersOf(s, c), e.name),
             Applied([s EXCEPT !.triggers[t] = TriggerOf(c, e)])
      PROVE IInv' /\ Step
  <2>1. /\ t \in DOMAIN s.triggers
        /\ s.triggers[t].counter = c /\ s.triggers[t].name = e.name
    BY DEF FirstNamed, TriggersOf
  <2>2. /\ TriggerOf(c, e) \in TriggerRow
        /\ TriggerOf(c, e).counter = c /\ TriggerOf(c, e).name = e.name
    <3>1. c \in Ids
      BY <1>1 DEF Imports, Sound, IsStore, IsTable, Ids
    <3>2. TriggerOf(c, e) \in TriggerRow
      BY <1>2, <3>1, RowsTyped
    <3> QED BY <3>2 DEF TriggerOf
  <2>3. Imports([s EXCEPT !.triggers[t] = TriggerOf(c, e)])
    BY <1>1, <2>1, <2>2, TriggerUpdated DEF Imports
  <2> QED BY <1>1, <1>4, <2>3, AppliedCopy
<1> QED BY <1>3, <1>4 DEF ImportTrigger

LEMMA ImportReportStep ==
    ASSUME IInv, ImportReport, UNCHANGED <<pending, job, again, writes, history>>
    PROVE IInv' /\ Step
<1> DEFINE s == tx.store
           e == tx.file[tx.at]
<1>1. tx # NoTx /\ Imports(s)
  BY DEF ImportReport, At, IInv, Copy, Imports
<1>2. e.name \in Names /\ e.period \in Periods /\ e.on \in BOOLEAN
  BY EntryTyped DEF ImportReport, At, IInv, Control
<1>3. ASSUME NEW c \in DOMAIN s.counters, Applied(CreateReport(s, ReportOf(c, e)))
      PROVE IInv' /\ Step
  <2>1. ReportOf(c, e) \in ReportRow /\ ReportOf(c, e).counter = c /\ c <= s.lastCounter
    <3>1. c \in Ids /\ c <= s.lastCounter
      BY <1>1 DEF Imports, Sound, IsStore, IsTable, Ids
    <3>2. ReportOf(c, e) \in ReportRow
      BY <1>2, <3>1, RowsTyped
    <3> QED BY <3>1, <3>2 DEF ReportOf
  <2>2. Imports(CreateReport(s, ReportOf(c, e)))
    BY <1>1, <2>1, ReportCreated DEF Imports
  <2> QED BY <1>1, <1>3, <2>2, AppliedCopy
<1>4. ASSUME NEW c \in DOMAIN s.counters, ~tx.replace,
             NEW r \in FirstNamed(s.reports, ReportsOf(s, c), e.name),
             Applied([s EXCEPT !.reports[r] = ReportOf(c, e)])
      PROVE IInv' /\ Step
  <2>1. /\ r \in DOMAIN s.reports
        /\ s.reports[r].counter = c /\ s.reports[r].name = e.name
    BY DEF FirstNamed, ReportsOf
  <2>2. /\ ReportOf(c, e) \in ReportRow
        /\ ReportOf(c, e).counter = c /\ ReportOf(c, e).name = e.name
    <3>1. c \in Ids
      BY <1>1 DEF Imports, Sound, IsStore, IsTable, Ids
    <3>2. ReportOf(c, e) \in ReportRow
      BY <1>2, <3>1, RowsTyped
    <3> QED BY <3>2 DEF ReportOf
  <2>3. Imports([s EXCEPT !.reports[r] = ReportOf(c, e)])
    BY <1>1, <2>1, <2>2, ReportUpdated DEF Imports
  <2> QED BY <1>1, <1>4, <2>3, AppliedCopy
<1> QED BY <1>3, <1>4 DEF ImportReport

LEMMA ImportAsideStep ==
    ASSUME IInv, ImportAction \/ ImportSchedule, UNCHANGED <<pending, job, again, writes, history>>
    PROVE IInv' /\ Step
<1> DEFINE s == tx.store
           e == tx.file[tx.at]
<1>1. tx # NoTx /\ Imports(s)
  BY DEF ImportAction, ImportSchedule, At, IInv, Copy, Imports
<1>2. (e.kind = "action" => e.dest \in Dests /\ e.label \in Labels)
      /\ (e.kind = "schedule" => e.at \in Schedules)
  BY EntryTyped DEF ImportAction, ImportSchedule, At, IInv, Control
<1>3. ASSUME ImportSchedule PROVE IInv' /\ Step
  <2>1. Imports(SetSetting(s, e.at))
    BY <1>1, <1>2, <1>3, SettingSet DEF Imports, ImportSchedule, At
  <2> QED BY <1>1, <1>3, <2>1, AppliedCopy DEF ImportSchedule
<1>4. ASSUME ImportAction PROVE IInv' /\ Step
  <2>1. e.dest \in Dests /\ e.label \in Labels
    BY <1>2, <1>4 DEF ImportAction, At
  <2>2. ASSUME Applied(CreateAlertAction(s, [dest |-> e.dest, label |-> e.label]))
        PROVE IInv' /\ Step
    <3>1. Imports(CreateAlertAction(s, [dest |-> e.dest, label |-> e.label]))
      BY <1>1, <2>1, ActionCreated DEF Imports, ActionRow
    <3> QED BY <1>1, <2>2, <3>1, AppliedCopy
  <2>3. ASSUME NEW a \in DOMAIN s.actions, Applied([s EXCEPT !.actions[a].label = e.label])
        PROVE IInv' /\ Step
    <3>1. Imports([s EXCEPT !.actions[a].label = e.label])
      BY <1>1, <2>1, ActionRenamed DEF Imports
    <3> QED BY <1>1, <2>3, <3>1, AppliedCopy
  <2> QED BY <1>4, <2>2, <2>3 DEF ImportAction
<1> QED BY <1>3, <1>4

-----------------------------------------------------------------------------
(* The steps of Admin.                                                      *)

\* A command that writes nothing.
LEMMA Commanded ==
    ASSUME IInv, NEW u \in Users, NEW flow \in Flow \union {NoFlow}, Command(u, flow),
           flow # NoFlow => flow.counter <= db.lastCounter,
           UNCHANGED <<db, tx, export, job, again, writes, strays, odd>>
    PROVE IInv' /\ Step
<1>1. Control'
  BY DEF IInv, Control, Command
<1>2. Held'
  BY DEF IInv, Held, Control, Command
<1> QED BY <1>1, <1>2, NotWritten

LEMMA AsksStep ==
    ASSUME IInv, NEW u \in Users, Asks(u)
    PROVE IInv' /\ Step
<1>1. ASSUME NEW kind, NEW c, NEW replace, Asking(kind, c, replace) \in Flow,
             c <= db.lastCounter, Command(u, Asking(kind, c, replace)), NoWrite
      PROVE IInv' /\ Step
  <2>1. Asking(kind, c, replace).counter = c
    BY DEF Asking
  <2> HIDE DEF Asking
  <2> QED BY <1>1, <2>1, Commanded DEF NoWrite, history
<1>2. 0 <= db.lastCounter /\ \A c \in DOMAIN db.counters : c \in Ids /\ c <= db.lastCounter
  BY DEF IInv, Sound, IsStore, IsTable, Ids
<1>3. ASSUME Look(u) PROVE IInv' /\ Step
  BY <1>3, Commanded DEF Look, NoWrite, history
<1>4. ASSUME AskCounter(u) \/ AskAction(u) PROVE IInv' /\ Step
  BY <1>1, <1>2, <1>4 DEF AskCounter, AskAction, Asking, Flow
<1>5. ASSUME NEW c \in DOMAIN db.counters, AskTrigger(u, c) \/ AskReport(u, c) PROVE IInv' /\ Step
  BY <1>1, <1>2, <1>5 DEF AskTrigger, AskReport, Asking, Flow
<1>6. ASSUME NEW replace \in BOOLEAN, AskImport(u, replace) PROVE IInv' /\ Step
  BY <1>1, <1>2, <1>6 DEF AskImport, Asking, Flow
<1> QED BY <1>3, <1>4, <1>5, <1>6 DEF Asks

\* A flow that is answered.
LEMMA Answered ==
    ASSUME IInv, NEW u \in Users, NEW kind, Answer(u, kind)
    PROVE /\ pending[u].counter <= db.lastCounter
          /\ kind \in {"trigger", "report"} => pending[u].counter \in Ids
BY DEF Answer, IInv, Control, Held, Flow

\* Rows that are only added leave every counter whole.
LEMMA WholeIfKept ==
    ASSUME NEW b, NEW s, DOMAIN b.counters \subseteq DOMAIN s.counters
    PROVE Whole(b, s)
BY DEF Whole

LEMMA RuleStored ==
    ASSUME IInv, NEW c \in Ids, NEW in \in RuleInput, NEW weeks \in Int \ {0},
           Write(CreateTrigger(db, Rule(c, in, weeks))), StrayTrigger(c),
           pending' = pending \/ \E u \in Users : Done(u), odd' \in BOOLEAN
    PROVE IInv' /\ Step
<1> DEFINE row == Rule(c, in, weeks)
<1>1. row \in TriggerRow /\ row.counter = c
  BY DEF Rule, TriggerRow, RuleInput
<1>2. strays' = IF row.counter \in DOMAIN db.counters THEN strays
                ELSE [strays EXCEPT !.triggers = @ \union {db.lastTrigger + 1}]
  BY <1>1 DEF StrayTrigger
<1>3. Sound(db, strays) /\ Since(db, db)
  BY SinceSelf DEF IInv
<1> HIDE DEF row
<1>4. /\ Sound(CreateTrigger(db, row), strays') /\ Since(db, CreateTrigger(db, row))
      /\ CreateTrigger(db, row).counters = db.counters
  BY <1>1, <1>2, <1>3, TriggerCreated
<1>5. Whole(db, CreateTrigger(db, row))
  BY <1>4, WholeIfKept
<1> QED BY <1>4, <1>5, Written DEF row

LEMMA CounterStored ==
    ASSUME IInv, NEW in \in CounterInput, CidFree(db, in.cid),
           Write(CreateCounter(db, in.cid, in.label, in.token)),
           pending' = pending \/ \E u \in Users : Done(u), odd' \in BOOLEAN, strays' = strays
    PROVE IInv' /\ Step
<1> DEFINE z == CreateCounter(db, in.cid, in.label, in.token)
<1>1. in.cid \in Cids /\ in.label \in Labels /\ in.token \in Tokens \union {NoToken}
  BY DEF CounterInput
<1>2. Sound(db, strays) /\ Since(db, db)
  BY SinceSelf DEF IInv
<1>3. Sound(z, strays') /\ Since(db, z) /\ DOMAIN db.counters \subseteq DOMAIN z.counters
  BY <1>1, <1>2, CounterCreated
<1> HIDE DEF z
<1>4. Whole(db, z)
  BY <1>3, WholeIfKept
<1> QED BY <1>3, <1>4, Written DEF z

LEMMA SavesStep ==
    ASSUME IInv, NEW u \in Users, Saves(u)
    PROVE IInv' /\ Step
<1>a. odd' = odd => odd' \in BOOLEAN
  BY DEF IInv, Control
<1>1. ASSUME NEW in \in CounterInputs, SaveCounter(u, in) PROVE IInv' /\ Step
  BY <1>1, <1>a, CounterStored, AdminAssumption DEF SaveCounter, Plain
<1>2. ASSUME NEW in \in RuleInputs, SaveTrigger(u, in) PROVE IInv' /\ Step
  <2>1. pending[u].counter \in Ids
    BY <1>2, Answered DEF SaveTrigger
  <2>2. in \in RuleInput /\ Weeks(in.weeks) \in Int \ {0}
    BY AdminAssumption DEF RuleInput, Weeks
  <2> QED BY <1>2, <1>a, <2>1, <2>2, RuleStored DEF SaveTrigger
<1>3. ASSUME NEW in \in ReportInputs, SaveReport(u, in) PROVE IInv' /\ Step
  <2> DEFINE c == pending[u].counter
             row == [counter |-> c, name |-> in.name, period |-> in.period, on |-> TRUE]
             z == CreateReport(db, row)
  <2>1. c \in Ids /\ c <= db.lastCounter
    BY <1>3, Answered DEF SaveReport
  <2>2. row \in ReportRow /\ row.counter = c
    BY <2>1, AdminAssumption DEF ReportInput, ReportRow
  <2>3. Sound(db, strays) /\ Since(db, db)
    BY SinceSelf DEF IInv
  <2>4. strays' = IF row.counter \in DOMAIN db.counters THEN strays
                  ELSE [strays EXCEPT !.reports = @ \union {db.lastReport + 1}]
    BY <1>3, <2>2 DEF SaveReport
  <2>5. Write(z) /\ Done(u) /\ odd' = odd
    BY <1>3 DEF SaveReport
  <2> HIDE DEF row, c
  <2>6. Sound(z, strays') /\ Since(db, z) /\ z.counters = db.counters
    BY <2>1, <2>2, <2>3, <2>4, ReportCreated
  <2>7. Whole(db, z)
    BY <2>6, WholeIfKept
  <2> QED BY <1>a, <2>5, <2>6, <2>7, Written
<1>4. ASSUME NEW row \in ActionInputs, SaveAlertAction(u, row) PROVE IInv' /\ Step
  <2> DEFINE z == CreateAlertAction(db, row)
  <2>1. Sound(db, strays) /\ Since(db, db) /\ row \in ActionRow
    BY SinceSelf, AdminAssumption DEF IInv
  <2>2. Sound(z, strays) /\ Since(db, z) /\ z.counters = db.counters
    BY <2>1, ActionCreated
  <2>3. Whole(db, z)
    BY <2>2, WholeIfKept
  <2>4. Write(z) /\ Done(u) /\ odd' = odd /\ strays' = strays
    BY <1>4 DEF SaveAlertAction, Plain
  <2> HIDE DEF z
  <2> QED BY <1>a, <2>2, <2>3, <2>4, Written
<1> QED BY <1>1, <1>2, <1>3, <1>4 DEF Saves

LEMMA RemovesStep ==
    ASSUME IInv, NEW u \in Users, Removes(u)
    PROVE IInv' /\ Step
<1>1. ASSUME NEW s, Command(u, NoFlow), Write(s), Plain,
             Sound(s, strays), Since(db, s), Whole(db, s)
      PROVE IInv' /\ Step
  <2>1. Done(u) /\ odd' \in BOOLEAN /\ strays' = strays
    BY <1>1 DEF Command, Done, Plain, IInv, Control
  <2> QED BY <1>1, <2>1, Written
<1>2. Sound(db, strays) /\ Since(db, db)
  BY SinceSelf DEF IInv
<1>3. ASSUME NEW s, s.counters = db.counters PROVE Whole(db, s)
  BY <1>3, WholeIfKept
<1>4. ASSUME NEW c \in DOMAIN db.counters, RemoveCounter(u, c) PROVE IInv' /\ Step
  BY <1>1, <1>2, <1>4, CounterDeleted DEF RemoveCounter
<1>5. ASSUME NEW t, RemoveTrigger(u, t) PROVE IInv' /\ Step
  BY <1>1, <1>2, <1>3, <1>5, TriggerDeleted DEF RemoveTrigger
<1>6. ASSUME NEW r, RemoveReport(u, r) PROVE IInv' /\ Step
  BY <1>1, <1>2, <1>3, <1>6, ReportDeleted DEF RemoveReport
<1>7. ASSUME NEW a, RemoveAction(u, a) PROVE IInv' /\ Step
  BY <1>1, <1>2, <1>3, <1>7, ActionDeleted DEF RemoveAction
<1>8. ASSUME NEW at \in Schedules, Reschedule(u, at) PROVE IInv' /\ Step
  BY <1>1, <1>2, <1>3, <1>8, SettingSet DEF Reschedule
<1> QED BY <1>4, <1>5, <1>6, <1>7, <1>8 DEF Removes

LEMMA PostsStep ==
    ASSUME IInv, Posts
    PROVE IInv' /\ Step
<1>1. ASSUME NEW in \in CounterInputs, PostCounter(in) PROVE IInv' /\ Step
  <2>1. odd' \in BOOLEAN /\ strays' = strays /\ in \in CounterInput
    BY <1>1, AdminAssumption DEF PostCounter
  <2> QED BY <1>1, <2>1, CounterStored DEF PostCounter
<1>2. ASSUME NEW c \in 1..(db.lastCounter + 1), NEW in \in RuleInputs, PostTrigger(c, in)
      PROVE IInv' /\ Step
  <2>1. odd' \in BOOLEAN /\ in \in RuleInput /\ c \in Ids
    BY <1>2, AdminAssumption DEF PostTrigger, Ids, IInv, Sound, IsStore
  <2>2. (IF in.weeks <= 0 THEN 4 ELSE in.weeks) \in Int \ {0}
    BY <2>1 DEF RuleInput
  <2> QED BY <1>2, <2>1, <2>2, RuleStored DEF PostTrigger
<1> QED BY <1>1, <1>2 DEF Posts

LEMMA ExportSteps ==
    ASSUME IInv,
           Exporting \/ \E u \in Users, args \in ExportArgs : Export(u, args.counter, args.safe)
    PROVE IInv' /\ Step
<1>1. ASSUME Exporting PROVE IInv' /\ Step
  <2>1. export # NoExport /\ (export' # NoExport =>
            \/ \E x, y, z : export' = [export EXCEPT !.part = x, !.left = y, !.reports = z]
            \/ \E x, y : export' = [export EXCEPT !.part = x, !.triggers = y])
    BY <1>1 DEF Exporting, ExportTriggers, ExportReports, ExportDone
  <2>2. export' # NoExport => DOMAIN export' = DOMAIN export /\ export'.by \in Users
    BY <2>1 DEF IInv, Control
  <2>3. UNCHANGED <<db, tx, pending, job, again, writes, history>>
    BY <1>1 DEF Exporting, ExportTriggers, ExportReports, ExportDone
  <2>4. Control'
    BY <2>1, <2>2, <2>3 DEF IInv, Control, history
  <2>5. Held'
    BY <2>3 DEF IInv, Held
  <2> QED BY <2>3, <2>4, <2>5, NotWritten DEF history
<1>2. ASSUME NEW u \in Users, NEW args \in ExportArgs, Export(u, args.counter, args.safe)
      PROVE IInv' /\ Step
  <2>1. /\ export'.by = u
        /\ DOMAIN export' = {"by", "rows", "left", "part", "counters", "triggers", "reports", "rest"}
    BY <1>2 DEF Export, ExportStart
  <2>2. UNCHANGED <<db, tx, job, again, writes, history>> /\ Done(u)
    BY <1>2 DEF Export, ExportStart, Command, Done
  <2>3. Control'
    BY <2>1, <2>2 DEF IInv, Control, Done, history
  <2>4. Held'
    BY <2>2 DEF IInv, Control, Held, Done
  <2> QED BY <2>2, <2>3, <2>4, NotWritten DEF history
<1> QED BY <1>1, <1>2

LEMMA ImportBegins ==
    ASSUME IInv, NEW u \in Users, NEW f, NEW replace \in BOOLEAN, Import(u, f, replace)
    PROVE IInv' /\ Step
<1>1. PICK flow \in BOOLEAN : ImportStart(u, f, replace, flow)
  BY DEF Import
<1>2. pending' = pending \/ Done(u)
  BY DEF Import, Command, Done
<1>3. /\ tx = NoTx /\ Readable(f)
      /\ DOMAIN tx' = {"by", "file", "at", "replace", "flow", "store"}
      /\ tx'.by = u /\ tx'.file = f /\ tx'.at = 1 /\ tx'.replace = replace /\ tx'.flow = flow
      /\ tx'.store = IF replace THEN Cleared(db, f) ELSE db
      /\ UNCHANGED <<db, export, job, again, history>>
  BY <1>1 DEF ImportStart, Import
<1>4. writes' \in 0..MaxWrites
  BY AdminAssumption DEF Import, OneMore, IInv, Control
<1>5. Control'
  <2>1. pending' \in [Users -> Flow \union {NoFlow}]
    BY <1>2 DEF Done, IInv, Control
  <2>2. tx'.flow \in BOOLEAN /\ tx'.replace \in BOOLEAN /\ tx'.at \in Ids
    BY <1>3 DEF Ids
  <2> QED BY <1>3, <1>4, <2>1, <2>2 DEF IInv, Control, history
<1>6. Held'
  BY <1>2, <1>3 DEF IInv, Control, Held, Done
<1>7. Copy'
  BY <1>3, ClearedSound, SinceSelf, KeptSelf DEF IInv, Copy, history
<1>8. Sound(db', strays') /\ Step
  BY <1>3, SinceSelf, KeptSelf DEF IInv, Step, history
<1> QED BY <1>5, <1>6, <1>7, <1>8 DEF IInv

LEMMA ImportEnds ==
    ASSUME IInv, ImportRefused \/ Imported
    PROVE IInv' /\ Step
<1>1. ASSUME ImportRefused PROVE IInv' /\ Step
  <2>1. tx' = NoTx /\ UNCHANGED <<db, export, file, pending, job, again, writes, history>>
    BY <1>1 DEF ImportRefused, ImportFails
  <2>2. Control' /\ Held' /\ Copy' /\ Sound(db', strays')
    BY <2>1 DEF IInv, Control, Held, Copy, history
  <2>3. Step
    BY <2>1, SinceSelf, KeptSelf DEF IInv, Step
  <2> QED BY <2>2, <2>3 DEF IInv
<1>2. ASSUME Imported PROVE IInv' /\ Step
  <2>1. /\ tx # NoTx /\ tx' = NoTx /\ db' = tx.store
        /\ UNCHANGED <<export, file, job, writes, strays, odd>>
    BY <1>2 DEF Imported, ImportCommit
  <2>2. Sound(db', strays') /\ Since(db, db')
    BY <2>1 DEF IInv, Copy
  <2>3. pending' \in [Users -> Flow \union {NoFlow}]
        /\ \A u \in Users : pending'[u] \in {pending[u], NoFlow}
    BY <1>2, <2>1 DEF Imported, IInv, Control
  <2>4. again' \in [Users -> Schedules \union {Unset}]
    <3>1. tx.store.schedule \in Schedules \union {Unset} /\ tx.by \in Users
      BY <2>1 DEF IInv, Control, Copy, Sound, IsStore
    <3> QED BY <1>2, <3>1 DEF Imported, IInv, Control
  <2>5. Control'
    BY <2>1, <2>3, <2>4 DEF IInv, Control
  <2>6. Held'
    <3>1. db.lastCounter <= db'.lastCounter /\ db.lastTrigger <= db'.lastTrigger
          /\ db.lastCounter \in Nat /\ db.lastTrigger \in Nat
          /\ db'.lastCounter \in Nat /\ db'.lastTrigger \in Nat
      BY <2>1, <2>2 DEF Since, Sound, IsStore
    <3>2. ASSUME NEW u \in Users, pending'[u] # NoFlow
          PROVE u \in Admins /\ pending'[u].counter <= db'.lastCounter
      <4>1. pending'[u] = pending[u] /\ pending[u] \in Flow
        BY <2>3, <3>2 DEF IInv, Control
      <4> QED BY <3>1, <3>2, <4>1, FlowCounter DEF IInv, Held
    <3>3. job' # NoJob => job'.counter <= db'.lastCounter /\ job'.trigger <= db'.lastTrigger
      <4> SUFFICES ASSUME job # NoJob
                   PROVE job.counter <= db'.lastCounter /\ job.trigger <= db'.lastTrigger
        BY <2>1
      <4>1. job \in Job
        BY DEF IInv, Control
      <4> QED BY <3>1, <4>1 DEF IInv, Held, Job, Ids
    <3> QED BY <3>2, <3>3 DEF Held
  <2>7. Copy'
    BY <2>1 DEF Copy
  <2>8. Step
    <3>1. CASE tx.replace
      <4>1. NoOrphans(db') /\ Bare(db')
        BY <2>1, <3>1 DEF IInv, Copy
      <4>2. Whole(db, db')
        BY <4>1 DEF Whole, NoOrphans, Bare, TriggersOf, ReportsOf
      <4> QED BY <2>2, <3>1, <4>2 DEF Step
    <3>2. CASE ~tx.replace
      <4>1. Kept(db, db')
        BY <2>1, <3>2 DEF IInv, Copy
      <4>2. Whole(db, db')
        BY <4>1, WholeIfKept DEF Kept
      <4> QED BY <2>2, <4>1, <4>2 DEF Step
    <3> QED BY <3>1, <3>2
  <2> QED BY <2>2, <2>5, <2>6, <2>7, <2>8 DEF IInv
<1> QED BY <1>1, <1>2

LEMMA ImportingStep ==
    ASSUME IInv, Importing
    PROVE IInv' /\ Step
BY ImportCounterStep, ImportTriggerStep, ImportReportStep, ImportAsideStep
   DEF Importing, ImportStep

\* What the process writes without a change of its own being counted.
LEMMA EngineStep ==
    ASSUME IInv, Engine \/ \E u \in Users : ScheduleAgain(u)
    PROVE IInv' /\ Step
<1>1. ASSUME tx = NoTx, tx' = NoTx, UNCHANGED <<pending, strays>>, job' \in {job, NoJob},
             Control', Sound(db', strays), Since(db, db'), DOMAIN db'.counters = DOMAIN db.counters
      PROVE IInv' /\ Step
  <2>1. Held'
    <3>1. db.lastCounter <= db'.lastCounter /\ db.lastTrigger <= db'.lastTrigger
          /\ db.lastCounter \in Nat /\ db.lastTrigger \in Nat
          /\ db'.lastCounter \in Nat /\ db'.lastTrigger \in Nat
      BY <1>1 DEF Since, Sound, IsStore
    <3>2. ASSUME NEW u \in Users, pending[u] # NoFlow
          PROVE u \in Admins /\ pending[u].counter <= db'.lastCounter
      <4>1. pending[u] \in Flow
        BY <3>2 DEF IInv, Control
      <4> QED BY <3>1, <3>2, <4>1, FlowCounter DEF IInv, Held
    <3>3. job # NoJob => job.counter <= db'.lastCounter /\ job.trigger <= db'.lastTrigger
      <4>1. job # NoJob => job \in Job
        BY DEF IInv, Control
      <4> QED BY <3>1, <4>1 DEF IInv, Held, Job, Ids
    <3> QED BY <1>1, <3>2, <3>3 DEF Held
  <2>2. Copy' /\ Step
    BY <1>1, WholeIfKept DEF Copy, Step
  <2> QED BY <1>1, <2>1, <2>2 DEF IInv
<1>2. ASSUME Engine PROVE IInv' /\ Step
  <2> DEFINE c == job.counter
             t == job.trigger
  <2>1. /\ job # NoJob /\ tx = NoTx /\ job' = NoJob
        /\ UNCHANGED <<tx, export, file, pending, again, writes, history>>
        /\ db' = IF t = 0 THEN CreateReportSnapshot(db, c)
                 ELSE SetLastHourChecked(RecordTriggerFire(CreateAlert(db, c, t), t), c)
    BY <1>2 DEF Engine
  <2>2. c \in Ids /\ t \in Nat /\ c <= db.lastCounter /\ t <= db.lastTrigger
    BY <2>1 DEF IInv, Control, Held, Job
  <2>3. Sound(db, strays)
    BY DEF IInv
  <2> HIDE DEF c, t
  <2>4. Sound(db', strays) /\ Since(db, db') /\ DOMAIN db'.counters = DOMAIN db.counters
    <3>1. CASE t = 0
      BY <2>1, <2>2, <2>3, <3>1, SnapshotWritten
    <3>2. CASE t # 0
      BY <2>1, <2>2, <2>3, <3>2, AlertWritten DEF Ids
    <3> QED BY <3>1, <3>2
  <2>5. Control'
    BY <2>1 DEF IInv, Control, history
  <2> QED BY <1>1, <2>1, <2>4, <2>5 DEF history
<1>3. ASSUME NEW u \in Users, ScheduleAgain(u) PROVE IInv' /\ Step
  <2>1. tx = NoTx /\ db' = SetSetting(db, again[u])
        /\ UNCHANGED <<tx, export, pending, job, writes, strays, odd>>
        /\ again' = [again EXCEPT ![u] = Unset]
    BY <1>3 DEF ScheduleAgain
  <2>2. again[u] \in Schedules \union {Unset} /\ Sound(db, strays) /\ Since(db, db)
    BY SinceSelf DEF IInv, Control
  <2>3. Sound(db', strays) /\ Since(db, db') /\ db'.counters = db.counters
    BY <2>1, <2>2, SettingSet
  <2>4. Control'
    BY <2>1 DEF IInv, Control
  <2> QED BY <1>1, <2>1, <2>3, <2>4
<1> QED BY <1>2, <1>3

LEMMA JobsStep ==
    ASSUME IInv, Jobs \/ Crash
    PROVE IInv' /\ Step
<1>1. ASSUME Crash PROVE IInv' /\ Step
  <2>1. /\ tx' = NoTx /\ export' = NoExport /\ job' = NoJob
        /\ pending' = [u \in Users |-> NoFlow] /\ again' = [u \in Users |-> Unset]
        /\ UNCHANGED <<db, writes, strays, odd>>
    BY <1>1 DEF Crash, history
  <2>2. pending' \in [Users -> Flow \union {NoFlow}] /\ again' \in [Users -> Schedules \union {Unset}]
    BY <2>1
  <2>3. Control'
    BY <2>1, <2>2 DEF IInv, Control
  <2>4. Held' /\ Copy' /\ Sound(db', strays')
    BY <2>1 DEF IInv, Held, Copy
  <2>5. Step
    BY <2>1, SinceSelf, KeptSelf DEF IInv, Step
  <2> QED BY <2>3, <2>4, <2>5 DEF IInv
<1>2. ASSUME NEW c \in DOMAIN db.counters, NEW t \in {0} \union DOMAIN db.triggers, Start(c, t),
             pending' = pending \/ \E u \in Users : Done(u)
      PROVE IInv' /\ Step
  <2>1. job' = [counter |-> c, trigger |-> t]
        /\ UNCHANGED <<db, tx, export, file, again, writes, strays, odd>>
    BY <1>2 DEF Start, transferVars, history
  <2>2. c \in Ids /\ t \in Nat /\ c <= db.lastCounter /\ t <= db.lastTrigger
    BY DEF IInv, Sound, IsStore, IsTable, Ids
  <2>3. job' \in Job /\ job'.counter = c /\ job'.trigger = t
    BY <2>1, <2>2 DEF Job
  <2>4. pending' \in [Users -> Flow \union {NoFlow}]
        /\ \A u \in Users : pending'[u] \in {pending[u], NoFlow}
    BY <1>2 DEF Done, IInv, Control
  <2>5. Control'
    BY <2>1, <2>3, <2>4 DEF IInv, Control
  <2>6. Held'
    BY <2>1, <2>2, <2>3, <2>4 DEF IInv, Held
  <2> QED BY <2>1, <2>5, <2>6, NotWritten
<1>3. ASSUME Jobs PROVE IInv' /\ Step
  BY <1>2, <1>3 DEF Jobs, Tick, RunNow, Command, Done
<1> QED BY <1>1, <1>3

LEMMA Inductive ==
    ASSUME IInv, [Next]_vars
    PROVE IInv' /\ Step
<1>1. CASE UNCHANGED vars
  <2>1. Control' /\ Held'
    BY <1>1 DEF vars, IInv, Control, Held
  <2> QED BY <1>1, <2>1, NotWritten DEF vars
<1>2. CASE Next
  <2>1. ASSUME NEW u \in Users, Transfers(u) PROVE IInv' /\ Step
    BY <2>1, ExportSteps, ImportBegins DEF Transfers
  <2> QED BY <1>2, <2>1, AsksStep, SavesStep, RemovesStep, ExportSteps, ImportingStep,
             ImportEnds, PostsStep, EngineStep, JobsStep DEF Next
<1> QED BY <1>1, <1>2

-----------------------------------------------------------------------------
THEOREM Invariant == Spec => []IInv
BY InitInv, Inductive, PTL DEF Spec

(* The variables keep their types: counter_id stays unique, every row of the *)
(* committed store and of an import's copy is of its table.                  *)
THEOREM TypeCorrect == Spec => []TypeOK
BY Invariant, Invariants, PTL

(* No row, no open flow and no running job of the bots and the engine refers *)
(* to an id that was not handed out, for any users and inputs (bot.go:137).  *)
THEOREM ReferencesStayIssued == Spec => []ReferencesIssued
BY Invariant, Invariants, PTL

(* Deleting and importing orphan no rule and no report (repo.go:82).         *)
THEOREM OrphansStray == Spec => []OrphansAreStrays
BY Invariant, Invariants, PTL

(* No id is handed out twice, so that a new counter or rule starts without   *)
(* the history, the cooldowns, the flows and the polls of an old one.        *)
THEOREM NothingIsInherited == Spec => NothingInherited
<1>1. ASSUME IInv, [Next]_vars, NEW c \in DOMAIN db'.counters \ DOMAIN db.counters
      PROVE /\ db'.counters[c].cursor = FALSE
            /\ TriggersOf(db, c) \subseteq strays.triggers
            /\ ReportsOf(db, c) = {} /\ c \notin db.snapshots
            /\ \A a \in db.alerts : a.counter # c
            /\ \A u \in Users : pending[u] # NoFlow => pending[u].counter # c
            /\ job # NoJob => job.counter # c
  <2>1. c > db.lastCounter /\ db'.counters[c].cursor = FALSE
    BY <1>1, Inductive DEF Step, Since
  <2>2. c \in Nat /\ db.lastCounter \in Nat
    BY <1>1, Inductive DEF IInv, Sound, IsStore, IsTable
  <2>3. \A n \in Nat : n <= db.lastCounter => n # c
    BY <2>1, <2>2
  <2>4. ASSUME NEW t \in TriggersOf(db, c), t \notin strays.triggers PROVE FALSE
    BY <1>1, <2>1, <2>2, <2>4 DEF TriggersOf, IInv, Sound, IsStore, IsTable
  <2>5. ReportsOf(db, c) = {} /\ c \notin db.snapshots /\ \A a \in db.alerts : a.counter # c
    BY <1>1, <2>1, <2>2 DEF ReportsOf, IInv, Sound, Issued, IsStore, IsTable, ReportRow, Ids
  <2>6. \A u \in Users : pending[u] # NoFlow => pending[u].counter # c
    BY <1>1, <2>1, <2>2 DEF IInv, Held, Control, Flow, Ids
  <2>7. job # NoJob => job.counter # c
    BY <1>1, <2>1, <2>2 DEF IInv, Held, Control, Job, Ids
  <2> QED BY <2>1, <2>4, <2>5, <2>6, <2>7
<1>2. ASSUME IInv, [Next]_vars, NEW t \in DOMAIN db'.triggers \ DOMAIN db.triggers
      PROVE t \notin db'.cooldowns /\ \A a \in db'.alerts : a.trigger # t
  <2>1. t > db.lastTrigger
    BY <1>2, Inductive DEF Step, Since
  <2>2. t \in Nat /\ db.lastTrigger \in Nat
    BY <1>2, Inductive DEF IInv, Sound, IsStore, IsTable
  <2>3. /\ \A v \in db'.cooldowns : v <= db.lastTrigger
        /\ \A a \in db'.alerts : a.trigger <= db.lastTrigger
    BY <1>2, Inductive DEF Step, Since
  <2> QED BY <2>1, <2>2, <2>3
<1>3. IInv /\ [Next]_vars =>
        /\ \A c \in DOMAIN db'.counters \ DOMAIN db.counters :
            /\ db'.counters[c].cursor = FALSE
            /\ TriggersOf(db, c) \subseteq strays.triggers
            /\ ReportsOf(db, c) = {} /\ c \notin db.snapshots
            /\ \A a \in db.alerts : a.counter # c
            /\ \A u \in Users : pending[u] # NoFlow => pending[u].counter # c
            /\ job # NoJob => job.counter # c
        /\ \A t \in DOMAIN db'.triggers \ DOMAIN db.triggers :
            /\ t \notin db'.cooldowns
            /\ \A a \in db'.alerts : a.trigger # t
  BY <1>1, <1>2
<1> QED BY <1>3, Invariant, PTL DEF Spec, NothingInherited

(* With a counter go its rules, cooldowns, reports, alerts and snapshots,    *)
(* whether it is deleted or replaced (repo.go:81).                           *)
THEOREM DeletedWhole == Spec => DeletedWithItsRows
<1>1. IInv /\ [Next]_vars =>
        \A c \in DOMAIN db.counters \ DOMAIN db'.counters :
            /\ TriggersOf(db', c) = {} /\ ReportsOf(db', c) = {}
            /\ c \notin db'.snapshots
            /\ \A a \in db'.alerts : a.counter # c
            /\ TriggersOf(db, c) \cap db'.cooldowns = {}
  BY Inductive DEF Step, Whole
<1> QED BY <1>1, Invariant, PTL DEF Spec, DeletedWithItsRows

(* A merge takes nothing away: ids, cursors, tokens, cooldowns and history.  *)
THEOREM MergesKeep == Spec => MergeKeeps
<1>1. IInv /\ [Next]_vars => (tx # NoTx /\ ~tx.replace => Kept(db, db'))
  BY Inductive DEF Step
<1> QED BY <1>1, Invariant, PTL DEF Spec, MergeKeeps

=============================================================================
