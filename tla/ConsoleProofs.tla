---------------------------- MODULE ConsoleProofs ---------------------------
(***************************************************************************)
(* What is proved of the console's components holds of the console: it     *)
(* follows one component and leaves the others as they are, so that its    *)
(* behaviours are behaviours of each.  The proofs of four components, the  *)
(* fleet list, the alerts, the submissions and freshness, come first.      *)
(* Freshness is proved for all periods with which the limit leaves room    *)
(* for a request and its second try.                                       *)
(***************************************************************************)
EXTENDS Console, FlightSheetsProofs, MachineProofs, OverclockProofs, TerminalsProofs,
        FiniteSetTheorems

(***************************************************************************)
(* The fleet list.                                                         *)
(***************************************************************************)

\* No step ticks or unticks a machine whose row is hidden, but those that clear all ticks.
THEOREM TicksStayInSight == FleetListSpec => TicksChangeInSight
<1>1. ASSUME [FleetListNext]_listVars, selected' # {}, NEW m \in Rigs,
             (m \in selected) # (m \in selected')
      PROVE  m \in Visible
  <2>1. selected' # selected
    BY <1>1
  <2>2. TickPage \/ \E k \in Rigs : TickRow(k)
    BY <1>1, <2>1 DEF FleetListNext, listVars, Unselect, RemoveTicked, Mounted
  <2>3. CASE TickPage
    BY <1>1, <2>3 DEF TickPage
  <2>4. ASSUME NEW k \in Rigs, TickRow(k)
        PROVE  m \in Visible
    BY <1>1, <2>4 DEF TickRow, Toggled
  <2>5. QED
    BY <2>2, <2>3, <2>4
<1>2. [FleetListNext]_listVars =>
        [selected' # {} => \A m \in Rigs : (m \in selected) # (m \in selected') => m \in Visible]_listVars
  BY <1>1
<1>3. QED
  BY <1>2, PTL DEF FleetListSpec, TicksChangeInSight

\* A list shows no more rows than there are machines.
LEMMA RowsAreMachines ==
  ASSUME IsFiniteSet(Rigs), fleet \in Fleets
  PROVE  Cardinality(Filtered) \in Nat /\ Cardinality(Filtered) <= Cardinality(Rigs)
         /\ Cardinality(Rigs) \in Nat
<1>1. Filtered \subseteq Rigs
  BY DEF Filtered, ToSet, Fleets, SeqOf
<1>2. QED
  BY <1>1, FS_Subset, FS_CardinalityType

LEMMA MountedPageSize ==
  ASSUME NEW size, size = CHOOSE n \in PageSizes : \A k \in PageSizes : k <= n
  PROVE  size \in PageSizes
BY FleetListAssumption

LEMMA NextPageIsThere ==
  ASSUME NEW p \in Nat \ {0}, NEW size \in Nat \ {0}, NEW c \in Nat, p * size < c
  PROVE  p + 1 <= c
<1>1. p * size >= p
  <2>1. PICK k \in Nat : size = k + 1
    BY size - 1 \in Nat
  <2>2. p * size = p * k + p /\ p * k \in Nat
    BY <2>1
  <2>3. QED
    BY <2>2
<1>2. p * size \in Nat
  OBVIOUS
<1>3. QED
  BY <1>1, <1>2

LEMMA ListInitTypes == ASSUME IsFiniteSet(Rigs) PROVE FleetListInit => FleetListTypeOK
<1> SUFFICES ASSUME FleetListInit PROVE FleetListTypeOK
  OBVIOUS
<1>1. Cardinality(Rigs) \in Nat
  BY FS_CardinalityType
<1>2. fleet \in Fleets
  <2>1. <<>> \in [1..0 -> Rigs]
    OBVIOUS
  <2>2. <<>> \in SeqOf(Rigs, Cardinality(Rigs))
    BY <1>1, <2>1 DEF SeqOf
  <2>3. QED
    BY <2>2 DEF FleetListInit, Fleets, IsInjective
<1>3. condition \in [Rigs -> Conditions]
  BY DEF FleetListInit, Conditions
<1>4. pageSize \in PageSizes
  BY MountedPageSize DEF FleetListInit
<1>5. QED
  BY <1>2, <1>3, <1>4 DEF FleetListInit, FleetListTypeOK, Filters

LEMMA ListNextTypes ==
  ASSUME IsFiniteSet(Rigs)
  PROVE  FleetListTypeOK /\ [FleetListNext]_listVars => FleetListTypeOK'
<1> SUFFICES ASSUME FleetListTypeOK, [FleetListNext]_listVars PROVE FleetListTypeOK'
  OBVIOUS
<1>1. fleet' \in Fleets
  BY DEF FleetListTypeOK, FleetListNext, listVars, PollList, Sort, RemoveTicked
<1>2. condition' \in [Rigs -> Conditions]
  BY DEF FleetListTypeOK, FleetListNext, listVars, PollList
<1>3. pageSize' \in PageSizes
  BY MountedPageSize DEF FleetListTypeOK, FleetListNext, listVars, SetPageSize, Mounted
<1>4. /\ matching' \subseteq Rigs /\ filter' \in Filters
  BY DEF FleetListTypeOK, FleetListNext, listVars, Narrow, SetFilter, FollowLink, Mounted, Filters
<1>5. selected' \subseteq Rigs
  <2>1. Visible \subseteq Rigs
    BY DEF Visible, Filtered, ToSet, Fleets, SeqOf, FleetListTypeOK
  <2>2. QED
    BY <2>1 DEF FleetListTypeOK, FleetListNext, listVars, TickPage, TickRow, Toggled, Unselect,
                RemoveTicked, Mounted
<1>6. favorites' \subseteq Rigs
  BY DEF FleetListTypeOK, FleetListNext, listVars, Star, Toggled
<1>7. page' \in {1} \cup 1..Cardinality(Rigs)
  <2>1. page \in Nat \ {0} /\ pageSize \in Nat \ {0} /\ page \in {1} \cup 1..Cardinality(Rigs)
    BY FleetListAssumption, FS_CardinalityType DEF FleetListTypeOK
  <2>2. \/ page' = page \/ page' = 1 \/ PreviousPage \/ NextPage
    BY DEF FleetListNext, listVars, FollowLink, SetFilter, Narrow, SetPageSize, Mounted
  <2>3. CASE PreviousPage
    BY <2>1, <2>3, FS_CardinalityType DEF PreviousPage
  <2>4. CASE NextPage
    <3>1. PICK c \in Nat : c = Cardinality(Filtered) /\ c <= Cardinality(Rigs)
      BY RowsAreMachines DEF FleetListTypeOK
    <3>2. page' = page + 1 /\ page + 1 <= c
      BY <2>1, <2>4, <3>1, NextPageIsThere DEF NextPage
    <3>3. QED
      BY <2>1, <3>1, <3>2, FS_CardinalityType
  <2>5. QED
    BY <2>1, <2>2, <2>3, <2>4
<1>8. QED
  BY <1>1, <1>2, <1>3, <1>4, <1>5, <1>6, <1>7 DEF FleetListTypeOK

\* Types: nobody is ticked who is no machine, and the page shown is one there may be.
THEOREM FleetListTypes == FleetListSpec => []FleetListTypeOK
BY RecordsAssumption, ListInitTypes, ListNextTypes, PTL DEF FleetListSpec

(***************************************************************************)
(* The alerts.                                                             *)
(***************************************************************************)

\* An answer has the alerts after the last one seen without a gap, or at most one.
Gapless(w) ==
  /\ w.items # Nil /\ w.seen # Nil => \E m \in Nat : w.items = (w.seen + 1)..m
  /\ w.items # Nil /\ w.seen = Nil => w.items = {} \/ \E m \in Nat : w.items = {m}

DealtUpTo(n, s, d) == \A a \in Nat : s < a /\ a <= n => a \in d

\* The property, of the note and of every watcher, and what the answers under way bring.
AlertsIInv ==
  /\ raised \in Nat /\ popups \in BOOLEAN /\ note \in Nat /\ since \in Nat
  /\ watchers \in [Tabs -> {Nil} \cup [seen : {Nil} \cup Nat, popup : BOOLEAN,
                                       items : {Nil} \cup SUBSET Nat]]
  /\ DealtUpTo(note, since, dealt)
  /\ \A t \in Tabs : watchers[t] # Nil =>
       /\ Gapless(watchers[t])
       /\ watchers[t].seen # Nil => DealtUpTo(watchers[t].seen, since, dealt)

LEMMA MaxIs ==
  ASSUME NEW S \in SUBSET Nat, NEW m \in S, \A y \in S : m >= y
  PROVE  Max(S) = m
<1>1. \E x \in S : \A y \in S : x >= y
  OBVIOUS
<1>2. Max(S) \in S /\ \A y \in S : Max(S) >= y
  BY <1>1 DEF Max
<1>3. PICK x : x = Max(S)
  OBVIOUS
<1>4. x \in Nat /\ m \in Nat /\ x >= m /\ m >= x
  BY <1>2, <1>3
<1>5. QED
  BY <1>3, <1>4

\* What is not popped up is counted: nothing of an answer is dropped.
LEMMA AllAreDealt ==
  ASSUME NEW s \in Nat, NEW m \in Nat, m > s
  PROVE  Shown((s + 1)..m) \cup Counted((s + 1)..m) = (s + 1)..m
<1>. DEFINE fresh == (s + 1)..m
<1>1. CASE Cardinality(fresh) > MaxPopups
  BY <1>1 DEF Shown, Counted
<1>2. CASE ~(Cardinality(fresh) > MaxPopups)
  <2>1. Cardinality(fresh) = m - s
    BY FS_Interval
  <2>2. ASSUME NEW a \in fresh
        PROVE  Cardinality({b \in fresh : b > a}) < MaxPopups
    <3>1. {b \in fresh : b > a} = (a + 1)..m
      OBVIOUS
    <3>2. Cardinality((a + 1)..m) = IF a + 1 > m THEN 0 ELSE m - a
      BY FS_Interval
    <3>3. a \in Int /\ m - a \in Int /\ m - a < m - s /\ 0 < m - s /\ m - s \in Int
      OBVIOUS
    <3>4. m - s <= MaxPopups /\ MaxPopups \in Nat
      BY <1>2, <2>1, AlertsAssumption
    <3>5. Cardinality((a + 1)..m) < MaxPopups
      BY <3>2, <3>3, <3>4
    <3>. HIDE DEF fresh
    <3>6. QED
      BY <3>1, <3>5
  <2>. HIDE DEF fresh
  <2>3. Shown(fresh) = fresh /\ Counted(fresh) = {}
    BY <1>2, <2>2 DEF Shown, Counted
  <2>4. QED
    BY <2>3 DEF fresh
<1>3. QED
  BY <1>1, <1>2

LEMMA PageIsGapless ==
  ASSUME raised \in Nat, NEW seen \in {Nil} \cup Nat
  PROVE  /\ Page(seen) \in SUBSET Nat
         /\ seen # Nil => \E m \in Nat : Page(seen) = (seen + 1)..m
         /\ seen = Nil => Page(seen) = {} \/ \E m \in Nat : Page(seen) = {m}
<1>1. CASE seen = Nil
  <2>1. raised = 0 => Page(seen) = {}
    BY <1>1 DEF Page
  <2>2. raised # 0 => Page(seen) = {raised}
    BY <1>1 DEF Page
  <2>3. QED
    BY <1>1, <2>1, <2>2
<1>2. CASE seen # Nil
  <2>1. seen \in Nat /\ MaxPage \in Nat
    BY <1>2, AlertsAssumption
  <2>. DEFINE m == IF raised <= seen + MaxPage THEN raised ELSE seen + MaxPage
  <2>2. m \in Nat /\ Page(seen) = (seen + 1)..m
    BY <1>2, <2>1 DEF Page
  <2>. HIDE DEF m
  <2>3. (seen + 1)..m \in SUBSET Nat
    BY <2>1, <2>2
  <2>4. QED
    BY <1>2, <2>2, <2>3
<1>3. QED
  BY <1>1, <1>2

LEMMA AlertsInitIInv == AlertsInit => AlertsIInv
BY DEF AlertsInit, AlertsIInv, DealtUpTo
\* A watcher that goes on or is left alone while nothing is forgotten.
LEMMA OthersKeep ==
  ASSUME AlertsIInv, NEW u \in Tabs, watchers[u] # Nil, since' \in Nat, since' >= since,
         dealt \subseteq dealt'
  PROVE  /\ Gapless(watchers[u])
         /\ watchers[u].seen # Nil => DealtUpTo(watchers[u].seen, since', dealt')
<1>1. watchers[u].seen # Nil => watchers[u].seen \in Nat
  BY DEF AlertsIInv
<1>2. QED
  BY <1>1 DEF AlertsIInv, DealtUpTo

\* What tab t has seen, and the note, becomes n.
LEMMA RememberStep ==
  ASSUME AlertsIInv, NEW t \in Tabs, watchers[t] # Nil, NEW n \in Nat, Remember(t, n),
         since' \in Nat, since' >= since, dealt \subseteq dealt', DealtUpTo(n, since', dealt'),
         UNCHANGED <<raised, popups>>
  PROVE  AlertsIInv'
<1>1. /\ note' = n
      /\ watchers' = [watchers EXCEPT ![t].seen = n, ![t].items = Nil]
  BY DEF Remember
<1>2. watchers' \in [Tabs -> {Nil} \cup [seen : {Nil} \cup Nat, popup : BOOLEAN,
                                         items : {Nil} \cup SUBSET Nat]]
  BY <1>1 DEF AlertsIInv
<1>3. ASSUME NEW u \in Tabs, watchers'[u] # Nil
      PROVE  /\ Gapless(watchers'[u])
             /\ watchers'[u].seen # Nil => DealtUpTo(watchers'[u].seen, since', dealt')
  <2>1. CASE u = t
    <3>1. watchers'[t].seen = n /\ watchers'[t].items = Nil
      BY <1>1 DEF AlertsIInv
    <3>2. QED
      BY <2>1, <3>1 DEF Gapless
  <2>2. CASE u # t
    <3>1. watchers'[u] = watchers[u]
      BY <1>1, <2>2 DEF AlertsIInv
    <3>2. QED
      BY <1>3, <3>1, OthersKeep
  <2>3. QED
    BY <2>1, <2>2
<1>4. QED
  BY <1>1, <1>2, <1>3 DEF AlertsIInv

LEMMA FirstAnswerStep ==
  ASSUME AlertsIInv, NEW t \in Tabs, FirstAnswer(t)
  PROVE  AlertsIInv'
<1>1. PICK n : n = Max(watchers[t].items \cup {0})
  OBVIOUS
<1>2. n \in Nat
  <2>1. CASE watchers[t].items = {}
    BY <1>1, <2>1, MaxIs
  <2>2. ASSUME NEW m \in Nat, watchers[t].items = {m}
        PROVE  n \in Nat
    BY <1>1, <2>2, MaxIs
  <2>3. QED
    BY <2>1, <2>2 DEF AlertsIInv, FirstAnswer, Gapless
<1>3. since' \in Nat /\ since' >= n /\ since' >= since
  <2>1. since' = Max({since, n}) /\ since \in Nat
    BY <1>1 DEF FirstAnswer, AlertsIInv
  <2>2. since >= n => since' = since
    BY <1>2, <2>1, MaxIs
  <2>3. n >= since => since' = n
    BY <1>2, <2>1, MaxIs
  <2>4. QED
    BY <1>2, <2>1, <2>2, <2>3
<1>4. DealtUpTo(n, since', dealt')
  BY <1>2, <1>3 DEF DealtUpTo
<1>5. watchers[t] # Nil /\ Remember(t, n) /\ UNCHANGED <<raised, popups, dealt>>
  BY <1>1 DEF FirstAnswer
<1>6. QED
  BY <1>2, <1>3, <1>4, <1>5, RememberStep

LEMMA ShowAlertsStep ==
  ASSUME AlertsIInv, NEW t \in Tabs, ShowAlerts(t)
  PROVE  AlertsIInv'
<1>1. /\ watchers[t] # Nil /\ watchers[t].items \notin {Nil, {}} /\ watchers[t].seen # Nil
      /\ watchers[t].seen \in Nat
      /\ UNCHANGED <<raised, popups, since>>
  BY DEF ShowAlerts, AlertsIInv
<1>2. PICK s \in Nat : s = watchers[t].seen
  BY <1>1
<1>3. PICK m \in Nat : watchers[t].items = (s + 1)..m
  BY <1>1, <1>2 DEF AlertsIInv, Gapless
<1>4. m > s
  BY <1>1, <1>3
<1>5. {a \in watchers[t].items : a > watchers[t].seen} = (s + 1)..m
  BY <1>2, <1>3
<1>6. Max((s + 1)..m) = m
  BY <1>4, MaxIs
<1>7. /\ Remember(t, m)
      /\ dealt' = dealt \cup
           (IF watchers[t].popup THEN Shown((s + 1)..m) \cup Counted((s + 1)..m) ELSE (s + 1)..m)
  BY <1>5, <1>6 DEF ShowAlerts
<1>8. dealt' = dealt \cup ((s + 1)..m)
  BY <1>4, <1>7, AllAreDealt
<1>9. DealtUpTo(m, since', dealt')
  <2>1. DealtUpTo(s, since, dealt)
    BY <1>1, <1>2 DEF AlertsIInv
  <2>2. QED
    BY <1>1, <1>8, <2>1 DEF DealtUpTo
<1>10. since' \in Nat /\ since' >= since
  BY <1>1 DEF AlertsIInv
<1>11. QED
  BY <1>1, <1>7, <1>8, <1>9, <1>10, RememberStep

\* A watcher is opened, closed, polls, or learns the setting.
LEMMA WatcherStep ==
  ASSUME AlertsIInv, NEW t \in Tabs, UNCHANGED <<raised, popups, note, since, dealt>>,
         NEW w \in {Nil} \cup [seen : {Nil} \cup Nat, popup : BOOLEAN, items : {Nil} \cup SUBSET Nat],
         w # Nil => Gapless(w) /\ (w.seen # Nil => DealtUpTo(w.seen, since, dealt)),
         watchers' = [watchers EXCEPT ![t] = w]
  PROVE  AlertsIInv'
<1>1. watchers' \in [Tabs -> {Nil} \cup [seen : {Nil} \cup Nat, popup : BOOLEAN,
                                         items : {Nil} \cup SUBSET Nat]]
  BY DEF AlertsIInv
<1>2. ASSUME NEW u \in Tabs, watchers'[u] # Nil
      PROVE  /\ Gapless(watchers'[u])
             /\ watchers'[u].seen # Nil => DealtUpTo(watchers'[u].seen, since', dealt')
  BY <1>2 DEF AlertsIInv
<1>3. QED
  BY <1>1, <1>2 DEF AlertsIInv

LEMMA OpenWatcherStep ==
  ASSUME AlertsIInv, NEW t \in Tabs, OpenWatcher(t)
  PROVE  AlertsIInv'
<1>. DEFINE w == [seen |-> IF note > 0 THEN note ELSE Nil, popup |-> TRUE, items |-> Nil]
<1>1. /\ w \in [seen : {Nil} \cup Nat, popup : BOOLEAN, items : {Nil} \cup SUBSET Nat]
      /\ Gapless(w) /\ (w.seen # Nil => DealtUpTo(w.seen, since, dealt))
  BY DEF AlertsIInv, Gapless
<1>2. UNCHANGED <<raised, popups, note, since, dealt>> /\ watchers' = [watchers EXCEPT ![t] = w]
  BY DEF OpenWatcher
<1>. HIDE DEF w
<1>3. QED
  BY <1>1, <1>2, WatcherStep

LEMMA CloseWatcherStep ==
  ASSUME AlertsIInv, NEW t \in Tabs, CloseWatcher(t)
  PROVE  AlertsIInv'
BY WatcherStep DEF CloseWatcher

\* The steps that change one field of a watcher, but not what it has seen.
LEMMA FieldStep ==
  ASSUME AlertsIInv, NEW t \in Tabs, LoadSettings(t) \/ PollAlerts(t) \/ PollLost(t)
  PROVE  AlertsIInv'
<1>1. /\ watchers[t] # Nil /\ UNCHANGED <<raised, popups, note, since, dealt>>
      /\ watchers[t] \in [seen : {Nil} \cup Nat, popup : BOOLEAN, items : {Nil} \cup SUBSET Nat]
      /\ Gapless(watchers[t])
      /\ watchers[t].seen # Nil => DealtUpTo(watchers[t].seen, since, dealt)
  BY DEF LoadSettings, PollAlerts, PollLost, AlertsIInv
<1>2. ASSUME NEW b, NEW i \in {Nil} \cup SUBSET Nat, b \in BOOLEAN,
             Gapless([watchers[t] EXCEPT !.popup = b, !.items = i]),
             watchers' = [watchers EXCEPT ![t] = [watchers[t] EXCEPT !.popup = b, !.items = i]]
      PROVE  AlertsIInv'
  <2>. DEFINE w == [watchers[t] EXCEPT !.popup = b, !.items = i]
  <2>1. /\ w \in [seen : {Nil} \cup Nat, popup : BOOLEAN, items : {Nil} \cup SUBSET Nat]
        /\ w.seen = watchers[t].seen
    BY <1>1, <1>2
  <2>2. Gapless(w) /\ watchers' = [watchers EXCEPT ![t] = w]
    BY <1>2
  <2>. HIDE DEF w
  <2>3. QED
    BY <1>1, <2>1, <2>2, WatcherStep
<1>3. CASE LoadSettings(t)
  <2>1. watchers[t].items \in {Nil} \cup SUBSET Nat /\ popups \in BOOLEAN
    BY <1>1 DEF AlertsIInv
  <2>2. [watchers[t] EXCEPT !.popup = popups, !.items = watchers[t].items]
          = [watchers[t] EXCEPT !.popup = popups]
    BY <1>1
  <2>3. Gapless([watchers[t] EXCEPT !.popup = popups])
    BY <1>1 DEF Gapless
  <2>4. watchers' = [watchers EXCEPT ![t] = [watchers[t] EXCEPT !.popup = popups]]
    BY <1>3 DEF LoadSettings
  <2>5. QED
    BY <1>2, <2>1, <2>2, <2>3, <2>4
<1>4. ASSUME NEW i \in {Nil} \cup SUBSET Nat, Gapless([watchers[t] EXCEPT !.items = i]),
             watchers' = [watchers EXCEPT ![t].items = i]
      PROVE  AlertsIInv'
  <2>1. watchers[t].popup \in BOOLEAN
    BY <1>1
  <2>2. [watchers[t] EXCEPT !.popup = watchers[t].popup, !.items = i]
          = [watchers[t] EXCEPT !.items = i]
    BY <1>1
  <2>3. QED
    BY <1>2, <1>4, <2>1, <2>2
<1>5. CASE PollAlerts(t)
  <2>1. PICK seen \in {Nil} \cup Nat : seen = watchers[t].seen
    BY <1>1
  <2>2. /\ Page(seen) \in SUBSET Nat
        /\ seen # Nil => \E m \in Nat : Page(seen) = (seen + 1)..m
        /\ seen = Nil => Page(seen) = {} \/ \E m \in Nat : Page(seen) = {m}
    BY PageIsGapless DEF AlertsIInv
  <2>3. Gapless([watchers[t] EXCEPT !.items = Page(seen)])
    BY <1>1, <2>1, <2>2 DEF Gapless
  <2>4. QED
    BY <1>4, <1>5, <2>1, <2>2, <2>3 DEF PollAlerts
<1>6. CASE PollLost(t)
  <2>1. Gapless([watchers[t] EXCEPT !.items = Nil])
    BY <1>1 DEF Gapless
  <2>2. QED
    BY <1>4, <1>6, <2>1 DEF PollLost
<1>7. QED
  BY <1>3, <1>5, <1>6

LEMMA AlertsNextIInv == AlertsIInv /\ [AlertsNext]_alertVars => AlertsIInv'
<1>1. ASSUME AlertsIInv, Raise
      PROVE  AlertsIInv'
  BY <1>1 DEF Raise, AlertsIInv
<1>2. ASSUME AlertsIInv, SwitchPopups
      PROVE  AlertsIInv'
  BY <1>2 DEF SwitchPopups, AlertsIInv
<1>3. ASSUME AlertsIInv, UNCHANGED alertVars
      PROVE  AlertsIInv'
  BY <1>3 DEF alertVars, AlertsIInv
<1>4. QED
  BY <1>1, <1>2, <1>3, OpenWatcherStep, CloseWatcherStep, FieldStep, FirstAnswerStep, ShowAlertsStep
  DEF AlertsNext

\* No alert is passed over, for any number of tabs, alerts and pop-ups (AlertsIInv adds that an
\* answer under way follows what its tab has seen without a gap).
THEOREM AlertsAreNotPassedOver == AlertsSpec => []NoAlertPassedOver
<1>1. AlertsIInv => NoAlertPassedOver
  <2>1. ASSUME AlertsIInv, NEW t \in Tabs, watchers[t] # Nil, watchers[t].seen # Nil
        PROVE  watchers[t].seen \in Nat /\ DealtUpTo(watchers[t].seen, since, dealt)
    BY <2>1 DEF AlertsIInv
  <2>2. QED
    BY <2>1 DEF AlertsIInv, NoAlertPassedOver, DealtUpTo
<1>2. QED
  BY <1>1, AlertsInitIInv, AlertsNextIInv, PTL DEF AlertsSpec

\* What is seen, noted and shown was raised.
WatcherOK(w, n) ==
  w # Nil => w.seen \in {Nil} \cup 0..n /\ w.items \in {Nil} \cup SUBSET (1..n)

AlertsBounds ==
  /\ raised <= MaxAlerts /\ note <= raised /\ since <= raised /\ dealt \subseteq 1..raised
  /\ \A t \in Tabs : WatcherOK(watchers[t], raised)

LEMMA AnswerIsOfRaised ==
  ASSUME AlertsIInv, AlertsBounds, NEW t \in Tabs, FirstAnswer(t)
  PROVE  \E n \in 0..raised : Remember(t, n) /\ since' \in 0..raised
<1>1. PICK n : n = Max(watchers[t].items \cup {0})
  OBVIOUS
<1>2. /\ raised \in Nat /\ since \in 0..raised
      /\ watchers[t] # Nil /\ watchers[t].items # Nil /\ watchers[t].seen = Nil
      /\ watchers[t].items \in SUBSET (1..raised)
  BY DEF AlertsIInv, AlertsBounds, WatcherOK, FirstAnswer
<1>3. n \in 0..raised
  <2>1. CASE watchers[t].items = {}
    BY <1>1, <1>2, <2>1, MaxIs
  <2>2. ASSUME NEW m \in Nat, watchers[t].items = {m}
        PROVE  n \in 0..raised
    <3>1. n = m
      BY <1>1, <2>2, MaxIs
    <3>2. QED
      BY <1>2, <2>2, <3>1
  <2>3. QED
    BY <1>2, <2>1, <2>2 DEF AlertsIInv, Gapless
<1>4. since' \in 0..raised
  <2>1. since' = Max({since, n})
    BY <1>1 DEF FirstAnswer
  <2>2. since >= n => since' = since
    BY <1>2, <1>3, <2>1, MaxIs
  <2>3. n >= since => since' = n
    BY <1>2, <1>3, <2>1, MaxIs
  <2>4. QED
    BY <1>2, <1>3, <2>2, <2>3
<1>5. Remember(t, n)
  BY <1>1 DEF FirstAnswer
<1>6. QED
  BY <1>3, <1>4, <1>5

LEMMA ShownIsRaised ==
  ASSUME AlertsIInv, AlertsBounds, NEW t \in Tabs, ShowAlerts(t)
  PROVE  \E n \in 0..raised : Remember(t, n) /\ dealt' \subseteq 1..raised
<1>1. /\ watchers[t] # Nil /\ watchers[t].items \notin {Nil, {}} /\ watchers[t].seen # Nil
      /\ watchers[t].seen \in Nat /\ raised \in Nat
      /\ watchers[t].items \in SUBSET (1..raised) /\ dealt \subseteq 1..raised
  BY DEF ShowAlerts, AlertsIInv, AlertsBounds, WatcherOK
<1>2. PICK s \in Nat : s = watchers[t].seen
  BY <1>1
<1>3. PICK m \in Nat : watchers[t].items = (s + 1)..m
  BY <1>1, <1>2 DEF AlertsIInv, Gapless
<1>4. m > s
  BY <1>1, <1>3
<1>5. {a \in watchers[t].items : a > watchers[t].seen} = (s + 1)..m
  BY <1>2, <1>3
<1>6. Max((s + 1)..m) = m
  BY <1>4, MaxIs
<1>7. m \in 0..raised /\ (s + 1)..m \subseteq 1..raised
  BY <1>1, <1>3, <1>4
<1>8. PICK fresh : fresh = (s + 1)..m
  OBVIOUS
<1>9. Shown(fresh) \cup Counted(fresh) \subseteq fresh
  BY DEF Shown, Counted
<1>10. /\ Remember(t, m)
       /\ dealt' = dealt \cup
            (IF watchers[t].popup THEN Shown(fresh) \cup Counted(fresh) ELSE fresh)
  BY <1>5, <1>6, <1>8 DEF ShowAlerts
<1>11. dealt' \subseteq 1..raised
  BY <1>1, <1>7, <1>8, <1>9, <1>10
<1>12. QED
  BY <1>7, <1>10, <1>11

\* What a tab has seen, and the note, becomes n.
LEMMA RememberKeepsBounds ==
  ASSUME AlertsIInv, AlertsBounds, NEW t \in Tabs, NEW n \in 0..raised, Remember(t, n),
         watchers[t] # Nil, UNCHANGED raised, since' \in 0..raised, dealt' \subseteq 1..raised
  PROVE  AlertsBounds'
<1>1. raised \in Nat /\ raised <= MaxAlerts
  BY DEF AlertsIInv, AlertsBounds
<1>2. ASSUME NEW u \in Tabs PROVE WatcherOK(watchers'[u], raised)
  <2>1. CASE u = t
    <3>1. watchers'[t].seen = n /\ watchers'[t].items = Nil
      BY DEF Remember, AlertsIInv
    <3>2. QED
      BY <2>1, <3>1 DEF WatcherOK
  <2>2. CASE u # t
    <3>1. watchers'[u] = watchers[u]
      BY <2>2 DEF Remember, AlertsIInv
    <3>2. QED
      BY <3>1 DEF AlertsBounds
  <2>3. QED
    BY <2>1, <2>2
<1>3. raised' = raised /\ note' = n
  BY DEF Remember
<1>4. \A u \in Tabs : WatcherOK(watchers[u], raised)'
  BY <1>2, <1>3
<1>5. QED
  BY <1>1, <1>3, <1>4 DEF AlertsBounds

LEMMA WatcherKeepsBounds ==
  ASSUME AlertsIInv, AlertsBounds, NEW t \in Tabs,
         OpenWatcher(t) \/ CloseWatcher(t) \/ LoadSettings(t) \/ PollAlerts(t) \/ PollLost(t)
  PROVE  AlertsBounds'
<1>1. UNCHANGED <<raised, note, since, dealt>> /\ raised \in Nat /\ note \in 0..raised
  BY DEF OpenWatcher, CloseWatcher, LoadSettings, PollAlerts, PollLost, AlertsIInv, AlertsBounds
<1>2. ASSUME NEW u \in Tabs \ {t} PROVE WatcherOK(watchers'[u], raised)
  <2>1. watchers'[u] = watchers[u]
    BY DEF OpenWatcher, CloseWatcher, LoadSettings, PollAlerts, PollLost, AlertsIInv
  <2>2. QED
    BY <2>1 DEF AlertsBounds
<1>3. WatcherOK(watchers[t], raised)
  BY DEF AlertsBounds
<1>4. WatcherOK(watchers'[t], raised)
  <2>1. CASE OpenWatcher(t)
    <3>1. watchers'[t] = [seen |-> IF note > 0 THEN note ELSE Nil, popup |-> TRUE, items |-> Nil]
      BY <2>1 DEF OpenWatcher, AlertsIInv
    <3>2. QED
      BY <1>1, <3>1 DEF WatcherOK
  <2>2. CASE CloseWatcher(t)
    BY <2>2 DEF CloseWatcher, AlertsIInv, WatcherOK
  <2>3. CASE LoadSettings(t)
    <3>1. watchers[t] # Nil /\ watchers'[t].seen = watchers[t].seen /\ watchers'[t].items = watchers[t].items
      BY <2>3 DEF LoadSettings, AlertsIInv
    <3>2. QED
      BY <1>3, <3>1 DEF WatcherOK
  <2>4. CASE PollAlerts(t)
    <3>1. /\ watchers[t] # Nil /\ watchers'[t].seen = watchers[t].seen
          /\ watchers'[t].items = Page(watchers[t].seen)
      BY <2>4 DEF PollAlerts, AlertsIInv
    <3>2. Page(watchers[t].seen) \in SUBSET (1..raised)
      BY DEF Page
    <3>3. QED
      BY <1>3, <3>1, <3>2 DEF WatcherOK
  <2>5. CASE PollLost(t)
    <3>1. watchers[t] # Nil /\ watchers'[t].seen = watchers[t].seen /\ watchers'[t].items = Nil
      BY <2>5 DEF PollLost, AlertsIInv
    <3>2. QED
      BY <1>3, <3>1 DEF WatcherOK
  <2>6. QED
    BY <2>1, <2>2, <2>3, <2>4, <2>5
<1>5. QED
  BY <1>1, <1>2, <1>4 DEF AlertsBounds

LEMMA AlertsNextBounds == AlertsIInv /\ AlertsBounds /\ [AlertsNext]_alertVars => AlertsBounds'
<1> SUFFICES ASSUME AlertsIInv, AlertsBounds, [AlertsNext]_alertVars PROVE AlertsBounds'
  OBVIOUS
<1>1. CASE SwitchPopups \/ UNCHANGED alertVars
  BY <1>1 DEF SwitchPopups, alertVars, AlertsBounds
<1>2. CASE Raise
  <2>1. /\ raised \in Nat /\ note \in Nat /\ since \in Nat /\ raised' = raised + 1
        /\ raised' <= MaxAlerts /\ MaxAlerts \in Nat
        /\ UNCHANGED <<popups, note, watchers, since, dealt>>
    BY <1>2, AlertsAssumption DEF Raise, AlertsIInv
  <2>2. \A t \in Tabs : WatcherOK(watchers[t], raised + 1)
    BY <2>1 DEF AlertsBounds, WatcherOK
  <2>3. QED
    BY <2>1, <2>2 DEF AlertsBounds
<1>3. ASSUME NEW t \in Tabs, FirstAnswer(t) PROVE AlertsBounds'
  <2>1. PICK n \in 0..raised : Remember(t, n) /\ since' \in 0..raised
    BY <1>3, AnswerIsOfRaised
  <2>2. UNCHANGED <<raised, dealt>> /\ watchers[t] # Nil /\ dealt' \subseteq 1..raised
    BY <1>3 DEF FirstAnswer, AlertsBounds
  <2>3. QED
    BY <2>1, <2>2, RememberKeepsBounds
<1>4. ASSUME NEW t \in Tabs, ShowAlerts(t) PROVE AlertsBounds'
  <2>1. PICK n \in 0..raised : Remember(t, n) /\ dealt' \subseteq 1..raised
    BY <1>4, ShownIsRaised
  <2>2. UNCHANGED <<raised, since>> /\ watchers[t] # Nil /\ since' \in 0..raised
    BY <1>4 DEF ShowAlerts, AlertsBounds, AlertsIInv
  <2>3. QED
    BY <2>1, <2>2, RememberKeepsBounds
<1>5. QED
  BY <1>1, <1>2, <1>3, <1>4, WatcherKeepsBounds DEF AlertsNext

\* Type correctness: nothing is seen, noted or shown that was not raised.
THEOREM AlertsTypes == AlertsSpec => []AlertsTypeOK
<1>1. AlertsInit => AlertsBounds
  BY AlertsAssumption DEF AlertsInit, AlertsBounds, WatcherOK
<1>2. AlertsIInv /\ AlertsBounds => AlertsTypeOK
  <2> SUFFICES ASSUME AlertsIInv, AlertsBounds PROVE AlertsTypeOK
    OBVIOUS
  <2>1. /\ raised \in 0..MaxAlerts /\ popups \in BOOLEAN /\ note \in 0..raised
        /\ since \in 0..raised /\ dealt \subseteq 1..raised
    BY AlertsAssumption DEF AlertsIInv, AlertsBounds
  <2>2. ASSUME NEW t \in Tabs, watchers[t] # Nil
        PROVE  watchers[t] \in [seen : {Nil} \cup 0..raised, popup : BOOLEAN,
                                items : {Nil} \cup SUBSET (1..raised)]
    <3>1. WatcherOK(watchers[t], raised)
      BY DEF AlertsBounds
    <3>2. watchers[t] \in [seen : {Nil} \cup Nat, popup : BOOLEAN, items : {Nil} \cup SUBSET Nat]
      BY <2>2 DEF AlertsIInv
    <3>3. QED
      BY <2>2, <3>1, <3>2 DEF WatcherOK
  <2>3. watchers \in [Tabs -> {Nil} \cup [seen : {Nil} \cup 0..raised, popup : BOOLEAN,
                                          items : {Nil} \cup SUBSET (1..raised)]]
    <3>1. watchers = [t \in Tabs |-> watchers[t]]
      BY DEF AlertsIInv
    <3>2. QED
      BY <2>2, <3>1
  <2>4. QED
    BY <2>1, <2>3 DEF AlertsTypeOK
<1>3. QED
  BY <1>1, <1>2, AlertsInitIInv, AlertsNextIInv, AlertsNextBounds, PTL DEF AlertsSpec

(***************************************************************************)
(* Submissions.                                                            *)
(***************************************************************************)
Dialogs == [kind : {"confirm", "batch", "form"}, number : Nat, content : Contents]
BiosPages ==
  [edits : Contents \cup {Nil}, key : Nat, watched : JobKeys \cup {Nil},
   seen : {Nil, "open"} \cup Settled, failing : BOOLEAN, handled : JobKeys \cup {Nil},
   pending : BOOLEAN, confirming : BOOLEAN]
Requests ==
  [key : JobKeys, decision : Nat, content : Writes, number : Nat,
   result : {Nil, "accepted", "refused"}, heard : BOOLEAN]
SubmittedJobs ==
  [key : JobKeys, decision : Nat, content : Writes, status : {"open"} \cup Settled]

SubmitTypes ==
  /\ opened \in Nat /\ sends \in Nat /\ version \in Nat
  /\ dialog # Nil => dialog \in Dialogs /\ dialog.number <= opened
  /\ bios \in BiosPages
  /\ requests \subseteq Requests /\ jobs \subseteq SubmittedJobs

\* The key k was made for the decision d.
Made(k, d) == \E x \in requests \cup jobs : x.key = k /\ x.decision = d

HasJob(k, c) == \E j \in jobs : j.key = k /\ j.content = c

KeysTellDecisions ==
  /\ \A k, d : Made(k, d) =>
       /\ k.kind \in {"batch", "bios"} => k.number = d
       /\ k.kind = "confirm" => d <= opened
  /\ \A k, l, d : Made(k, d) /\ Made(l, d) /\ k.kind = "confirm" /\ l.kind = "confirm" => k = l

AnswersAreTrue ==
  /\ \A r \in requests : r.result = "accepted" => HasJob(r.key, r.content)
  /\ \A s \in reports : HasJob(s.key, s.content)

\* Somebody waits for the answer to every request of the confirmation that is open.
ConfirmationWaits ==
  dialog # Nil /\ dialog.kind = "confirm" =>
    /\ \A r \in requests : r.key.kind = "confirm" /\ r.decision = dialog.number => r.heard
    /\ \A j \in jobs : j.key.kind = "confirm" /\ j.decision = dialog.number =>
         \E r \in requests : r.key.kind = "confirm" /\ r.decision = dialog.number

SubmitIInv ==
  /\ SubmitTypes
  /\ KeysTellDecisions
  /\ \A j, k \in jobs : j.key = k.key => j = k
  /\ AnswersAreTrue
  /\ ConfirmationWaits

LEMMA SubmitInitIInv == SubmitInit => SubmitIInv
BY SubmissionsAssumption
DEF SubmitInit, SubmitIInv, SubmitTypes, KeysTellDecisions, AnswersAreTrue, ConfirmationWaits,
    Made, LoadedBios, BiosPages

\* The page alone: nothing is sent and no answer comes.
LEMMA PageKeepsTypes ==
  ASSUME SubmitTypes, UNCHANGED <<sends, requests, jobs>>,
         \/ CloseDialog \/ DiscardEdits \/ ConfirmWrite \/ CancelWrite \/ PollJob \/ PollFails
         \/ \E c \in Contents : EditDialog(c) \/ EditSetting(c)
         \/ \E c \in Contents, kind \in {"confirm", "batch", "form"} : OpenDialog(kind, c)
  PROVE  SubmitTypes'
<1>0. bios \in BiosPages /\ version \in Nat /\ jobs \subseteq SubmittedJobs
  BY DEF SubmitTypes
<1>1. CASE CloseDialog
  BY <1>1 DEF CloseDialog, SubmitTypes
<1>2. CASE DiscardEdits \/ ConfirmWrite \/ CancelWrite \/ PollFails
  <2>1. /\ version' = version + 1 \/ version' = version
        /\ \/ bios' = [bios EXCEPT !.edits = Nil, !.key = version']
           \/ \E b \in BOOLEAN : bios' = [bios EXCEPT !.confirming = b]
           \/ bios' = [bios EXCEPT !.failing = TRUE]
    BY <1>2, Zenon DEF DiscardEdits, ConfirmWrite, CancelWrite, PollFails, NewKey
  <2>2. bios' \in BiosPages
    <3>0. version' \in Nat
      BY <1>0, <2>1
    <3>1. CASE bios' = [bios EXCEPT !.edits = Nil, !.key = version']
      BY <1>0, <3>0, <3>1 DEF BiosPages
    <3>2. ASSUME NEW b \in BOOLEAN, bios' = [bios EXCEPT !.confirming = b]
          PROVE  bios' \in BiosPages
      BY <1>0, <3>2 DEF BiosPages
    <3>3. CASE bios' = [bios EXCEPT !.failing = TRUE]
      BY <1>0, <3>3 DEF BiosPages
    <3>4. QED
      BY <2>1, <3>1, <3>2, <3>3
  <2>3. QED
    BY <1>2, <2>1, <2>2 DEF DiscardEdits, ConfirmWrite, CancelWrite, PollFails, SubmitTypes
<1>3. CASE PollJob
  <2>1. PICK j \in jobs : \E p \in BOOLEAN, h \in {bios.handled, j.key}, e \in {bios.edits, Nil} :
          bios' = [bios EXCEPT !.seen = j.status, !.failing = FALSE, !.pending = p,
                               !.handled = h, !.edits = e]
    <3>1. bios.pending \in BOOLEAN
      BY <1>0 DEF BiosPages
    <3>2. QED
      BY <1>3, <3>1 DEF PollJob
  <2>2. j.status \in {Nil, "open"} \cup Settled /\ j.key \in JobKeys
    BY <1>0 DEF SubmittedJobs
  <2>3. bios' \in BiosPages
    BY <1>0, <2>1, <2>2 DEF BiosPages
  <2>4. QED
    BY <1>3, <2>3 DEF PollJob, SubmitTypes
<1>4. ASSUME NEW c \in Contents, EditDialog(c) \/ EditSetting(c)
      PROVE  SubmitTypes'
  <2>1. CASE EditDialog(c)
    BY <2>1 DEF EditDialog, Dialogs, SubmitTypes
  <2>2. CASE EditSetting(c)
    <3>0. version' = version + 1 /\ bios' = [bios EXCEPT !.edits = c, !.key = version']
      BY <2>2, Zenon DEF EditSetting, NewKey
    <3>1. version' \in Nat /\ bios' = [bios EXCEPT !.edits = c, !.key = version']
      BY <1>0, <3>0
    <3>2. bios' \in BiosPages
      BY <1>0, <3>1 DEF BiosPages
    <3>3. QED
      BY <2>2, <3>1, <3>2 DEF EditSetting, SubmitTypes
  <2>3. QED
    BY <1>4, <2>1, <2>2
<1>5. ASSUME NEW c \in Contents, NEW kind \in {"confirm", "batch", "form"}, OpenDialog(kind, c)
      PROVE  SubmitTypes'
  BY <1>5 DEF OpenDialog, Dialogs, SubmitTypes
<1>6. QED
  BY <1>1, <1>2, <1>3, <1>4, <1>5

LEMMA PageAloneStep ==
  ASSUME SubmitIInv,
         \/ CloseDialog \/ DiscardEdits \/ ConfirmWrite \/ CancelWrite \/ PollJob \/ PollFails
         \/ \E c \in Contents : EditDialog(c) \/ EditSetting(c)
         \/ \E c \in Contents, kind \in {"confirm", "batch", "form"} : OpenDialog(kind, c)
  PROVE  SubmitIInv'
<1>1. UNCHANGED <<sends, requests, jobs, reports>>
  BY DEF CloseDialog, DiscardEdits, ConfirmWrite, CancelWrite, PollJob, PollFails, EditDialog,
         EditSetting, OpenDialog
<1>2. SubmitTypes /\ SubmitTypes'
  BY <1>1, PageKeepsTypes DEF SubmitIInv
<1>3. /\ opened \in Nat /\ opened' \in Nat /\ opened <= opened'
      /\ \A k, d : Made(k, d) => d \in Nat
      /\ \A k, d : Made(k, d)' <=> Made(k, d)
      /\ \A k, c : HasJob(k, c)' <=> HasJob(k, c)
  <2>1. opened' \in {opened, opened + 1}
    BY DEF CloseDialog, DiscardEdits, ConfirmWrite, CancelWrite, PollJob, PollFails, EditDialog,
           EditSetting, OpenDialog
  <2>2. QED
    BY <1>1, <1>2, <2>1 DEF SubmitTypes, Requests, SubmittedJobs, Made, HasJob
<1>4. KeysTellDecisions'
  <2>1. KeysTellDecisions
    BY DEF SubmitIInv
  <2>2. ASSUME NEW k, NEW d, Made(k, d)
        PROVE  /\ k.kind \in {"batch", "bios"} => k.number = d
               /\ k.kind = "confirm" => d <= opened'
    BY <1>3, <2>1, <2>2 DEF KeysTellDecisions
  <2>3. QED
    BY <1>3, <2>1, <2>2 DEF KeysTellDecisions
<1>5. ConfirmationWaits'
  <2>1. CASE dialog' = Nil
    BY <2>1 DEF ConfirmationWaits
  <2>2. CASE dialog' # Nil /\ dialog # Nil /\ dialog'.kind = dialog.kind /\ dialog'.number = dialog.number
    BY <1>1, <2>2 DEF SubmitIInv, ConfirmationWaits
  <2>3. CASE \E c \in Contents, kind \in {"confirm", "batch", "form"} : OpenDialog(kind, c)
    <3>1. dialog'.number = opened + 1
      BY <2>3 DEF OpenDialog
    <3>2. \A x \in requests \cup jobs : x.key.kind = "confirm" => x.decision <= opened /\ x.decision \in Nat
      BY <1>2, <1>3 DEF SubmitIInv, KeysTellDecisions, Made
    <3>3. \A x \in requests \cup jobs : x.key.kind = "confirm" => x.decision # dialog'.number
      BY <1>3, <3>1, <3>2
    <3>4. QED
      BY <1>1, <3>3 DEF ConfirmationWaits
  <2>4. ASSUME NEW c \in Contents, EditDialog(c)
        PROVE  dialog # Nil /\ dialog'.kind = dialog.kind /\ dialog'.number = dialog.number
    BY <1>2, <2>4 DEF EditDialog, SubmitTypes, Dialogs
  <2>5. ~ CloseDialog /\ dialog' # Nil /\ dialog' = dialog => dialog # Nil
    OBVIOUS
  <2>6. QED
    BY <2>1, <2>2, <2>3, <2>4
    DEF CloseDialog, DiscardEdits, ConfirmWrite, CancelWrite, PollJob, PollFails, EditSetting
<1>6. QED
  BY <1>1, <1>2, <1>3, <1>4, <1>5 DEF SubmitIInv, AnswersAreTrue
LEMMA KeysStillTell ==
  ASSUME KeysTellDecisions, opened' = opened, \A k, d : Made(k, d)' => Made(k, d)
  PROVE  KeysTellDecisions'
BY DEF KeysTellDecisions

\* A submission of the dialog or of the BIOS page.
LEMMA SendStep ==
  ASSUME SubmitIInv, SendDialog \/ ReadBios \/ WriteBios
  PROVE  SubmitIInv'
<1>1. /\ SubmitTypes /\ KeysTellDecisions /\ AnswersAreTrue /\ ConfirmationWaits
      /\ UNCHANGED <<opened, dialog, jobs, reports>>
  BY DEF SubmitIInv, SendDialog, ReadBios, WriteBios
<1>2. /\ bios \in BiosPages /\ version \in Nat /\ sends \in Nat
      /\ requests \subseteq Requests /\ jobs \subseteq SubmittedJobs
      /\ bios.key \in Nat /\ bios.edits \in Contents \cup {Nil}
      /\ dialog # Nil => dialog \in Dialogs /\ dialog.number <= opened
  BY <1>1 DEF SubmitTypes, BiosPages
<1>3. version' \in Nat /\ bios' \in BiosPages
  <2>1. \/ version' = version /\ bios' = bios
        \/ version' = version + 1 /\ bios' = [bios EXCEPT !.key = version']
    BY Zenon DEF SendDialog, ReadBios, WriteBios, NewKey
  <2>2. CASE version' = version /\ bios' = bios
    BY <1>2, <2>2
  <2>3. CASE version' = version + 1 /\ bios' = [bios EXCEPT !.key = version']
    <3>1. version' \in Nat
      BY <1>2, <2>3
    <3>2. QED
      BY <1>2, <2>3, <3>1 DEF BiosPages
  <2>4. QED
    BY <2>1, <2>2, <2>3
<1>4. PICK kind, decision, c :
        /\ Send(kind, decision, c)
        /\ kind \in {"confirm", "batch", "form", "bios"} /\ decision \in Nat /\ c \in Writes
        /\ kind = "confirm" =>
             /\ dialog # Nil /\ dialog.kind = "confirm" /\ decision = dialog.number
             /\ \A r \in requests : ~(r.heard /\ r.key.kind = "confirm" /\ r.decision = decision)
  <2>1. CASE SendDialog
    BY <1>2, <2>1 DEF SendDialog, Dialogs, Writes
  <2>2. CASE ReadBios
    <3>1. Send("bios", version', ReadOnly)
      BY <2>2 DEF ReadBios
    <3>2. QED
      BY <1>3, <3>1 DEF Writes
  <2>3. CASE WriteBios
    <3>1. Send("bios", bios.key, bios.edits) /\ bios.edits # Nil
      BY <2>3, Zenon DEF WriteBios
    <3>2. QED
      BY <1>2, <3>1 DEF Writes
  <2>4. QED
    BY <2>1, <2>2, <2>3
<1> DEFINE n == [key |-> JobKey(kind, decision), decision |-> decision, content |-> c,
                 number |-> sends, result |-> Nil, heard |-> TRUE]
<1>5. requests' = requests \cup {n} /\ sends' = sends + 1
  BY <1>4 DEF Send
<1>6. /\ n \in Requests /\ n.decision = decision /\ n.result = Nil /\ n.heard
      /\ n.key.kind = kind /\ (kind \in {"batch", "bios"} => n.key.number = decision)
  <2>1. JobKey(kind, decision) \in JobKeys
    BY <1>2, <1>4 DEF JobKey, JobKeys
  <2>2. QED
    BY <1>2, <1>4, <2>1 DEF Requests, JobKey
<1> HIDE DEF n
<1>7. SubmitTypes'
  BY <1>1, <1>2, <1>3, <1>5, <1>6 DEF SubmitTypes
<1>8. kind = "confirm" => \A x \in requests \cup jobs : ~(x.key.kind = "confirm" /\ x.decision = decision)
  BY <1>1, <1>4 DEF ConfirmationWaits
<1>9. KeysTellDecisions'
  <2>1. \A k, d : Made(k, d)' => Made(k, d) \/ (k = n.key /\ d = decision)
    BY <1>1, <1>5, <1>6 DEF Made
  <2>2. kind = "confirm" => decision <= opened /\ \A k : ~(Made(k, decision) /\ k.kind = "confirm")
    BY <1>2, <1>4, <1>8 DEF Made
  <2>3. QED
    BY <1>1, <1>6, <2>1, <2>2 DEF KeysTellDecisions
<1>10. AnswersAreTrue'
  BY <1>1, <1>5, <1>6, SubmissionsAssumption DEF AnswersAreTrue, HasJob
<1>11. ConfirmationWaits'
  BY <1>1, <1>5, <1>6 DEF ConfirmationWaits
<1>12. QED
  BY <1>1, <1>7, <1>9, <1>10, <1>11 DEF SubmitIInv

\* The controller decides about a request, or its answer arrives or is lost.
LEMMA RequestEndsStep ==
  ASSUME SubmitIInv, NEW r \in requests, RefuseJob(r) \/ Accepted(r) \/ Refused(r) \/ Lost(r)
  PROVE  SubmitIInv'
<1>1. /\ SubmitTypes /\ KeysTellDecisions /\ AnswersAreTrue /\ ConfirmationWaits
      /\ UNCHANGED <<opened, sends, jobs>>
      /\ r \in Requests /\ requests \subseteq Requests /\ jobs \subseteq SubmittedJobs
  BY DEF SubmitIInv, SubmitTypes, RefuseJob, Accepted, Refused, Lost
<1>2. PICK S \in SUBSET Requests :
        /\ requests' = (requests \ {r}) \cup S
        /\ \A x \in S : /\ x.key = r.key /\ x.decision = r.decision /\ x.content = r.content
                        /\ x.result # "accepted"
  <2>1. ASSUME NEW v \in Requests, requests' = (requests \ {r}) \cup {v},
               v.key = r.key, v.decision = r.decision, v.content = r.content, v.result # "accepted"
        PROVE  \E S \in SUBSET Requests :
                 /\ requests' = (requests \ {r}) \cup S
                 /\ \A x \in S : /\ x.key = r.key /\ x.decision = r.decision
                                 /\ x.content = r.content /\ x.result # "accepted"
    <3>1. {v} \in SUBSET Requests
      OBVIOUS
    <3>2. WITNESS {v} \in SUBSET Requests
    <3>3. QED
      BY <2>1
  <2>2. CASE RefuseJob(r) /\ r.heard
    <3> DEFINE v == [r EXCEPT !.result = "refused"]
    <3>1. requests' = (requests \ {r}) \cup {v}
      BY <2>2 DEF RefuseJob, Result
    <3>2. /\ v \in Requests /\ v.key = r.key /\ v.decision = r.decision /\ v.content = r.content
          /\ v.result # "accepted"
      BY <1>1 DEF Requests
    <3> HIDE DEF v
    <3>3. QED
      BY <2>1, <3>1, <3>2
  <2>3. CASE Lost(r) /\ r.result = Nil
    <3> DEFINE v == [r EXCEPT !.heard = FALSE]
    <3>1. requests' = (requests \ {r}) \cup {v}
      BY <2>3 DEF Lost
    <3>2. /\ v \in Requests /\ v.key = r.key /\ v.decision = r.decision /\ v.content = r.content
          /\ v.result # "accepted"
      BY <1>1, <2>3, SubmissionsAssumption DEF Requests
    <3> HIDE DEF v
    <3>3. QED
      BY <2>1, <3>1, <3>2
  <2>4. CASE requests' = requests \ {r}
    <3>1. {} \in SUBSET Requests /\ requests' = (requests \ {r}) \cup {}
      BY <2>4
    <3>2. QED
      BY <3>1
  <2>5. requests' = (requests \ {r}) \cup {} => requests' = requests \ {r}
    OBVIOUS
  <2>6. QED
    BY <2>2, <2>3, <2>4, <2>5 DEF RefuseJob, Accepted, Refused, Lost, Result
<1>3. (dialog' # Nil => dialog' = dialog) /\ version' \in Nat /\ bios' \in BiosPages
  <2>1. dialog' # Nil => dialog' = dialog
    BY DEF RefuseJob, Accepted, Refused, Lost
  <2>2. bios \in BiosPages /\ version \in Nat /\ r.key \in JobKeys
    BY <1>1 DEF SubmitTypes, Requests
  <2>3. \/ version' = version /\ bios' = bios
        \/ version' = version + 1 /\ bios' = Watching(r)
    BY Zenon DEF RefuseJob, Accepted, Refused, Lost
  <2>4. CASE version' = version + 1 /\ bios' = Watching(r)
    <3>1. version' \in Nat
      BY <2>2, <2>4
    <3>2. Watching(r) \in BiosPages
      BY <2>2, <3>1 DEF Watching, BiosPages
    <3>3. QED
      BY <2>1, <2>4, <3>1, <3>2
  <2>5. QED
    BY <2>1, <2>2, <2>3, <2>4
<1>4. SubmitTypes'
  BY <1>1, <1>2, <1>3 DEF SubmitTypes
<1>5. KeysTellDecisions'
  <2>1. \A k, d : Made(k, d)' => Made(k, d)
    BY <1>1, <1>2 DEF Made
  <2>2. QED
    BY <1>1, <2>1, KeysStillTell
<1>6. AnswersAreTrue'
  <2>1. \A s \in reports' : HasJob(s.key, s.content)
    <3>1. CASE reports' = reports
      BY <1>1, <3>1 DEF AnswersAreTrue
    <3>2. CASE Accepted(r)
      <4>1. HasJob(r.key, r.content) /\ reports' = reports \cup {[key |-> r.key, content |-> r.content]}
        BY <1>1, <3>2 DEF Accepted, AnswersAreTrue
      <4>2. QED
        BY <1>1, <4>1 DEF AnswersAreTrue
    <3>3. QED
      BY <3>1, <3>2 DEF RefuseJob, Refused, Lost
  <2>2. \A x \in requests' : x.result = "accepted" => HasJob(x.key, x.content)
    BY <1>1, <1>2 DEF AnswersAreTrue
  <2>3. QED
    BY <1>1, <2>1, <2>2 DEF AnswersAreTrue, HasJob
<1>7. ConfirmationWaits'
  <2>1. CASE dialog' = Nil
    BY <2>1 DEF ConfirmationWaits
  <2>2. CASE RefuseJob(r)
    <3>1. r.heard => requests' = (requests \ {r}) \cup {[r EXCEPT !.result = "refused"]}
      BY <2>2 DEF RefuseJob, Result
    <3>2. ~ r.heard => requests' = requests \ {r}
      BY <2>2 DEF RefuseJob, Result
    <3>3. /\ [r EXCEPT !.result = "refused"].heard = r.heard
          /\ [r EXCEPT !.result = "refused"].key = r.key
          /\ [r EXCEPT !.result = "refused"].decision = r.decision
      BY <1>1 DEF Requests
    <3>4. dialog' = dialog
      BY <2>2 DEF RefuseJob
    <3>5. QED
      BY <1>1, <3>1, <3>2, <3>3, <3>4 DEF ConfirmationWaits
  <2>3. CASE dialog' # Nil /\ ~ RefuseJob(r)
    <3>1. dialog' = dialog /\ ~(dialog.kind = "confirm" /\ r.key.kind = "confirm" /\ dialog.number = r.decision)
      BY <1>3, <2>3 DEF Accepted, Refused, Lost, Closes
    <3>2. QED
      BY <1>1, <1>2, <3>1 DEF ConfirmationWaits
  <2>4. QED
    BY <2>1, <2>2, <2>3
<1>8. QED
  BY <1>1, <1>4, <1>5, <1>6, <1>7 DEF SubmitIInv
\* A request becomes a job, or is the job it already became, or is refused as another.
LEMMA EnqueueStep ==
  ASSUME SubmitIInv, NEW r \in requests, EnqueueJob(r)
  PROVE  SubmitIInv'
<1> DEFINE same == {j \in jobs : j.key = r.key}
           n == [key |-> r.key, decision |-> r.decision, content |-> r.content, status |-> "open"]
           result == IF \A j \in same : SameInput(j, r) THEN "accepted" ELSE "refused"
           v == [r EXCEPT !.result = result]
<1>1. /\ SubmitTypes /\ KeysTellDecisions /\ AnswersAreTrue /\ ConfirmationWaits
      /\ UNCHANGED <<opened, dialog, bios, version, sends, reports>>
      /\ r \in Requests /\ requests \subseteq Requests /\ jobs \subseteq SubmittedJobs
  BY DEF SubmitIInv, SubmitTypes, EnqueueJob
<1>2. /\ jobs' = IF same # {} THEN jobs ELSE jobs \cup {n}
      /\ requests' = (requests \ {r}) \cup (IF r.heard THEN {v} ELSE {})
      /\ r.result = Nil
  BY DEF EnqueueJob, Result
<1>3. /\ n \in SubmittedJobs
      /\ n.key = r.key /\ n.decision = r.decision /\ n.content = r.content
  BY <1>1 DEF Requests, SubmittedJobs
<1>4. /\ v \in Requests /\ v.result = result
      /\ v.key = r.key /\ v.decision = r.decision /\ v.content = r.content /\ v.heard = r.heard
  BY <1>1 DEF Requests
<1>5. v.result = "accepted" => \A j \in same : j.content = r.content
  BY <1>4 DEF SameInput
<1> HIDE DEF n, v, result
<1>6. SubmitTypes'
  BY <1>1, <1>2, <1>3, <1>4 DEF SubmitTypes
<1>7. KeysTellDecisions'
  <2>1. \A k, d : Made(k, d)' => Made(k, d)
    BY <1>1, <1>2, <1>3, <1>4 DEF Made
  <2>2. QED
    BY <1>1, <2>1, KeysStillTell
<1>8. (\A j, k \in jobs : j.key = k.key => j = k)'
  BY <1>1, <1>2, <1>3 DEF SubmitIInv
<1>9. AnswersAreTrue'
  <2>1. jobs \subseteq jobs' /\ \A k, c : HasJob(k, c) => HasJob(k, c)'
    BY <1>2 DEF HasJob
  <2>2. v.result = "accepted" => \E j \in jobs' : j.key = v.key /\ j.content = v.content
    <3>1. CASE same # {}
      BY <1>2, <1>4, <1>5, <3>1
    <3>2. CASE same = {}
      BY <1>2, <1>3, <1>4, <3>2
    <3>3. QED
      BY <3>1, <3>2
  <2>3. QED
    BY <1>1, <1>2, <2>1, <2>2 DEF AnswersAreTrue, HasJob
<1>10. ConfirmationWaits'
  BY <1>1, <1>2, <1>3, <1>4 DEF ConfirmationWaits
<1>11. QED
  BY <1>6, <1>7, <1>8, <1>9, <1>10 DEF SubmitIInv

\* The BIOS page is loaded again: nobody waits for the answers to its requests.
LEMMA ReloadStep == SubmitIInv /\ ReloadBios => SubmitIInv'
<1> SUFFICES ASSUME SubmitIInv, ReloadBios PROVE SubmitIInv'
  OBVIOUS
<1> DEFINE spared == {q \in requests : q.key.kind = "bios" => q.result = Nil}
           Unheard(q) == IF q.key.kind = "bios" THEN [q EXCEPT !.heard = FALSE] ELSE q
<1>1. /\ SubmitTypes /\ KeysTellDecisions /\ AnswersAreTrue /\ ConfirmationWaits
      /\ UNCHANGED <<opened, dialog, sends, jobs, reports>>
      /\ requests \subseteq Requests /\ jobs \subseteq SubmittedJobs
  BY DEF SubmitIInv, SubmitTypes, ReloadBios
<1>2. requests' = {Unheard(q) : q \in spared}
  BY DEF ReloadBios
<1>3. ASSUME NEW x \in requests'
      PROVE  \E q \in requests :
               /\ x \in Requests /\ x.key = q.key /\ x.decision = q.decision
               /\ x.content = q.content /\ x.result = q.result
               /\ x.key.kind # "bios" => x.heard = q.heard
  <2>1. PICK q \in spared : x = Unheard(q)
    BY <1>2
  <2>2. q \in requests /\ q \in Requests
    BY <1>1
  <2>3. QED
    BY <2>1, <2>2 DEF Requests
<1>4. ASSUME NEW q \in requests, q.key.kind = "confirm"
      PROVE  q \in requests'
  <2>1. q \in spared /\ Unheard(q) = q
    BY <1>4
  <2>2. QED
    BY <1>2, <2>1
<1> HIDE DEF spared, Unheard
<1>5. SubmitTypes'
  <2>1. version' = version + 1 /\ bios' = LoadedBios(version', bios.watched)
    BY DEF ReloadBios, NewKey
  <2>2. version' \in Nat /\ bios.watched \in JobKeys \cup {Nil}
    BY <1>1, <2>1 DEF SubmitTypes, BiosPages
  <2>3. bios' \in BiosPages
    BY <2>1, <2>2 DEF LoadedBios, BiosPages
  <2>4. requests' \subseteq Requests
    BY <1>3
  <2>5. QED
    BY <1>1, <2>2, <2>3, <2>4 DEF SubmitTypes
<1>6. KeysTellDecisions'
  <2>1. \A k, d : Made(k, d)' => Made(k, d)
    BY <1>1, <1>3 DEF Made
  <2>2. QED
    BY <1>1, <2>1, KeysStillTell
<1>7. AnswersAreTrue'
  BY <1>1, <1>3 DEF AnswersAreTrue, HasJob
<1>8. ConfirmationWaits'
  BY <1>1, <1>3, <1>4 DEF ConfirmationWaits
<1>9. QED
  BY <1>1, <1>5, <1>6, <1>7, <1>8 DEF SubmitIInv

LEMMA SettleStep ==
  ASSUME SubmitIInv, NEW j \in jobs, Settle(j)
  PROVE  SubmitIInv'
<1>1. /\ SubmitTypes /\ KeysTellDecisions /\ AnswersAreTrue /\ ConfirmationWaits
      /\ UNCHANGED <<opened, dialog, bios, version, sends, requests, reports>>
      /\ j \in SubmittedJobs /\ jobs \subseteq SubmittedJobs
  BY DEF SubmitIInv, SubmitTypes, Settle
<1>2. PICK s \in Settled : jobs' = (jobs \ {j}) \cup {[j EXCEPT !.status = s]}
  BY DEF Settle
<1> DEFINE v == [j EXCEPT !.status = s]
<1>3. /\ v \in SubmittedJobs /\ jobs' = (jobs \ {j}) \cup {v}
      /\ v.key = j.key /\ v.decision = j.decision /\ v.content = j.content
  BY <1>1, <1>2 DEF SubmittedJobs
<1> HIDE DEF v
<1>4. SubmitTypes'
  BY <1>1, <1>3 DEF SubmitTypes
<1>5. KeysTellDecisions'
  <2>1. \A k, d : Made(k, d)' => Made(k, d)
    BY <1>1, <1>3 DEF Made
  <2>2. QED
    BY <1>1, <2>1, KeysStillTell
<1>6. (\A i, k \in jobs : i.key = k.key => i = k)'
  BY <1>3 DEF SubmitIInv
<1>7. AnswersAreTrue'
  <2>1. \A k, c : HasJob(k, c) => HasJob(k, c)'
    BY <1>3 DEF HasJob
  <2>2. QED
    BY <1>1, <2>1 DEF AnswersAreTrue
<1>8. ConfirmationWaits'
  BY <1>1, <1>3 DEF ConfirmationWaits
<1>9. QED
  BY <1>4, <1>5, <1>6, <1>7, <1>8 DEF SubmitIInv

LEMMA SubmitNextIInv == SubmitIInv /\ [SubmitNext]_submitVars => SubmitIInv'
<1>1. ASSUME SubmitIInv, UNCHANGED submitVars
      PROVE  SubmitIInv'
  BY <1>1 DEF submitVars, SubmitIInv, SubmitTypes, KeysTellDecisions, AnswersAreTrue,
              ConfirmationWaits, Made, HasJob
<1>2. QED
  BY <1>1, PageAloneStep, SendStep, RequestEndsStep, EnqueueStep, ReloadStep, SettleStep DEF SubmitNext

LEMMA SubmitInvariant == SubmitSpec => []SubmitIInv
BY SubmitInitIInv, SubmitNextIInv, PTL DEF SubmitSpec

\* One decision is at most one job, for any number of dialogs, repetitions and lost answers: the
\* key tells the decision, or the dialog waits for the answer to the only request it sent.
THEOREM DecisionsAreJobsOnce == SubmitSpec => []OneJobPerDecision
<1>1. SubmitIInv => OneJobPerDecision
  <2>1. ASSUME SubmitIInv, NEW j \in jobs, NEW k \in jobs, j.key.kind = k.key.kind,
               j.key.kind \in {"confirm", "batch", "bios"}, j.decision = k.decision
        PROVE  j = k
    <3>1. Made(j.key, j.decision) /\ Made(k.key, j.decision)
      BY <2>1 DEF Made
    <3>2. CASE j.key.kind = "confirm"
      BY <2>1, <3>1, <3>2 DEF SubmitIInv, KeysTellDecisions
    <3>3. CASE j.key.kind \in {"batch", "bios"}
      <4>1. j.key.number = k.key.number /\ j.key \in JobKeys /\ k.key \in JobKeys
        BY <2>1, <3>1, <3>3 DEF SubmitIInv, KeysTellDecisions, SubmitTypes, SubmittedJobs
      <4>2. j.key = k.key
        BY <2>1, <4>1 DEF JobKeys
      <4>3. QED
        BY <2>1, <4>2 DEF SubmitIInv
    <3>4. QED
      BY <2>1, <3>2, <3>3
  <2>2. QED
    BY <2>1 DEF OneJobPerDecision
<1>2. QED
  BY <1>1, SubmitInvariant, PTL

\* What the page reports as submitted is a job with that content, whatever was tried before under
\* the same key: the controller compares the input (AnswersAreTrue).
THEOREM ReportsAreJobs == SubmitSpec => []ReportedAsSubmitted
<1>1. SubmitIInv => ReportedAsSubmitted
  BY DEF SubmitIInv, AnswersAreTrue, HasJob, ReportedAsSubmitted
<1>2. QED
  BY <1>1, SubmitInvariant, PTL

\* The bounds of what is counted; the page watches a job the controller has.
SubmitBounds ==
  /\ opened <= MaxDialogs /\ sends <= MaxSends
  /\ dialog # Nil => dialog.number >= 1
  /\ bios.key <= version
  /\ bios.watched # Nil => \E j \in jobs : j.key = bios.watched
  /\ \A r \in requests : r.number < sends

LEMMA RequestNumber ==
  ASSUME NEW r \in Requests
  PROVE  r.number \in Nat
BY DEF Requests

LEMMA SubmitInitBounds == SubmitInit => SubmitBounds
BY SubmissionsAssumption DEF SubmitInit, SubmitBounds, LoadedBios

\* What a dialog and the counters may become.
LEMMA DialogsCounted ==
  ASSUME SubmitIInv, SubmitBounds, SubmitNext
  PROVE  /\ opened' <= MaxDialogs /\ sends' <= MaxSends
         /\ dialog' # Nil => dialog'.number >= 1
         /\ sends' \in {sends, sends + 1}
<1>1. /\ opened \in Nat /\ sends \in Nat /\ opened <= MaxDialogs /\ sends <= MaxSends
      /\ MaxDialogs \in Nat /\ MaxSends \in Nat
      /\ dialog # Nil => dialog \in Dialogs /\ dialog.number >= 1
  BY SubmissionsAssumption DEF SubmitIInv, SubmitTypes, SubmitBounds
<1>2. \/ opened' = opened /\ dialog' \in {dialog, Nil}
      \/ opened' = opened /\ \E c \in Contents : dialog # Nil /\ dialog' = [dialog EXCEPT !.content = c]
      \/ opened' = opened + 1 /\ opened < MaxDialogs /\ dialog'.number = opened'
  <2>1. ASSUME NEW c \in Contents, NEW kind \in {"confirm", "batch", "form"}, OpenDialog(kind, c)
        PROVE  opened' = opened + 1 /\ opened < MaxDialogs /\ dialog'.number = opened'
    BY <2>1 DEF OpenDialog
  <2>2. ASSUME NEW c \in Contents, EditDialog(c)
        PROVE  opened' = opened /\ dialog # Nil /\ dialog' = [dialog EXCEPT !.content = c]
    BY <2>2 DEF EditDialog
  <2>3. ASSUME NEW r \in requests,
               EnqueueJob(r) \/ RefuseJob(r) \/ Accepted(r) \/ Refused(r) \/ Lost(r)
        PROVE  opened' = opened /\ dialog' \in {dialog, Nil}
    BY <2>3 DEF EnqueueJob, RefuseJob, Accepted, Refused, Lost
  <2>4. ASSUME \/ CloseDialog \/ SendDialog \/ DiscardEdits \/ ReadBios \/ ConfirmWrite \/ CancelWrite
               \/ WriteBios \/ PollJob \/ PollFails \/ ReloadBios
               \/ \E j \in jobs : Settle(j)
               \/ \E c \in Contents : EditSetting(c)
        PROVE  opened' = opened /\ dialog' \in {dialog, Nil}
    BY <2>4 DEF CloseDialog, SendDialog, DiscardEdits, ReadBios, ConfirmWrite, CancelWrite,
                WriteBios, PollJob, PollFails, ReloadBios, Settle, EditSetting
  <2>5. QED
    BY <2>1, <2>2, <2>3, <2>4 DEF SubmitNext
<1>3. sends' = sends \/ (sends' = sends + 1 /\ sends < MaxSends)
  BY DEF SubmitNext, CloseDialog, SendDialog, DiscardEdits, ReadBios, ConfirmWrite, CancelWrite,
         WriteBios, PollJob, PollFails, ReloadBios, Settle, EditSetting, EditDialog, OpenDialog, Send,
         EnqueueJob, RefuseJob, Accepted, Refused, Lost
<1>4. dialog' # Nil => dialog'.number >= 1
  <2>1. ASSUME NEW c \in Contents, dialog # Nil, dialog' = [dialog EXCEPT !.content = c]
        PROVE  dialog'.number >= 1
    BY <1>1, <2>1 DEF Dialogs
  <2>2. QED
    BY <1>1, <1>2, <2>1
<1>5. QED
  BY <1>1, <1>2, <1>3, <1>4

\* The page's key is one of its versions, and a job it watches stays among the jobs.
LEMMA WatchingCounted ==
  ASSUME SubmitIInv, SubmitBounds, SubmitNext
  PROVE  /\ bios'.key <= version'
         /\ bios'.watched # Nil => \E j \in jobs' : j.key = bios'.watched
<1>1. /\ bios \in BiosPages /\ version \in Nat /\ bios.key \in Nat /\ bios.key <= version
      /\ jobs \subseteq SubmittedJobs
      /\ bios.watched # Nil => \E j \in jobs : j.key = bios.watched
  BY DEF SubmitIInv, SubmitTypes, SubmitBounds, BiosPages
<1>2. \A k : (\E j \in jobs : j.key = k) => \E j \in jobs' : j.key = k
  <2>1. CASE jobs \subseteq jobs'
    BY <2>1
  <2>2. ASSUME NEW j \in jobs, Settle(j)
        PROVE  \A k : (\E i \in jobs : i.key = k) => \E i \in jobs' : i.key = k
    <3>1. PICK s \in Settled : jobs' = (jobs \ {j}) \cup {[j EXCEPT !.status = s]}
      BY <2>2 DEF Settle
    <3>2. [j EXCEPT !.status = s].key = j.key
      BY <1>1 DEF SubmittedJobs
    <3>3. QED
      BY <3>1, <3>2
  <2>3. (\E j \in jobs : Settle(j)) \/ jobs \subseteq jobs'
    BY DEF SubmitNext, CloseDialog, SendDialog, DiscardEdits, ReadBios, ConfirmWrite, CancelWrite,
           WriteBios, PollJob, PollFails, ReloadBios, EditSetting, EditDialog, OpenDialog,
           EnqueueJob, RefuseJob, Accepted, Refused, Lost
  <2>4. QED
    BY <2>1, <2>2, <2>3
<1>3. CASE \E r \in requests : Accepted(r) /\ r.key.kind = "bios"
  <2>1. PICK r \in requests : Accepted(r) /\ r.key.kind = "bios"
    BY <1>3
  <2>2. version' = version + 1 /\ bios' = Watching(r) /\ r.result = "accepted"
    BY <2>1 DEF Accepted
  <2>3. bios'.key = version' /\ bios'.watched = r.key
    BY <1>1, <2>2 DEF Watching, BiosPages
  <2>4. \E j \in jobs : j.key = r.key
    BY <2>2 DEF SubmitIInv, AnswersAreTrue, HasJob
  <2>5. QED
    BY <1>1, <1>2, <2>2, <2>3, <2>4
<1>4. CASE ReloadBios
  <2>1. version' = version + 1 /\ bios' = LoadedBios(version', bios.watched)
    BY <1>4 DEF ReloadBios, NewKey
  <2>2. bios'.key = version' /\ bios'.watched = bios.watched
    BY <2>1 DEF LoadedBios
  <2>3. QED
    BY <1>1, <1>2, <2>1, <2>2
<1>5. CASE /\ version' = version + 1
           /\ \/ bios' = [bios EXCEPT !.key = version']
              \/ \E c : bios' = [bios EXCEPT !.edits = c, !.key = version']
  <2>1. bios'.key = version' /\ bios'.watched = bios.watched
    <3>1. CASE bios' = [bios EXCEPT !.key = version']
      BY <1>1, <3>1 DEF BiosPages
    <3>2. ASSUME NEW c, bios' = [bios EXCEPT !.edits = c, !.key = version']
          PROVE  bios'.key = version' /\ bios'.watched = bios.watched
      BY <1>1, <3>2 DEF BiosPages
    <3>3. QED
      BY <1>5, <3>1, <3>2
  <2>2. version' = version + 1
    BY <1>5
  <2>3. QED
    BY <1>1, <1>2, <2>1, <2>2
<1>6. CASE version' = version /\ bios'.key = bios.key /\ bios'.watched = bios.watched
  BY <1>1, <1>2, <1>6
<1>7. \/ \E r \in requests : Accepted(r) /\ r.key.kind = "bios"
      \/ ReloadBios
      \/ /\ version' = version + 1
         /\ \/ bios' = [bios EXCEPT !.key = version']
            \/ \E c : bios' = [bios EXCEPT !.edits = c, !.key = version']
      \/ version' = version /\ bios'.key = bios.key /\ bios'.watched = bios.watched
  <2>1. CASE ReadBios \/ DiscardEdits \/ \E c \in Contents : EditSetting(c)
    BY <2>1, Zenon DEF ReadBios, DiscardEdits, EditSetting, NewKey
  <2>2. CASE ConfirmWrite \/ CancelWrite \/ PollFails \/ PollJob
    <3>1. version' = version
      BY <2>2 DEF ConfirmWrite, CancelWrite, PollFails, PollJob
    <3>2. bios'.key = bios.key /\ bios'.watched = bios.watched
      <4>1. CASE ConfirmWrite \/ CancelWrite \/ PollFails
        BY <1>1, <4>1 DEF ConfirmWrite, CancelWrite, PollFails, BiosPages
      <4>2. CASE PollJob
        <5>0. bios.pending \in BOOLEAN
          BY <1>1 DEF BiosPages
        <5>1. PICK j \in jobs : \E p \in BOOLEAN, h \in {bios.handled, j.key}, e \in {bios.edits, Nil} :
                bios' = [bios EXCEPT !.seen = j.status, !.failing = FALSE, !.pending = p,
                                     !.handled = h, !.edits = e]
          BY <4>2, <5>0 DEF PollJob
        <5>2. QED
          BY <1>1, <5>1 DEF BiosPages
      <4>3. QED
        BY <2>2, <4>1, <4>2
    <3>3. QED
      BY <3>1, <3>2
  <2>3. ASSUME NEW r \in requests,
               EnqueueJob(r) \/ RefuseJob(r) \/ Accepted(r) \/ Refused(r) \/ Lost(r)
        PROVE  (Accepted(r) /\ r.key.kind = "bios") \/ (version' = version /\ bios' = bios)
    BY <2>3 DEF EnqueueJob, RefuseJob, Accepted, Refused, Lost
  <2>4. CASE \/ CloseDialog \/ SendDialog \/ WriteBios \/ \E j \in jobs : Settle(j)
             \/ \E c \in Contents : EditDialog(c)
             \/ \E c \in Contents, kind \in {"confirm", "batch", "form"} : OpenDialog(kind, c)
    BY <2>4 DEF CloseDialog, SendDialog, WriteBios, Settle, EditDialog, OpenDialog
  <2>5. QED
    BY <2>1, <2>2, <2>3, <2>4 DEF SubmitNext
<1>8. QED
  BY <1>3, <1>4, <1>5, <1>6, <1>7

\* A request keeps the number it was sent with.
LEMMA RequestsCounted ==
  ASSUME SubmitIInv, SubmitBounds, SubmitNext
  PROVE  \A r \in requests' : r.number < sends'
<1>1. /\ requests \subseteq Requests /\ sends \in Nat
      /\ \A r \in requests : r.number \in Nat /\ r.number < sends
  <2>1. requests \subseteq Requests /\ sends \in Nat /\ \A r \in requests : r.number < sends
    BY DEF SubmitIInv, SubmitTypes, SubmitBounds
  <2>2. QED
    BY <2>1, RequestNumber
<1>2. sends' \in {sends, sends + 1}
  BY DialogsCounted
<1>3. CASE SendDialog \/ ReadBios \/ WriteBios
  <2>1. PICK n : requests' = requests \cup {n} /\ n.number = sends
    <3>1. PICK kind, decision, c : Send(kind, decision, c)
      BY <1>3 DEF SendDialog, ReadBios, WriteBios
    <3>2. PICK n : n = [key |-> JobKey(kind, decision), decision |-> decision, content |-> c,
                        number |-> sends, result |-> Nil, heard |-> TRUE]
      OBVIOUS
    <3>3. requests' = requests \cup {n} /\ n.number = sends
      BY <3>1, <3>2 DEF Send
    <3>4. QED
      BY <3>3
  <2>2. sends' = sends + 1
    BY <1>3 DEF SendDialog, ReadBios, WriteBios, Send
  <2>3. QED
    BY <1>1, <2>1, <2>2
<1>4. CASE \A x \in requests' : \E r \in requests : x.number = r.number
  BY <1>1, <1>2, <1>4
<1>5. ASSUME NEW r \in requests,
             EnqueueJob(r) \/ RefuseJob(r) \/ Accepted(r) \/ Refused(r) \/ Lost(r)
      PROVE  \A x \in requests' : \E q \in requests : x.number = q.number
  <2>1. r \in Requests
    BY <1>1
  <2>2. ASSUME NEW w PROVE [r EXCEPT !.result = w].number = r.number
    BY <2>1 DEF Requests
  <2>3. [r EXCEPT !.heard = FALSE].number = r.number
    BY <2>1 DEF Requests
  <2>4. \A x \in requests' : x \in requests \/ x.number = r.number
    BY <1>5, <2>2, <2>3 DEF EnqueueJob, RefuseJob, Accepted, Refused, Lost, Result
  <2>5. QED
    BY <2>4
<1>6. ASSUME ReloadBios
      PROVE  \A x \in requests' : \E q \in requests : x.number = q.number
  <2>1. \A x \in requests' : \E q \in requests :
          x = IF q.key.kind = "bios" THEN [q EXCEPT !.heard = FALSE] ELSE q
    BY <1>6 DEF ReloadBios
  <2>2. \A q \in requests : [q EXCEPT !.heard = FALSE].number = q.number
    BY <1>1 DEF Requests
  <2>3. QED
    BY <2>1, <2>2
<1>7. ASSUME ~(SendDialog \/ ReadBios \/ WriteBios \/ ReloadBios),
             \A r \in requests :
               ~(EnqueueJob(r) \/ RefuseJob(r) \/ Accepted(r) \/ Refused(r) \/ Lost(r))
      PROVE  requests' = requests
  BY <1>7 DEF SubmitNext, CloseDialog, DiscardEdits, ConfirmWrite, CancelWrite, PollJob, PollFails,
              Settle, EditSetting, EditDialog, OpenDialog
<1>8. QED
  BY <1>3, <1>4, <1>5, <1>6, <1>7

LEMMA SubmitNextBounds == SubmitIInv /\ SubmitBounds /\ [SubmitNext]_submitVars => SubmitBounds'
<1>1. ASSUME SubmitBounds, UNCHANGED submitVars
      PROVE  SubmitBounds'
  BY <1>1 DEF submitVars, SubmitBounds
<1>2. QED
  BY <1>1, DialogsCounted, WatchingCounted, RequestsCounted DEF SubmitBounds

LEMMA BoundedSubmissions == SubmitIInv /\ SubmitBounds => SubmitTypeOK
<1> SUFFICES ASSUME SubmitIInv, SubmitBounds PROVE SubmitTypeOK
  OBVIOUS
<1>1. SubmitTypes /\ MaxDialogs \in Nat /\ MaxSends \in Nat
  BY SubmissionsAssumption DEF SubmitIInv
<1>2. opened \in 0..MaxDialogs /\ version \in Nat /\ sends \in 0..MaxSends /\ sends \in Nat
  BY <1>1 DEF SubmitTypes, SubmitBounds
<1>3. dialog # Nil => dialog.number \in 1..opened /\ dialog.content \in Contents
  BY <1>1 DEF SubmitTypes, SubmitBounds, Dialogs
<1>4. /\ bios.edits \in Contents \cup {Nil} /\ bios.key \in 0..version
      /\ bios.watched # Nil => bios.watched \in {j.key : j \in jobs}
  BY <1>1 DEF SubmitTypes, SubmitBounds, BiosPages
<1>5. requests \subseteq [key : JobKeys, decision : Nat, content : Writes, number : 0..(sends - 1),
                          result : {Nil, "accepted", "refused"}, heard : BOOLEAN]
  <2>1. ASSUME NEW r \in requests
        PROVE  r \in Requests /\ r.number \in 0..(sends - 1)
    <3>1. r \in Requests /\ r.number < sends
      BY <1>1 DEF SubmitTypes, SubmitBounds
    <3>2. QED
      BY <1>2, <3>1, RequestNumber
  <2>2. ASSUME NEW r \in Requests, r.number \in 0..(sends - 1)
        PROVE  r \in [key : JobKeys, decision : Nat, content : Writes, number : 0..(sends - 1),
                       result : {Nil, "accepted", "refused"}, heard : BOOLEAN]
    BY <2>2 DEF Requests
  <2>3. QED
    BY <2>1, <2>2
<1>6. QED
  BY <1>1, <1>2, <1>3, <1>4, <1>5 DEF SubmitTypeOK, SubmitTypes, SubmittedJobs

\* Types, with the bounds of what is counted: no job is watched that the controller does not have.
THEOREM SubmitTypesHold == SubmitSpec => []SubmitTypeOK
<1>1. SubmitSpec => []SubmitBounds
  BY SubmitInvariant, SubmitInitBounds, SubmitNextBounds, PTL DEF SubmitSpec
<1>2. QED
  BY <1>1, SubmitInvariant, BoundedSubmissions, PTL

(***************************************************************************)
(* Freshness.                                                              *)
(***************************************************************************)

\* After recent data freshNow may still advance by what is left of the grace, and is then
\* within the time an observation counts as current.
FreshIInv ==
  /\ at \in (0..Grace) \cup {Nil} /\ age \in 0..Old /\ lag \in 0..Old
  /\ recent => at \in 0..Grace /\ age + Grace < FreshFor + at

LEMMA FreshInitIInv == FreshInit => FreshIInv
BY FreshAssumption DEF FreshInit, FreshIInv

LEMMA FreshNextIInv ==
  FreshIInv /\ [FreshNext]_freshVars => FreshIInv' /\ (online /\ recent /\ recent' => online')
<1> SUFFICES ASSUME FreshIInv, [FreshNext]_freshVars
             PROVE  FreshIInv' /\ (online /\ recent /\ recent' => online')
  OBVIOUS
<1> USE FreshAssumption DEF FreshIInv
<1>0. Grace \in Nat /\ FreshFor \in Nat /\ Old \in Nat /\ FreshFor < Old
  OBVIOUS
<1>1. ASSUME NEW a \in Nat, NEW n \in Nat
      PROVE  Later(a, n) \in 0..Old
  BY <1>0 DEF Later
<1>2. CASE Clock
  <2>1. CASE at = Nil
    BY <1>0, <1>1, <1>2, <2>1 DEF Clock, Advances
  <2>2. CASE at \in 0..Grace /\ at < Grace
    BY <1>0, <1>2, <2>2 DEF Clock, Advances, Later, UpTo
  <2>3. CASE at = Grace
    <3>1. at # Nil /\ ~ Advances /\ UpTo(at, Grace) = at
      BY <1>0, <2>3 DEF Advances, UpTo
    <3>2. UNCHANGED <<at, age, online, recent>> /\ lag' = Later(lag, 1)
      BY <1>2, <3>1 DEF Clock
    <3>3. lag' \in 0..Old
      BY <1>1, <3>2
    <3>4. QED
      BY <3>2, <3>3
  <2>4. QED
    BY <2>1, <2>2, <2>3
<1>3. CASE Rerender
  <2>1. recent => age < FreshFor
    BY <1>0
  <2>2. online' = (age < FreshFor) /\ UNCHANGED <<age, at, lag, recent>>
    BY <1>3 DEF Rerender
  <2>3. recent => online' = TRUE
    BY <2>1, <2>2
  <2>4. QED
    BY <2>2, <2>3
<1>4. ASSUME NEW a \in 0..Old, FleetAnswer(a)
      PROVE  FreshIInv' /\ (online /\ recent /\ recent' => online')
  <2>1. /\ online' = (a < FreshFor) /\ recent' = (a + Grace < FreshFor)
        /\ age' = a /\ at' = 0 /\ lag' = 0
    BY <1>4 DEF FleetAnswer
  <2>2. CASE a + Grace < FreshFor
    <3>0. (a < FreshFor) = TRUE
      BY <1>0, <2>2
    <3>1. online' = TRUE
      BY <2>1, <3>0, Zenon
    <3>2. QED
      BY <1>0, <2>1, <2>2, <3>1
  <2>3. CASE ~(a + Grace < FreshFor)
    <3>0. (a + Grace < FreshFor) = FALSE
      BY <2>3
    <3>1. recent' = FALSE
      BY <2>1, <3>0, Zenon
    <3>2. QED
      BY <1>0, <2>1, <3>1
  <2>4. QED
    BY <2>2, <2>3
<1>5. CASE FleetFailure \/ OtherAnswer \/ OtherFailure
  <2>1. recent' = FALSE /\ at' \in {0, Nil} /\ age' = Later(age, lag) /\ lag' = 0
    BY <1>5 DEF FleetFailure, OtherAnswer, OtherFailure, Forget
  <2>2. age' \in 0..Old
    BY <1>1, <2>1
  <2>3. QED
    BY <1>0, <2>1, <2>2
<1>6. CASE PollFleet \/ RestartPoll \/ Hide \/ Show \/ UNCHANGED freshVars
  BY <1>6 DEF PollFleet, RestartPoll, Hide, Show, freshVars
<1>7. QED
  BY <1>2, <1>3, <1>4, <1>5, <1>6 DEF FreshNext

\* Nothing but new data or a failure turns a machine off that was shown as online.
THEOREM LateStaysOnline == FreshSpec => LateIsNotOffline
<1>1. FreshIInv /\ [FreshNext]_freshVars => [online /\ recent /\ recent' => online']_freshVars
  BY FreshNextIInv
<1>2. QED
  BY <1>1, FreshInitIInv, FreshNextIInv, PTL DEF FreshSpec, LateIsNotOffline

FleetReads == [takes : 0..Deadline, try : 1..2, sent : BOOLEAN]

\* FreshTypeOK, one variable at a time.
FreshTypes ==
  /\ half \in BOOLEAN /\ visible \in BOOLEAN
  /\ online \in BOOLEAN /\ current \in BOOLEAN /\ recent \in BOOLEAN
  /\ req \in FleetReads \cup {Nil}
  /\ idle \in 0..Interval /\ calm \in 0..Settling
  /\ age \in 0..Old /\ lag \in 0..Old /\ at \in (0..Grace) \cup {Nil}
  /\ lag > 0 => at = Grace
  /\ req # Nil /\ ~req.sent => req.try = 2 /\ ~visible

LEMMA FreshTypesAre == FreshTypeOK <=> FreshTypes
BY DEF FreshTypeOK, FreshTypes, FleetReads

LEMMA FreshBounds ==
  /\ Interval \in Nat /\ Deadline \in Nat /\ Grace \in Nat /\ Settling \in Nat /\ Old \in Nat
  /\ FreshFor \in Nat /\ Limit \in Nat
  /\ Interval > 0 /\ Deadline > 0 /\ Grace < FreshFor /\ FreshFor < Limit /\ Limit < Old
  /\ Nil \notin Nat /\ Nil \notin FleetReads
BY FreshAssumption DEF FleetReads

LEMMA FreshInitTypes == FreshInit => FreshTypes
<1>. SUFFICES ASSUME FreshInit PROVE FreshTypes
  OBVIOUS
<1>1. req \in FleetReads /\ req.sent
  BY FreshBounds DEF FreshInit, FleetReads
<1>2. idle \in 0..Interval /\ calm \in 0..Settling /\ age \in 0..Old /\ lag \in 0..Old /\ ~ (lag > 0)
  BY FreshBounds DEF FreshInit
<1>3. QED
  BY <1>1, <1>2 DEF FreshInit, FreshTypes

LEMMA LaterIs ==
  ASSUME NEW a \in 0..Old, NEW n \in 0..Old
  PROVE  /\ Later(a, n) \in 0..Old
         /\ Later(a, n) = a + n \/ (Later(a, n) = Old /\ a + n >= Old)
<1>1. Old \in Nat
  BY FreshBounds
<1>2. QED
  BY <1>1 DEF Later

LEMMA LaterByNone == \A a \in 0..Old : Later(a, 0) = a
<1>1. Old \in Nat
  BY FreshBounds
<1>2. QED
  BY <1>1 DEF Later

LEMMA UpToIs ==
  ASSUME NEW l \in Nat, NEW a \in 0..l
  PROVE  UpTo(a, l) \in 0..l /\ UpTo(a, l) = IF a < l THEN a + 1 ELSE l
BY DEF UpTo

\* A unit of time for the request: it takes longer, if it is sent.
LEMMA ClockRequest ==
  ASSUME FreshTypes, Clock
  PROVE  /\ req' \in FleetReads \cup {Nil} /\ (req' = Nil <=> req = Nil)
         /\ req' # Nil => req'.sent = req.sent /\ req'.try = req.try
         /\ Sent => req'.takes = req.takes + 1
         /\ ~Sent => req' = req
<1>1. CASE Sent
  <2>1. req \in FleetReads /\ req' = [req EXCEPT !.takes = UpTo(req.takes, Deadline)]
    BY <1>1 DEF Clock, Sent, FreshTypes
  <2>2. Deadline \in Nat /\ req.takes \in 0..Deadline /\ req.takes # Deadline
    BY <1>1, <2>1, FreshBounds DEF Clock, Overdue, FleetReads
  <2>3. UpTo(req.takes, Deadline) \in 0..Deadline /\ UpTo(req.takes, Deadline) = req.takes + 1
    BY <2>2, UpToIs
  <2>4. req' \in FleetReads /\ req'.sent = req.sent /\ req'.try = req.try /\ req'.takes = req.takes + 1
    BY <2>1, <2>3 DEF FleetReads
  <2>5. req # Nil /\ req' # Nil
    BY <2>1, <2>4, FreshBounds
  <2>6. QED
    BY <1>1, <2>4, <2>5
<1>2. CASE ~Sent
  BY <1>2 DEF Clock, FreshTypes
<1>3. QED
  BY <1>1, <1>2

\* A unit of time for the observation: freshNow goes on, or falls behind.
LEMMA ClockAges ==
  ASSUME FreshTypes, Clock
  PROVE  /\ age' \in 0..Old /\ lag' \in 0..Old /\ at' \in (0..Grace) \cup {Nil}
         /\ lag' > 0 => at' = Grace
         /\ Advances => age' <= age + 1 /\ lag = 0 /\ lag' = 0
         /\ ~Advances => age' = age /\ lag' = IF lag < Old THEN lag + 1 ELSE Old
         /\ Later(age', lag') <= Later(age, lag) + 1
<1>1. /\ Old \in Nat /\ Old > 1 /\ Grace \in Nat /\ Nil \notin Nat
      /\ age \in 0..Old /\ lag \in 0..Old /\ 1 \in 0..Old
  BY FreshBounds DEF FreshTypes
<1>2. CASE at = Nil
  <2>1. Advances /\ at' = Nil /\ age' = Later(age, 1) /\ lag' = lag
    BY <1>2 DEF Clock, Advances
  <2>2. lag = 0
    BY <1>1, <1>2 DEF FreshTypes
  <2>3. QED
    BY <1>1, <2>1, <2>2 DEF Later
<1>3. CASE at # Nil
  <2>1. at \in 0..Grace /\ at' = UpTo(at, Grace)
    BY <1>3 DEF Clock, FreshTypes
  <2>2. CASE at < Grace
    <3>1. Advances /\ age' = Later(age, 1) /\ lag' = lag
      BY <2>2 DEF Clock, Advances
    <3>2. lag = 0 /\ at' \in 0..Grace
      BY <1>1, <2>1, <2>2, UpToIs DEF FreshTypes
    <3>3. QED
      BY <1>1, <3>1, <3>2 DEF Later
  <2>3. CASE ~(at < Grace)
    <3>1. ~Advances /\ lag' = Later(lag, 1) /\ age' = age
      BY <1>3, <2>3 DEF Clock, Advances
    <3>2. at' = Grace
      BY <1>1, <2>1, <2>3, UpToIs
    <3>3. QED
      BY <1>1, <3>1, <3>2 DEF Later
  <2>4. QED
    BY <2>2, <2>3
<1>4. QED
  BY <1>2, <1>3

LEMMA ComparisonsAreBoolean == \A x, y \in Nat : (x < y) \in BOOLEAN
OBVIOUS

LEMMA RequestIs ==
  ASSUME FreshTypes, NEW n \in 1..2
  PROVE  /\ Request(n) \in FleetReads /\ Request(n) # Nil
         /\ Request(n).takes = 0 /\ Request(n).try = n /\ Request(n).sent = visible
<1>1. Request(n) \in FleetReads
  BY FreshBounds DEF Request, FleetReads, FreshTypes
<1>2. QED
  BY <1>1, FreshBounds DEF Request

LEMMA FreshNextTypes == FreshTypes /\ [FreshNext]_freshVars => FreshTypes'
<1>. SUFFICES ASSUME FreshTypes, [FreshNext]_freshVars PROVE FreshTypes'
  OBVIOUS
<1>1. CASE Clock
  <2>1. idle' \in 0..Interval /\ calm' \in 0..Settling
    BY <1>1, FreshBounds, UpToIs DEF Clock, FreshTypes
  <2>2. half' \in BOOLEAN /\ current' \in BOOLEAN
    BY <1>1, Zenon DEF Clock
  <2>3. UNCHANGED <<visible, online, recent>>
    BY <1>1 DEF Clock
  <2>4. QED
    BY <1>1, <2>1, <2>2, <2>3, ClockRequest, ClockAges DEF FreshTypes
<1>2. CASE Rerender
  <2>0. (age < FreshFor) \in BOOLEAN
    BY FreshBounds, ComparisonsAreBoolean DEF FreshTypes
  <2>1. online' \in BOOLEAN /\ current' \in BOOLEAN
    BY <1>2, <2>0, Zenon DEF Rerender
  <2>2. QED
    BY <1>2, <2>1 DEF Rerender, FreshTypes
<1>3. ASSUME NEW n \in 1..2, visible \/ n = 2
      PROVE  Request(n) \in FleetReads /\ (~Request(n).sent => Request(n).try = 2 /\ ~visible)
             /\ Request(n).takes = 0 /\ Request(n).try = n
  BY <1>3, FreshBounds DEF Request, FleetReads, FreshTypes
<1>4. CASE PollFleet \/ RestartPoll
  <2>1. req' = Request(1) /\ visible /\ calm' \in 0..Settling
    BY <1>4, FreshBounds DEF PollFleet, RestartPoll, FreshTypes
  <2>2. UNCHANGED <<half, visible, idle, age, at, lag, online, current, recent>>
    BY <1>4 DEF PollFleet, RestartPoll
  <2>3. QED
    BY <1>3, <2>1, <2>2 DEF FreshTypes
<1>5. 0 \in 0..Interval /\ 0 \in 0..Settling /\ 0 \in 0..Old /\ 0 \in 0..Grace /\ ~(0 > 0)
  BY FreshBounds
<1>6. CASE FleetFailure
  <2>1. at' = Nil /\ lag' = 0 /\ age' \in 0..Old /\ recent' = FALSE
    BY <1>6, LaterIs DEF FleetFailure, Forget, FreshTypes
  <2>2. current' \in BOOLEAN /\ online' \in BOOLEAN
    <3>1. current' \in BOOLEAN
      BY <1>6, Zenon DEF FleetFailure
    <3>2. online' = online \/ online' = (age' < FreshFor)
      BY <1>6 DEF FleetFailure
    <3>3. (age' < FreshFor) \in BOOLEAN
      BY <2>1, FreshBounds, ComparisonsAreBoolean
    <3>4. QED
      BY <3>1, <3>2, <3>3, Zenon DEF FreshTypes
  <2>3. UNCHANGED <<half, visible, calm>>
    BY <1>6 DEF FleetFailure
  <2>4. (req' = Request(2) /\ idle' = idle) \/ (req' = Nil /\ idle' = 0)
    BY <1>6 DEF FleetFailure
  <2>5. CASE req' = Request(2) /\ idle' = idle
    <3>1. req' \in FleetReads /\ (~req'.sent => req'.try = 2 /\ ~visible')
      BY <1>3, <2>3, <2>5
    <3>2. idle' \in 0..Interval
      BY <2>5 DEF FreshTypes
    <3>3. QED
      BY <1>5, <2>1, <2>2, <2>3, <3>1, <3>2 DEF FreshTypes
  <2>6. CASE req' = Nil /\ idle' = 0
    BY <1>5, <2>1, <2>2, <2>3, <2>6 DEF FreshTypes
  <2>7. QED
    BY <2>4, <2>5, <2>6
<1>7. CASE OtherAnswer \/ OtherFailure
  <2>1. at' \in {0, Nil} /\ lag' = 0 /\ age' \in 0..Old /\ recent' = FALSE
    BY <1>7, LaterIs DEF OtherAnswer, OtherFailure, Forget, FreshTypes
  <2>2. current' \in BOOLEAN
    BY <1>7, Zenon DEF OtherAnswer, OtherFailure
  <2>3. UNCHANGED <<half, visible, req, idle, online, calm>>
    BY <1>7 DEF OtherAnswer, OtherFailure
  <2>4. QED
    BY <1>5, <2>1, <2>2, <2>3 DEF FreshTypes
<1>8. CASE Hide
  BY <1>5, <1>8 DEF Hide, FreshTypes
<1>9. CASE Show
  <2>1. CASE req = Nil
    BY <1>9, <2>1 DEF Show, FreshTypes
  <2>2. CASE req # Nil
    <3>1. req \in FleetReads /\ req' = [req EXCEPT !.sent = TRUE]
      BY <1>9, <2>2 DEF Show, FreshTypes
    <3>2. req' \in FleetReads /\ req'.sent = TRUE
      BY <3>1 DEF FleetReads
    <3>3. QED
      BY <1>9, <3>2 DEF Show, FreshTypes
  <2>3. QED
    BY <2>1, <2>2
<1>10. ASSUME NEW a \in 0..Old, FleetAnswer(a)
       PROVE  FreshTypes'
  <2>1. online' \in BOOLEAN /\ current' \in BOOLEAN /\ recent' \in BOOLEAN
    <3>1. (a < FreshFor) \in BOOLEAN /\ (a + Grace < FreshFor) \in BOOLEAN
      BY FreshBounds, ComparisonsAreBoolean
    <3>2. QED
      BY <1>10, <3>1, Zenon DEF FleetAnswer
  <2>2. req' = Nil /\ idle' = 0 /\ age' = a /\ at' = 0 /\ lag' = 0 /\ UNCHANGED <<half, visible, calm>>
    BY <1>10 DEF FleetAnswer
  <2>3. QED
    BY <1>5, <2>1, <2>2 DEF FreshTypes
<1>11. CASE UNCHANGED freshVars
  BY <1>11 DEF freshVars, FreshTypes
<1>12. QED
  BY <1>1, <1>2, <1>4, <1>6, <1>7, <1>8, <1>9, <1>10, <1>11 DEF FreshNext

\* What the kept rows show as online was current when they were made, and freshNow has gone
\* on for at most one unit since; not at all in the first half of their period, and when
\* freshNow is one unit behind in the second.
KeptAreRecent ==
  current /\ online =>
    /\ age <= FreshFor
    /\ lag = 0 /\ ~half => age < FreshFor
    /\ lag = 1 /\ half => age < FreshFor

\* A unit of time: the rows outlive it if freshNow stands, or enters the second half.
LEMMA ClockKeeps == ASSUME FreshTypes, KeptAreRecent, Clock PROVE KeptAreRecent'
<1>. SUFFICES ASSUME current', online'
              PROVE  /\ age' <= FreshFor
                     /\ lag' = 0 /\ ~half' => age' < FreshFor
                     /\ lag' = 1 /\ half' => age' < FreshFor
  BY DEF KeptAreRecent
<1>1. current /\ ~(Advances /\ half) /\ online
  BY DEF Clock
<1>2. half' = ~half /\ half \in BOOLEAN
  BY DEF Clock, FreshTypes
<1>3. /\ age \in Nat /\ lag \in Nat /\ age' \in Nat /\ lag' \in Nat /\ FreshFor \in Nat
      /\ Old \in Nat /\ Old > 2
  BY ClockAges, FreshBounds DEF FreshTypes
<1>4. CASE Advances
  <2>1. ~half /\ lag = 0 /\ lag' = 0 /\ age' <= age + 1
    BY <1>1, <1>4, ClockAges
  <2>2. age < FreshFor
    BY <1>1, <2>1 DEF KeptAreRecent
  <2>3. half'
    BY <1>2, <2>1
  <2>4. QED
    BY <1>3, <2>1, <2>2, <2>3
<1>5. CASE ~Advances
  <2>1. age' = age /\ lag' = IF lag < Old THEN lag + 1 ELSE Old
    BY <1>5, ClockAges
  <2>2. age <= FreshFor
    BY <1>1 DEF KeptAreRecent
  <2>3. ASSUME lag' = 1, half'
        PROVE  age < FreshFor
    <3>0. lag = 0
      BY <1>3, <2>1, <2>3
    <3>1. lag = 0 /\ ~half
      BY <1>2, <2>3, <3>0, Zenon
    <3>2. QED
      BY <1>1, <3>1 DEF KeptAreRecent
  <2>4. lag' # 0
    BY <1>3, <2>1
  <2>5. QED
    BY <2>1, <2>2, <2>3, <2>4
<1>6. QED
  BY <1>4, <1>5

\* freshNow catches up with the clock: rows that are kept even so are recent.
LEMMA CaughtUp ==
  ASSUME FreshTypes, KeptAreRecent, current, SamePeriod, online,
         lag' = 0, age' = Later(age, lag), half' = half
  PROVE  /\ age' <= FreshFor
         /\ lag' = 0 /\ ~half' => age' < FreshFor
         /\ lag' = 1 /\ half' => age' < FreshFor
<1>1. age \in 0..Old /\ lag \in 0..Old /\ FreshFor \in Nat /\ Old \in Nat
  BY FreshBounds DEF FreshTypes
<1>2. age <= FreshFor
  BY DEF KeptAreRecent
<1>3. CASE lag = 0
  <2>1. age' = age
    BY <1>1, <1>3 DEF Later
  <2>2. QED
    BY <1>2, <1>3, <2>1 DEF KeptAreRecent
<1>4. CASE lag = 1 /\ half
  <2>1. age < FreshFor
    BY <1>4 DEF KeptAreRecent
  <2>2. age' <= age + 1
    BY <1>1, <1>4 DEF Later
  <2>3. half'
    BY <1>4
  <2>4. age' \in Nat
    BY <1>1, LaterIs
  <2>5. QED
    BY <1>1, <2>1, <2>2, <2>3, <2>4
<1>5. QED
  BY <1>3, <1>4 DEF SamePeriod

\* Rows that are made show as online what is current.
LEMMA MadeAnew ==
  ASSUME FreshTypes', online' = (age' < FreshFor)
  PROVE  KeptAreRecent'
<1>1. age' \in Nat /\ FreshFor \in Nat
  BY FreshBounds DEF FreshTypes
<1>2. ASSUME online'
      PROVE  age' < FreshFor
  BY <1>2
<1>3. QED
  BY <1>1, <1>2 DEF KeptAreRecent

LEMMA FreshNextKeeps ==
  FreshTypes /\ KeptAreRecent /\ [FreshNext]_freshVars => KeptAreRecent'
<1>. SUFFICES ASSUME FreshTypes, KeptAreRecent, [FreshNext]_freshVars PROVE KeptAreRecent'
  OBVIOUS
<1>1. FreshTypes'
  BY FreshNextTypes
<1>2. CASE Rerender
  BY <1>1, <1>2, MadeAnew DEF Rerender
<1>3. ASSUME NEW a \in 0..Old, FleetAnswer(a)
      PROVE  KeptAreRecent'
  BY <1>1, <1>3, MadeAnew DEF FleetAnswer
<1>4. CASE FleetFailure
  <2>1. lag' = 0 /\ age' = Later(age, lag) /\ half' = half
    BY <1>4 DEF FleetFailure, Forget
  <2>2. CASE current' = (current /\ SamePeriod) /\ online' = online
    BY <2>1, <2>2, CaughtUp DEF KeptAreRecent
  <2>3. CASE Kept /\ SamePeriod /\ online' = online
    BY <2>1, <2>3, CaughtUp DEF KeptAreRecent, Kept
  <2>4. CASE online' = (age' < FreshFor)
    BY <1>1, <2>4, MadeAnew
  <2>5. QED
    BY <1>4, <2>2, <2>3, <2>4 DEF FleetFailure
<1>5. CASE OtherAnswer \/ OtherFailure
  <2>1. lag' = 0 /\ age' = Later(age, lag) /\ half' = half /\ online' = online
    BY <1>5 DEF OtherAnswer, OtherFailure, Forget
  <2>2. current' = (current /\ SamePeriod)
    BY <1>5 DEF OtherAnswer, OtherFailure
  <2>3. QED
    BY <2>1, <2>2, CaughtUp DEF KeptAreRecent
<1>6. CASE PollFleet \/ RestartPoll \/ Hide \/ Show \/ UNCHANGED freshVars
  BY <1>6 DEF PollFleet, RestartPoll, Hide, Show, freshVars, KeptAreRecent
<1>7. CASE Clock
  BY <1>7, ClockKeeps
<1>8. QED
  BY <1>2, <1>3, <1>4, <1>5, <1>6, <1>7 DEF FreshNext

\* How far the polling has come since it last ended, at most.
Progress ==
  IF req = Nil THEN idle
  ELSE IF req.try = 1 THEN Interval + req.takes ELSE Interval + Deadline + req.takes

\* Unless the polling was disturbed after it last ended, freshNow is no further behind than
\* that, and what is shown as online no older.
RecentUnlessDisturbed ==
  \/ calm < Progress
  \/ /\ lag <= Progress
     /\ online => Later(age, lag) <= FreshFor + Progress

LEMMA ProgressIs ==
  ASSUME FreshTypes
  PROVE  /\ Progress \in Nat /\ Progress <= Interval + 2 * Deadline
         /\ req = Nil => Progress = idle
         /\ req # Nil /\ req.try = 1 => Progress = Interval + req.takes
         /\ req # Nil /\ req.try = 2 => Progress = Interval + Deadline + req.takes
         /\ req # Nil => Progress >= Interval
BY FreshBounds DEF FreshTypes, FleetReads, Progress

LEMMA ClockProgress ==
  ASSUME FreshTypes, Clock
  PROVE  /\ Progress' = Progress + 1 \/ (Progress' = Progress /\ ~visible)
         /\ Progress' > 0
<1>1. FreshTypes'
  BY FreshNextTypes DEF FreshNext
<1>2. Interval \in Nat /\ Interval > 0 /\ Deadline \in Nat /\ idle \in 0..Interval
  BY FreshBounds DEF FreshTypes
<1>3. CASE req = Nil
  <2>1. req' = Nil /\ idle' = UpTo(idle, Interval)
    BY <1>3, ClockRequest DEF Clock
  <2>2. visible => idle # Interval
    BY <1>3 DEF Clock, Due
  <2>3. Progress = idle /\ Progress' = idle'
    BY <1>1, <1>3, <2>1, ProgressIs DEF Progress
  <2>4. idle' = IF idle < Interval THEN idle + 1 ELSE Interval
    BY <1>2, <2>1 DEF UpTo
  <2>5. QED
    BY <1>2, <2>2, <2>3, <2>4
<1>4. CASE req # Nil
  <2>1. req' # Nil /\ req'.try = req.try
    BY <1>4, ClockRequest
  <2>2. Progress \in Nat /\ Progress >= Interval
    BY <1>4, ProgressIs
  <2>3. CASE Sent
    <3>1. req'.takes = req.takes + 1 /\ req.takes \in Nat
      BY <1>4, <2>3, ClockRequest DEF FreshTypes, FleetReads
    <3>2. Progress' = Progress + 1
      BY <1>2, <1>4, <2>1, <3>1 DEF Progress
    <3>3. QED
      BY <1>2, <2>2, <3>2
  <2>4. CASE ~Sent
    <3>1. req' = req /\ ~visible
      BY <1>4, <2>4, ClockRequest DEF Sent, FreshTypes
    <3>2. Progress' = Progress
      BY <1>4, <3>1 DEF Progress
    <3>3. QED
      BY <1>2, <2>2, <3>1, <3>2
  <2>5. QED
    BY <2>3, <2>4
<1>5. QED
  BY <1>3, <1>4

LEMMA ClockAgesShown ==
  ASSUME FreshTypes, RecentUnlessDisturbed, Clock
  PROVE  RecentUnlessDisturbed'
<1>1. FreshTypes'
  BY FreshNextTypes DEF FreshNext
<1>0. Progress \in Nat /\ Progress' \in Nat
  BY ProgressIs, ClockProgress
<1>2. /\ Progress \in Nat /\ Progress' \in Nat /\ FreshFor \in Nat /\ Settling \in Nat
      /\ calm \in 0..Settling /\ age \in 0..Old /\ lag \in 0..Old /\ age' \in 0..Old /\ lag' \in 0..Old
      /\ Old \in Nat
  BY <1>0, <1>1, FreshBounds DEF FreshTypes
<1>3. Later(age, lag) \in Nat /\ Later(age', lag') \in Nat /\ Later(age', lag') <= Later(age, lag) + 1
  BY <1>2, ClockAges, LaterIs
<1>4. lag' <= lag + 1
  BY <1>2, ClockAges
<1>5. online' = online
  BY DEF Clock
<1>6. CASE visible
  <2>1. Progress' = Progress + 1
    BY <1>6, ClockProgress
  <2>2. calm' <= calm + 1 /\ calm' \in Nat
    BY <1>2, <1>6 DEF Clock, UpTo
  <2>3. CASE calm < Progress
    BY <1>2, <2>1, <2>2, <2>3 DEF RecentUnlessDisturbed
  <2>4. CASE lag <= Progress /\ (online => Later(age, lag) <= FreshFor + Progress)
    <3>1. lag' <= Progress'
      BY <1>2, <1>4, <2>1, <2>4
    <3>2. Later(age, lag) <= FreshFor + Progress => Later(age', lag') <= FreshFor + Progress'
      BY <1>2, <1>3, <2>1
    <3>3. QED
      BY <1>5, <2>4, <3>1, <3>2 DEF RecentUnlessDisturbed
  <2>5. QED
    BY <2>3, <2>4 DEF RecentUnlessDisturbed
<1>7. CASE ~visible
  <2>1. calm' = 0
    BY <1>7 DEF Clock
  <2>2. QED
    BY <2>1, ClockProgress DEF RecentUnlessDisturbed
<1>8. QED
  BY <1>6, <1>7

\* The polling ends, with data or after the second failure: what is shown is recent.
LEMMA PollEnds ==
  ASSUME FreshTypes, KeptAreRecent,
         (FleetFailure /\ req' = Nil) \/ \E a \in 0..Old : FleetAnswer(a)
  PROVE  RecentUnlessDisturbed'
<1>1. /\ Old \in Nat /\ FreshFor \in Nat /\ age \in 0..Old /\ lag \in 0..Old
  BY FreshBounds DEF FreshTypes
<1>2. lag' = 0 /\ age' \in 0..Old /\ req' = Nil /\ idle' = 0
  <2>1. ASSUME NEW a \in 0..Old, FleetAnswer(a)
        PROVE  lag' = 0 /\ age' \in 0..Old /\ req' = Nil /\ idle' = 0
    BY <2>1 DEF FleetAnswer
  <2>2. CASE FleetFailure /\ req' = Nil
    <3>1. lag' = 0 /\ age' = Later(age, lag)
      BY <2>2 DEF FleetFailure, Forget
    <3>2. Later(age, lag) \in 0..Old
      BY <1>1, LaterIs
    <3>3. req' # Request(2)
      BY <2>2, RequestIs
    <3>4. idle' = 0
      BY <2>2, <3>3 DEF FleetFailure
    <3>5. QED
      BY <2>2, <3>1, <3>2, <3>4
  <2>3. QED
    BY <2>1, <2>2
<1>3. Progress' = 0
  BY <1>2 DEF Progress
<1>4. online' => age' <= FreshFor
  <2>0. ASSUME online' = (age' < FreshFor), online'
        PROVE  age' <= FreshFor
    <3>1. age' < FreshFor
      BY <2>0
    <3>2. QED
      BY <1>1, <1>2, <3>1
  <2>1. ASSUME NEW a \in 0..Old, FleetAnswer(a)
        PROVE  online' => age' <= FreshFor
    BY <2>0, <2>1 DEF FleetAnswer
  <2>2. CASE FleetFailure /\ online' = (age' < FreshFor)
    BY <2>0, <2>2
  <2>3. CASE FleetFailure /\ online' = online /\ Kept /\ SamePeriod
    BY <2>3, CaughtUp DEF Kept, FleetFailure, Forget
  <2>4. CASE FleetFailure /\ req' = Nil
    <3>1. req' # Request(2)
      BY <2>4, RequestIs
    <3>2. QED
      BY <2>2, <2>3, <2>4, <3>1 DEF FleetFailure
  <2>5. QED
    BY <2>1, <2>4
<1>5. Later(age', lag') = age'
  BY <1>2, LaterByNone
<1>6. QED
  BY <1>1, <1>2, <1>3, <1>4, <1>5 DEF RecentUnlessDisturbed

\* Nothing happens to the data but that freshNow catches up, and the polling goes on.
LEMMA PollGoesOn ==
  ASSUME FreshTypes, RecentUnlessDisturbed, Progress' \in Nat, Progress' >= Progress, calm' = calm,
         lag' \in {0, lag}, Later(age', lag') = Later(age, lag), online' = online
  PROVE  RecentUnlessDisturbed'
<1>1. /\ Progress \in Nat /\ FreshFor \in Nat /\ Old \in Nat
      /\ calm \in Nat /\ age \in 0..Old /\ lag \in 0..Old
  BY ProgressIs, FreshBounds DEF FreshTypes
<1>2. Later(age, lag) \in Nat
  BY <1>1, LaterIs
<1>3. CASE calm < Progress
  BY <1>1, <1>3 DEF RecentUnlessDisturbed
<1>4. CASE lag <= Progress /\ (online => Later(age, lag) <= FreshFor + Progress)
  <2>1. lag' <= Progress'
    BY <1>1, <1>4
  <2>2. Later(age, lag) <= FreshFor + Progress => Later(age', lag') <= FreshFor + Progress'
    BY <1>1, <1>2
  <2>3. QED
    BY <1>4, <2>1, <2>2 DEF RecentUnlessDisturbed
<1>5. QED
  BY <1>3, <1>4 DEF RecentUnlessDisturbed

LEMMA FreshNextRecent ==
  FreshTypes /\ KeptAreRecent /\ RecentUnlessDisturbed /\ [FreshNext]_freshVars
    => RecentUnlessDisturbed'
<1>. SUFFICES ASSUME FreshTypes, KeptAreRecent, RecentUnlessDisturbed, [FreshNext]_freshVars
              PROVE  RecentUnlessDisturbed'
  OBVIOUS
<1>1. /\ Progress \in Nat /\ FreshFor \in Nat /\ Old \in Nat /\ Interval \in Nat /\ Deadline \in Nat
      /\ calm \in Nat /\ age \in 0..Old /\ lag \in 0..Old /\ idle \in 0..Interval
      /\ Interval > 0
  BY ProgressIs, FreshBounds DEF FreshTypes
<1>2. Later(age, lag) \in 0..Old /\ Later(Later(age, lag), 0) = Later(age, lag)
  BY <1>1, LaterIs, LaterByNone
<1>3. ASSUME NEW n \in 1..2
      PROVE  Request(n) # Nil /\ Request(n).try = n /\ Request(n).takes = 0
  BY <1>3, RequestIs
<1>4. CASE Clock
  BY <1>4, ClockAgesShown
<1>5. CASE Rerender
  <2>1. Progress' = Progress /\ UNCHANGED <<age, lag, calm>>
    BY <1>5 DEF Rerender, Progress
  <2>2. online' => age < FreshFor
    BY <1>5 DEF Rerender
  <2>3. lag <= Progress => (online' => Later(age, lag) <= FreshFor + Progress)
    BY <1>1, <2>2 DEF Later
  <2>4. QED
    BY <2>1, <2>3 DEF RecentUnlessDisturbed
<1>6. CASE PollFleet
  <2>1. req' = Request(1) /\ req = Nil
    BY <1>6 DEF PollFleet
  <2>2. Progress' = Interval + 0 /\ Progress = idle
    BY <1>3, <2>1 DEF Progress
  <2>3. QED
    BY <1>1, <1>6, <2>2, PollGoesOn DEF PollFleet
<1>7. CASE RestartPoll
  <2>1. Progress' = Interval + 0 /\ calm' = 0
    BY <1>3, <1>7 DEF Progress, RestartPoll
  <2>2. QED
    BY <1>1, <2>1 DEF RecentUnlessDisturbed
<1>8. CASE FleetFailure
  <2>1. lag' = 0 /\ Later(age', lag') = Later(age, lag) /\ calm' = calm
    BY <1>2, <1>8 DEF FleetFailure, Forget
  <2>2. CASE req' = Nil
    BY <1>8, <2>2, PollEnds
  <2>3. CASE req.try = 1 /\ req' = Request(2) /\ online' = online
    <3>1. req # Nil /\ req.takes \in 0..Deadline
      BY <1>8 DEF FleetFailure, Sent, FreshTypes, FleetReads
    <3>2. Progress' = Interval + Deadline + 0 /\ Progress = Interval + req.takes
      BY <1>3, <2>3, <3>1 DEF Progress
    <3>3. QED
      BY <1>1, <2>1, <2>3, <3>1, <3>2, PollGoesOn
  <2>4. QED
    BY <1>8, <2>2, <2>3 DEF FleetFailure
<1>9. CASE OtherAnswer \/ OtherFailure
  <2>1. /\ lag' = 0 /\ Later(age', lag') = Later(age, lag)
        /\ calm' = calm /\ online' = online /\ req' = req /\ idle' = idle
    BY <1>2, <1>9 DEF OtherAnswer, OtherFailure, Forget
  <2>2. Progress' = Progress
    BY <2>1 DEF Progress
  <2>3. QED
    BY <1>1, <2>1, <2>2, PollGoesOn
<1>10. CASE Hide
  <2>1. /\ Progress' = Progress /\ calm' = 0 /\ UNCHANGED <<age, lag, online>>
    BY <1>10 DEF Hide, Progress
  <2>2. calm < Progress => calm' < Progress'
    BY <1>1, <2>1
  <2>3. QED
    BY <2>1, <2>2 DEF RecentUnlessDisturbed
<1>11. CASE Show
  <2>1. UNCHANGED <<idle, age, lag, online, calm>>
    BY <1>11 DEF Show
  <2>2. Progress' = Progress
    <3>1. CASE req = Nil
      BY <1>11, <2>1, <3>1 DEF Show, Progress
    <3>2. CASE req # Nil
      <4>1. req \in FleetReads /\ req' = [req EXCEPT !.sent = TRUE]
        BY <1>11, <3>2 DEF Show, FreshTypes
      <4>2. req' \in FleetReads /\ req'.takes = req.takes /\ req'.try = req.try
        BY <4>1 DEF FleetReads
      <4>3. req' # Nil
        BY <4>2, FreshBounds
      <4>4. QED
        BY <2>1, <3>2, <4>2, <4>3 DEF Progress
    <3>3. QED
      BY <3>1, <3>2
  <2>3. QED
    BY <2>1, <2>2 DEF RecentUnlessDisturbed
<1>12. ASSUME NEW a \in 0..Old, FleetAnswer(a)
       PROVE  RecentUnlessDisturbed'
  BY <1>12, PollEnds
<1>13. CASE UNCHANGED freshVars
  BY <1>13 DEF freshVars, RecentUnlessDisturbed, Progress
<1>14. QED
  BY <1>4, <1>5, <1>6, <1>7, <1>8, <1>9, <1>10, <1>11, <1>12, <1>13 DEF FreshNext

LEMMA FreshKeepsTypes == FreshSpec => []FreshTypes
BY FreshInitTypes, FreshNextTypes, PTL DEF FreshSpec

\* Type correctness of the fleet list's freshness.
THEOREM FreshTypesHold == FreshSpec => []FreshTypeOK
BY FreshKeepsTypes, FreshTypesAre, PTL

\* Undisturbed, nothing is shown as online that was not observed within the Limit.
THEOREM ShownOnlineStaysRecent == FreshSpec => []ShownOnlineIsRecent
<1>1. FreshInit => KeptAreRecent /\ RecentUnlessDisturbed
  BY FreshBounds DEF FreshInit, KeptAreRecent, RecentUnlessDisturbed, Progress
<1>2. FreshTypes /\ RecentUnlessDisturbed => ShownOnlineIsRecent
  <2>. SUFFICES ASSUME FreshTypes, RecentUnlessDisturbed, online, calm = Settling
                PROVE  Later(age, lag) <= Limit
    BY DEF ShownOnlineIsRecent
  <2>1. Progress \in Nat /\ Progress <= Interval + 2 * Deadline
    BY ProgressIs
  <2>2. /\ Interval \in Nat /\ Deadline \in Nat /\ FreshFor \in Nat /\ Settling \in Nat /\ Limit \in Nat
        /\ age \in 0..Old /\ lag \in 0..Old /\ Old \in Nat
    BY FreshBounds DEF FreshTypes
  <2>3. Settling >= Interval + 2 * Deadline /\ Limit >= FreshFor + Interval + 2 * Deadline
    BY LimitAssumption
  <2>4. ~(calm < Progress)
    BY <2>1, <2>2, <2>3
  <2>5. Later(age, lag) <= FreshFor + Progress
    BY <2>4 DEF RecentUnlessDisturbed
  <2>6. Later(age, lag) \in Nat
    BY <2>2, LaterIs
  <2>7. QED
    BY <2>1, <2>2, <2>3, <2>5, <2>6
<1>3. QED
  BY <1>1, <1>2, FreshKeepsTypes, FreshNextKeeps, FreshNextRecent, PTL DEF FreshSpec

(***************************************************************************)
(* The console.                                                            *)
(***************************************************************************)

LEMMA ConsoleIsSheets == ConsoleSpec => SheetsSpec
<1>1. ConsoleInit => SheetsInit
  BY DEF ConsoleInit
<1>2. [ConsoleNext]_consoleVars => [SheetsNext]_sheetVars
  BY DEF ConsoleNext, consoleVars
<1>3. QED
  BY <1>1, <1>2, PTL DEF ConsoleSpec, SheetsSpec

LEMMA ConsoleIsEditor == ConsoleSpec => EditorSpec
<1>1. ConsoleInit => EditorInit
  BY DEF ConsoleInit
<1>2. [ConsoleNext]_consoleVars => [EditorNext]_editorVars
  BY DEF ConsoleNext, consoleVars
<1>3. QED
  BY <1>1, <1>2, PTL DEF ConsoleSpec, EditorSpec

LEMMA ConsoleIsTemplates == ConsoleSpec => TemplatesSpec
<1>1. ConsoleInit => TemplatesInit
  BY DEF ConsoleInit
<1>2. [ConsoleNext]_consoleVars => [TemplatesNext]_templateVars
  BY DEF ConsoleNext, consoleVars
<1>3. QED
  BY <1>1, <1>2, PTL DEF ConsoleSpec, TemplatesSpec

LEMMA ConsoleIsTab == ConsoleSpec => TabSpec
<1>1. ConsoleInit => TabInit
  BY DEF ConsoleInit
<1>2. [ConsoleNext]_consoleVars => [TabNext]_tabVars
  BY DEF ConsoleNext, consoleVars
<1>3. QED
  BY <1>1, <1>2, PTL DEF ConsoleSpec, TabSpec

LEMMA ConsoleIsTerminals == ConsoleSpec => TerminalsSpec
<1>1. ConsoleInit => TerminalsInit
  BY DEF ConsoleInit
<1>2. [ConsoleNext]_consoleVars => [TerminalsNext]_terminalVars
  BY DEF ConsoleNext, consoleVars
<1>3. QED
  BY <1>1, <1>2, PTL DEF ConsoleSpec, TerminalsSpec

LEMMA ConsoleIsRecords == ConsoleSpec => RecordsSpec
<1>1. ConsoleInit => RecordsInit
  BY DEF ConsoleInit
<1>2. [ConsoleNext]_consoleVars => [RecordsNext]_recordVars
  BY DEF ConsoleNext, consoleVars
<1>3. QED
  BY <1>1, <1>2, PTL DEF ConsoleSpec, RecordsSpec

LEMMA ConsoleIsFleetList == ConsoleSpec => FleetListSpec
<1>1. ConsoleInit => FleetListInit
  BY DEF ConsoleInit
<1>2. [ConsoleNext]_consoleVars => [FleetListNext]_listVars
  BY DEF ConsoleNext, consoleVars
<1>3. QED
  BY <1>1, <1>2, PTL DEF ConsoleSpec, FleetListSpec

LEMMA ConsoleIsAlerts == ConsoleSpec => AlertsSpec
<1>1. ConsoleInit => AlertsInit
  BY DEF ConsoleInit
<1>2. [ConsoleNext]_consoleVars => [AlertsNext]_alertVars
  BY DEF ConsoleNext, consoleVars
<1>3. QED
  BY <1>1, <1>2, PTL DEF ConsoleSpec, AlertsSpec

LEMMA ConsoleIsSubmissions == ConsoleSpec => SubmitSpec
<1>1. ConsoleInit => SubmitInit
  BY DEF ConsoleInit
<1>2. [ConsoleNext]_consoleVars => [SubmitNext]_submitVars
  BY DEF ConsoleNext, consoleVars
<1>3. QED
  BY <1>1, <1>2, PTL DEF ConsoleSpec, SubmitSpec

LEMMA ConsoleIsBatch == ConsoleSpec => BatchSpec
<1>1. ConsoleInit => BatchInit
  BY DEF ConsoleInit
<1>2. [ConsoleNext]_consoleVars => [BatchNext]_batchVars
  BY DEF ConsoleNext, consoleVars
<1>3. QED
  BY <1>1, <1>2, PTL DEF ConsoleSpec, BatchSpec

LEMMA ConsoleIsFreshness == ConsoleSpec => FreshSpec
<1>1. ConsoleInit => FreshInit
  BY DEF ConsoleInit
<1>2. [ConsoleNext]_consoleVars => [FreshNext]_freshVars
  BY DEF ConsoleNext, consoleVars
<1>3. QED
  BY <1>1, <1>2, PTL DEF ConsoleSpec, FreshSpec

LEMMA ConsoleIsComposer == ConsoleSpec => ComposerSpec
<1>1. ConsoleInit => ComposerInit
  BY DEF ConsoleInit
<1>2. [ConsoleNext]_consoleVars => [ComposerNext]_composerVars
  BY DEF ConsoleNext, consoleVars
<1>3. QED
  BY <1>1, <1>2, PTL DEF ConsoleSpec, ComposerSpec

\* What the run Console checks of these components on small instances, for all of them.
THEOREM ConsoleIsSafe ==
  ConsoleSpec =>
    /\ [](NoLostEdit /\ VersionNamesContent /\ UntouchedAsCopied)
    /\ [](HostKeyIsTrusted /\ SecretIsOfThisDialog /\ RowsTellTruth /\ ShownOnlineIsRecent)
    /\ [](NameTellsFields /\ NoAlertPassedOver /\ OneJobPerDecision /\ ReportedAsSubmitted)
    /\ [](WalletMatchesCoin /\ MinerMatchesChoice /\ InstancesDiffer)
    /\ SaveReachesUsers /\ CurrentCopyKeepsRest /\ NoTemplateLost
    /\ InputReachesTicked /\ TicksChangeInSight /\ LateIsNotOffline
BY ConsoleIsSheets, EditsAreNotLost, VersionsAreContents, SavesReachUsers, ConsoleIsRecords,
   UntouchedFieldsAreCopied, CurrentCopiesKeepTheRest, ConsoleIsEditor, StoredKeyIsTrusted, SecretsStayInTheirDialog,
   ConsoleIsTab, NamesTellFields, ConsoleIsTemplates, SavesReplaceWhatTheyKnow,
   ConsoleIsTerminals, TypingReachesTicked, ConsoleIsFleetList, TicksStayInSight,
   ConsoleIsAlerts, AlertsAreNotPassedOver, ConsoleIsSubmissions, DecisionsAreJobsOnce,
   ReportsAreJobs, ConsoleIsFreshness, LateStaysOnline, ShownOnlineStaysRecent,
   ConsoleIsBatch, RowsStayTrue,
   ConsoleIsComposer, WalletsMatchCoins, MinersMatchChoices, InstancesStayDifferent, PTL

\* The component that is followed stays the same.
Followed == visited \in Components

LEMMA ComponentFollowed == ConsoleSpec => []Followed
<1>1. ConsoleInit => Followed
  BY DEF ConsoleInit, Followed
<1>2. Followed /\ [ConsoleNext]_consoleVars => Followed'
  BY DEF Followed, ConsoleNext, consoleVars
<1>3. QED
  BY <1>1, <1>2, PTL DEF ConsoleSpec

\* Types, of all components at once: every counter stays in its bound, and no component refers to
\* a row, a job, an alert or a page that is not there.
THEOREM ConsoleTypes == ConsoleSpec => []ConsoleTypeOK
<1>1. TabIInv => TabTypeOK
  BY DEF TabIInv
<1>2. /\ Followed /\ SheetsTypeOK /\ ComposerTypeOK /\ RecordsTypeOK /\ EditorTypeOK
      /\ BatchTypeOK /\ FreshTypeOK /\ SubmitTypeOK /\ TemplatesTypeOK /\ TabTypeOK
      /\ TerminalsTypeOK /\ FleetListTypeOK /\ AlertsTypeOK
      => ConsoleTypeOK
  BY DEF Followed, Components, ConsoleTypeOK
<1>3. QED
  BY <1>1, <1>2, ComponentFollowed, ConsoleIsSheets, SheetsTypes, ConsoleIsComposer,
     ComposerTypesHold, ConsoleIsRecords, RecordsTypes, ConsoleIsEditor, EditorTypes,
     ConsoleIsBatch, BatchTypes, ConsoleIsFreshness, FreshTypesHold, ConsoleIsSubmissions,
     SubmitTypesHold, ConsoleIsTemplates, TemplatesTypes, ConsoleIsTab, TabKeepsIInv,
     ConsoleIsTerminals, TerminalTypes, ConsoleIsFleetList, FleetListTypes, ConsoleIsAlerts,
     AlertsTypes, PTL
=============================================================================
