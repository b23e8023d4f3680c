------------------------------- MODULE Alerts -------------------------------
(***************************************************************************)
(* The pop-ups of offline and recovery alerts.  The controller numbers the *)
(* alerts; every tab of the console polls for those after the last one it  *)
(* has seen, which it takes from the browser's storage when it is opened   *)
(* and writes there, as the other tabs do.                                 *)
(***************************************************************************)
EXTENDS ConsoleObjects, Naturals, FiniteSetsExt

CONSTANTS
  MaxPopups,  \* alerts that pop up at once: 5
  MaxPage,    \* alerts in an answer: 100
  MaxAlerts   \* bound: alerts raised

ASSUME AlertsAssumption == {MaxPopups, MaxPage, MaxAlerts} \subseteq Nat \ {0} /\ Nil \notin Nat

VARIABLES
  raised,   \* the alerts the controller has: 1..raised
  popups,   \* the farm's setting: alerts pop up
  note,     \* the browser's note of the last alert it has seen
  watchers, \* each tab's watcher: what it has seen, its copy of the setting, the answer under way
  since,    \* history: the newest alert when a tab began without a note
  dealt     \* history: the alerts that popped up, were counted, or found pop-ups switched off

alertVars == <<raised, popups, note, watchers, since, dealt>>

AlertsInit ==
  /\ raised = 0 /\ popups \in BOOLEAN /\ note = 0
  /\ watchers = [t \in Tabs |-> Nil]
  /\ since = 0 /\ dealt = {}

Raise ==
  /\ raised < MaxAlerts /\ raised' = raised + 1
  /\ UNCHANGED <<popups, note, watchers, since, dealt>>

\* A note of no alert at all counts as none; until the settings are known, alerts pop up.
OpenWatcher(t) ==
  /\ watchers[t] = Nil
  /\ watchers' = [watchers EXCEPT ![t] =
       [seen |-> IF note > 0 THEN note ELSE Nil, popup |-> TRUE, items |-> Nil]]
  /\ UNCHANGED <<raised, popups, note, since, dealt>>

\* Reloaded, left, or the session is over: its queries are gone, too.
CloseWatcher(t) ==
  /\ watchers[t] # Nil
  /\ watchers' = [watchers EXCEPT ![t] = Nil]
  /\ UNCHANGED <<raised, popups, note, since, dealt>>

\* The farm's settings are saved on the page of any operator.
SwitchPopups ==
  /\ popups' = ~popups
  /\ UNCHANGED <<raised, note, watchers, since, dealt>>

LoadSettings(t) ==
  /\ watchers[t] # Nil
  /\ watchers' = [watchers EXCEPT ![t].popup = popups]
  /\ UNCHANGED <<raised, popups, note, since, dealt>>

\* Faulty: the newest alerts, whether or not a last one is named.
NewestPage(seen) ==
  IF seen = Nil THEN {a \in 1..raised : a = raised}
                ELSE {a \in 1..raised : a > seen /\ a + MaxPage > raised}

\* The answer: the newest alert, or the oldest of those after the last one seen.
Page(seen) ==
  IF seen = Nil THEN {a \in 1..raised : a = raised}
                ELSE {a \in 1..raised : a > seen /\ a <= seen + MaxPage}

PollAlerts(t) ==
  /\ watchers[t] # Nil /\ watchers[t].items = Nil
  /\ watchers' = [watchers EXCEPT ![t].items = Page(watchers[t].seen)]
  /\ UNCHANGED <<raised, popups, note, since, dealt>>

\* The answer is lost, or shows nothing.
PollLost(t) ==
  /\ watchers[t] # Nil /\ watchers[t].items # Nil
  /\ watchers' = [watchers EXCEPT ![t].items = Nil]
  /\ UNCHANGED <<raised, popups, note, since, dealt>>

\* Remembered by the tab and, for all tabs, by the browser.
Remember(t, last) ==
  /\ watchers' = [watchers EXCEPT ![t].seen = last, ![t].items = Nil]
  /\ note' = last

\* The first answer to a tab without a note tells it where to begin.
FirstAnswer(t) ==
  /\ watchers[t] # Nil /\ watchers[t].items # Nil /\ watchers[t].seen = Nil
  /\ LET newest == Max(watchers[t].items \cup {0}) IN
       /\ Remember(t, newest)
       /\ since' = Max({since, newest})
  /\ UNCHANGED <<raised, popups, dealt>>

\* The newest alerts pop up, the others are counted in one more pop-up.
Shown(fresh) == {a \in fresh : Cardinality({b \in fresh : b > a}) < MaxPopups}
Counted(fresh) == IF Cardinality(fresh) > MaxPopups THEN fresh \ Shown(fresh) ELSE {}

ShowAlerts(t) ==
  /\ watchers[t] # Nil /\ watchers[t].items \notin {Nil, {}} /\ watchers[t].seen # Nil
  /\ LET fresh == {a \in watchers[t].items : a > watchers[t].seen} IN
       /\ Remember(t, Max(fresh))
       /\ dealt' = dealt \cup
            (IF watchers[t].popup THEN Shown(fresh) \cup Counted(fresh) ELSE fresh)
  /\ UNCHANGED <<raised, popups, since>>

AlertsNext ==
  \/ Raise \/ SwitchPopups
  \/ \E t \in Tabs :
       \/ OpenWatcher(t) \/ CloseWatcher(t) \/ LoadSettings(t)
       \/ PollAlerts(t) \/ PollLost(t) \/ FirstAnswer(t) \/ ShowAlerts(t)

AlertsSpec == AlertsInit /\ [][AlertsNext]_alertVars

(***************************************************************************)
(* Properties.                                                             *)
(***************************************************************************)
\* Types.
AlertsTypeOK ==
  /\ raised \in 0..MaxAlerts /\ popups \in BOOLEAN /\ note \in 0..raised
  /\ watchers \in [Tabs -> {Nil} \cup [seen : {Nil} \cup 0..raised, popup : BOOLEAN,
                                       items : {Nil} \cup SUBSET (1..raised)]]
  /\ since \in 0..raised /\ dealt \subseteq 1..raised

\* An alert that was raised after the browser began to watch is not passed over: what a tab, or
\* the note the tabs share, counts as seen has popped up, was counted, or came when a tab knew
\* that pop-ups are off, however many alerts come between polls, whichever tab writes the note
\* last, and whenever tabs are closed and opened.
NoAlertPassedOver ==
  \A a \in 1..raised :
    /\ since < a
    /\ \/ a <= note
       \/ \E t \in Tabs : watchers[t] # Nil /\ watchers[t].seen # Nil /\ a <= watchers[t].seen
    => a \in dealt
=============================================================================
