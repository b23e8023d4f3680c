----------------------------- MODULE Terminals ------------------------------
(***************************************************************************)
(* The page of several terminals.  Each pane has a WebSocket of its own,   *)
(* which may be replaced while it is still connecting, or after it broke;  *)
(* the browser tells of a closed socket some time later.  An open pane     *)
(* registers a sender.  What is typed in a ticked pane is, when the        *)
(* synchronised input is on, sent to the other ticked panes too.           *)
(***************************************************************************)
EXTENDS ConsoleObjects, Naturals

CONSTANT MaxSockets   \* bound: sockets opened

ASSUME TerminalsAssumption ==
  /\ MaxSockets \in Nat
  /\ Nil \notin Nat
  /\ Nil \notin [socket : Nat, state : {"connecting", "open", "broken", "closed"}]

VARIABLES
  panes,    \* the pane of a machine: its socket and the state of that
  senders,  \* the socket a machine's registered sender sends to
  closing,  \* replaced sockets, whose close is not told yet
  sockets,  \* sockets opened so far
  sync,     \* the synchronised input is on
  ticked,   \* the panes that take part in it
  heard     \* history: the machines that got what was typed last

terminalVars == <<panes, senders, closing, sockets, sync, ticked, heard>>

TerminalsInit ==
  /\ panes = [m \in Rigs |-> Nil] /\ senders = [m \in Rigs |-> Nil]
  /\ closing = {} /\ sockets = 0
  /\ sync = FALSE /\ ticked = {} /\ heard = {}

Connected(m) == panes[m] # Nil /\ panes[m].state # "closed"

\* A new socket for the pane.
Connect(m) ==
  /\ sockets < MaxSockets
  /\ sockets' = sockets + 1
  /\ panes' = [panes EXCEPT ![m] = [socket |-> sockets', state |-> "connecting"]]

\* The pane's effect is cleaned up: no sender, and no handlers on the socket being closed.
Cleanup(m) ==
  /\ senders' = [senders EXCEPT ![m] = Nil]
  /\ closing' = closing \cup
       (IF Connected(m) THEN {[machine |-> m, socket |-> panes[m].socket]} ELSE {})

\* A machine is selected; synchronised input is switched off.
AddPane(m) ==
  /\ panes[m] = Nil
  /\ Connect(m)
  /\ sync' = FALSE
  /\ UNCHANGED <<senders, closing, ticked, heard>>

RemovePane(m) ==
  /\ panes[m] # Nil
  /\ Cleanup(m)
  /\ panes' = [panes EXCEPT ![m] = Nil]
  /\ ticked' = ticked \ {m} /\ sync' = FALSE
  /\ UNCHANGED <<sockets, heard>>

\* Not while the pane shows a connection.
Reconnect(m) ==
  /\ panes[m] # Nil /\ panes[m].state \in {"connecting", "closed"}
  /\ Cleanup(m) /\ Connect(m)
  /\ UNCHANGED <<sync, ticked, heard>>

PaneBecomes(m, state) == panes' = [panes EXCEPT ![m].state = state]

PaneOpened(m) ==
  /\ panes[m] # Nil /\ panes[m].state = "connecting"
  /\ PaneBecomes(m, "open")
  /\ senders' = [senders EXCEPT ![m] = panes[m].socket]
  /\ UNCHANGED <<closing, sockets, sync, ticked, heard>>

\* The connection is gone, and the page not told yet.
PaneBroken(m) ==
  /\ panes[m] # Nil /\ panes[m].state = "open"
  /\ PaneBecomes(m, "broken")
  /\ UNCHANGED <<senders, closing, sockets, sync, ticked, heard>>

PaneClosed(m) ==
  /\ panes[m] # Nil /\ panes[m].state \in {"connecting", "broken"}
  /\ PaneBecomes(m, "closed")
  /\ senders' = [senders EXCEPT ![m] = Nil]
  /\ UNCHANGED <<closing, sockets, sync, ticked, heard>>

\* Faulty: the handler of the replaced socket still works.
OldClosedHandled(c) ==
  /\ senders' = [senders EXCEPT ![c.machine] = Nil]
  /\ closing' = closing \ {c}
  /\ UNCHANGED <<panes, sockets, sync, ticked, heard>>

\* A replaced socket is closed: nobody listens.
OldClosed(c) ==
  /\ closing' = closing \ {c}
  /\ UNCHANGED <<panes, senders, sockets, sync, ticked, heard>>

ToggleSync ==
  /\ sync' = ~sync
  /\ UNCHANGED <<panes, senders, closing, sockets, ticked, heard>>

TickPane(m) ==
  /\ panes[m] # Nil /\ sync
  /\ ticked' = IF m \in ticked THEN ticked \ {m} ELSE ticked \cup {m}
  /\ UNCHANGED <<panes, senders, closing, sockets, sync, heard>>

\* A sender sends if its socket is open.
Sends(m) ==
  /\ senders[m] # Nil
  /\ panes[m] # Nil /\ panes[m].socket = senders[m] /\ panes[m].state = "open"

TypeInput(m) ==
  /\ panes[m] # Nil /\ panes[m].state = "open"
  /\ heard' = {m} \cup (IF sync /\ m \in ticked THEN {t \in ticked : Sends(t)} ELSE {})
  /\ UNCHANGED <<panes, senders, closing, sockets, sync, ticked>>

TerminalsNext ==
  \/ ToggleSync
  \/ \E m \in Rigs : AddPane(m) \/ RemovePane(m) \/ Reconnect(m) \/ PaneOpened(m) \/ PaneBroken(m)
                       \/ PaneClosed(m) \/ TickPane(m) \/ TypeInput(m)
  \/ \E c \in closing : OldClosed(c)

TerminalsSpec == TerminalsInit /\ [][TerminalsNext]_terminalVars

(***************************************************************************)
(* Properties.                                                             *)
(***************************************************************************)

\* Types; only panes are ticked.
TerminalsTypeOK ==
  /\ \A m \in Rigs : panes[m] # Nil =>
       /\ panes[m].socket \in 1..sockets
       /\ panes[m].state \in {"connecting", "open", "broken", "closed"}
  /\ senders \in [Rigs -> (1..MaxSockets) \cup {Nil}]
  /\ closing \subseteq [machine : Rigs, socket : 1..MaxSockets]
  /\ sockets \in 0..MaxSockets /\ sync \in BOOLEAN /\ heard \subseteq Rigs
  /\ ticked \subseteq {m \in Rigs : panes[m] # Nil}

\* Synchronised input reaches every ticked terminal that is connected, and only those,
\* however often it was reconnected and however late its old sockets are told closed.
InputReachesTicked ==
  [][\A m \in Rigs : TypeInput(m) =>
       heard' = {m} \cup
         {t \in ticked : sync /\ m \in ticked /\ panes[t].state = "open"}]_terminalVars
=============================================================================
