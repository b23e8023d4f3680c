-------------------------- MODULE TerminalsProofs ---------------------------
(***************************************************************************)
(* Proofs about Terminals, for all sets of machines and any number of      *)
(* sockets: a pane that is connected has its sender, so the synchronised   *)
(* input reaches the ticked panes.                                         *)
(***************************************************************************)
EXTENDS Terminals, TLAPS

States == {"connecting", "open", "broken", "closed"}
Panes == [socket : 1..MaxSockets, state : States]

\* What the machine's pane and its sender agree on: there is a sender while the pane takes
\* itself for connected, and it sends to the socket the pane has now, not to an earlier one.
SenderIsCurrent(m) ==
  senders[m] = IF panes[m] # Nil /\ panes[m].state \in {"open", "broken"} THEN panes[m].socket
               ELSE Nil

TerminalsIInv ==
  /\ TerminalsTypeOK
  /\ panes \in [Rigs -> Panes \cup {Nil}]
  /\ \A m \in Rigs : SenderIsCurrent(m)

LEMMA PanesAreThere == Nil \notin Panes
<1>1. Panes \subseteq [socket : Nat, state : States]
  BY TerminalsAssumption DEF Panes
<1>2. QED
  BY <1>1, TerminalsAssumption DEF States

LEMMA TerminalsInitIInv == TerminalsInit => TerminalsIInv
<1> SUFFICES ASSUME TerminalsInit PROVE TerminalsIInv
  OBVIOUS
<1>1. sockets \in 0..MaxSockets
  BY TerminalsAssumption DEF TerminalsInit
<1>2. QED
  BY <1>1 DEF TerminalsInit, TerminalsIInv, TerminalsTypeOK, SenderIsCurrent

\* A step that changes the pane of m, its sender and perhaps the replaced sockets.
LEMMA PaneStep ==
  ASSUME TerminalsIInv, NEW m \in Rigs, NEW p \in Panes \cup {Nil}, NEW s,
         panes' = [panes EXCEPT ![m] = p],
         senders' = [senders EXCEPT ![m] = s],
         s = IF p # Nil /\ p.state \in {"open", "broken"} THEN p.socket ELSE Nil,
         sockets' \in 0..MaxSockets, sockets <= sockets',
         p # Nil => p.socket \in 1..sockets',
         closing' \subseteq [machine : Rigs, socket : 1..MaxSockets],
         sync' \in BOOLEAN, heard' \subseteq Rigs,
         ticked' \subseteq ticked, p = Nil => m \notin ticked'
  PROVE  TerminalsIInv'
<1> USE DEF TerminalsIInv
<1>1. panes' \in [Rigs -> Panes \cup {Nil}]
  OBVIOUS
<1>2. /\ s \in (1..MaxSockets) \cup {Nil}
      /\ senders' \in [Rigs -> (1..MaxSockets) \cup {Nil}]
  BY DEF TerminalsTypeOK, Panes
<1>3. ASSUME NEW n \in Rigs
      PROVE  SenderIsCurrent(n)' /\ (panes'[n] # Nil => panes'[n].socket \in 1..sockets'
                                                        /\ panes'[n].state \in States)
  <2>1. CASE n = m
    BY <1>1, <1>2, <2>1 DEF TerminalsTypeOK, SenderIsCurrent, Panes
  <2>2. CASE n # m
    <3>1. panes'[n] = panes[n] /\ senders'[n] = senders[n]
      BY <2>2 DEF TerminalsTypeOK
    <3>2. panes[n] # Nil => panes[n].socket \in 1..sockets'
      BY TerminalsAssumption DEF TerminalsTypeOK
    <3>3. QED
      BY <3>1, <3>2 DEF TerminalsTypeOK, SenderIsCurrent, States
  <2>3. QED
    BY <2>1, <2>2
<1>4. ticked' \subseteq {n \in Rigs : panes'[n] # Nil}
  BY DEF TerminalsTypeOK
<1>5. TerminalsTypeOK'
  BY <1>2, <1>3, <1>4 DEF TerminalsTypeOK, States
<1>6. QED
  BY <1>1, <1>3, <1>5

LEMMA ClosingStep ==
  ASSUME TerminalsIInv, NEW m \in Rigs, Cleanup(m)
  PROVE  closing' \subseteq [machine : Rigs, socket : 1..MaxSockets]
<1>1. Connected(m) => panes[m].socket \in 1..MaxSockets
  BY DEF TerminalsIInv, Connected, Panes
<1>2. QED
  BY <1>1 DEF TerminalsIInv, TerminalsTypeOK, Cleanup

\* A new socket is connecting, and has no sender.
LEMMA ConnectStep ==
  ASSUME TerminalsIInv, NEW m \in Rigs, Connect(m),
         senders' = [senders EXCEPT ![m] = Nil],
         closing' \subseteq [machine : Rigs, socket : 1..MaxSockets],
         sync' \in BOOLEAN, UNCHANGED <<heard, ticked>>
  PROVE  TerminalsIInv'
<1> DEFINE p == [socket |-> sockets + 1, state |-> "connecting"]
<1>1. /\ sockets' = sockets + 1 /\ sockets' \in 0..MaxSockets
      /\ sockets <= sockets' /\ sockets + 1 \in 1..MaxSockets
  BY TerminalsAssumption DEF TerminalsIInv, TerminalsTypeOK, Connect
<1>2. /\ panes' = [panes EXCEPT ![m] = p]
      /\ p \in Panes /\ p # Nil /\ p.state = "connecting" /\ p.socket \in 1..sockets'
  BY <1>1, PanesAreThere DEF Connect, Panes, States
<1>3. ticked' \subseteq ticked /\ heard' \subseteq Rigs
  BY DEF TerminalsIInv, TerminalsTypeOK
<1> HIDE DEF p
<1>4. QED
  BY <1>1, <1>2, <1>3, PaneStep

LEMMA AddPaneStep == ASSUME TerminalsIInv, NEW m \in Rigs, AddPane(m) PROVE TerminalsIInv'
<1>1. senders' = [senders EXCEPT ![m] = Nil]
  BY DEF AddPane, TerminalsIInv, TerminalsTypeOK, SenderIsCurrent
<1>2. QED
  BY <1>1, ConnectStep DEF AddPane, TerminalsIInv, TerminalsTypeOK

LEMMA ReconnectStep == ASSUME TerminalsIInv, NEW m \in Rigs, Reconnect(m) PROVE TerminalsIInv'
<1>1. /\ Connect(m) /\ senders' = [senders EXCEPT ![m] = Nil]
      /\ UNCHANGED <<sync, heard, ticked>> /\ sync \in BOOLEAN
  BY DEF Reconnect, Cleanup, TerminalsIInv, TerminalsTypeOK
<1>2. closing' \subseteq [machine : Rigs, socket : 1..MaxSockets]
  BY ClosingStep DEF Reconnect
<1>3. QED
  BY <1>1, <1>2, ConnectStep

LEMMA RemovePaneStep == ASSUME TerminalsIInv, NEW m \in Rigs, RemovePane(m) PROVE TerminalsIInv'
<1>1. /\ panes' = [panes EXCEPT ![m] = Nil] /\ senders' = [senders EXCEPT ![m] = Nil]
      /\ ticked' = ticked \ {m} /\ sync' = FALSE /\ UNCHANGED <<sockets, heard>>
  BY DEF RemovePane, Cleanup
<1>2. closing' \subseteq [machine : Rigs, socket : 1..MaxSockets]
  BY ClosingStep DEF RemovePane
<1>3. /\ sockets' \in 0..MaxSockets /\ sockets <= sockets'
      /\ heard' \subseteq Rigs /\ ticked' \subseteq ticked
  BY <1>1, TerminalsAssumption DEF TerminalsIInv, TerminalsTypeOK
<1>4. sync' \in BOOLEAN
  BY <1>1
<1>5. QED
  BY <1>1, <1>2, <1>3, <1>4, PaneStep

\* The socket of the pane gets into another state, and the sender with it.
LEMMA StateStep ==
  ASSUME TerminalsIInv, NEW m \in Rigs, panes[m] # Nil, NEW st \in States,
         PaneBecomes(m, st),
         senders' = [senders EXCEPT ![m] =
           IF st \in {"open", "broken"} THEN panes[m].socket ELSE Nil],
         UNCHANGED <<closing, sockets, sync, ticked, heard>>
  PROVE  TerminalsIInv'
<1> DEFINE p == [panes[m] EXCEPT !.state = st]
<1>1. /\ panes' = [panes EXCEPT ![m] = p]
      /\ p \in Panes /\ p.state = st /\ p.socket = panes[m].socket
  BY DEF TerminalsIInv, PaneBecomes, Panes
<1>2. p # Nil /\ p.socket \in 1..sockets'
  BY <1>1, PanesAreThere DEF TerminalsIInv, TerminalsTypeOK
<1>3. /\ sockets' \in 0..MaxSockets /\ sockets <= sockets'
      /\ closing' \subseteq [machine : Rigs, socket : 1..MaxSockets]
      /\ heard' \subseteq Rigs /\ ticked' \subseteq ticked
  BY TerminalsAssumption DEF TerminalsIInv, TerminalsTypeOK
<1>4. sync' \in BOOLEAN
  BY DEF TerminalsIInv, TerminalsTypeOK
<1> HIDE DEF p
<1>5. QED
  BY <1>1, <1>2, <1>3, <1>4, PaneStep

LEMMA PaneOpenedStep == ASSUME TerminalsIInv, NEW m \in Rigs, PaneOpened(m) PROVE TerminalsIInv'
BY StateStep DEF PaneOpened, States

LEMMA PaneClosedStep == ASSUME TerminalsIInv, NEW m \in Rigs, PaneClosed(m) PROVE TerminalsIInv'
BY StateStep DEF PaneClosed, States

LEMMA PaneBrokenStep == ASSUME TerminalsIInv, NEW m \in Rigs, PaneBroken(m) PROVE TerminalsIInv'
<1>1. senders[m] = panes[m].socket
  BY DEF TerminalsIInv, SenderIsCurrent, PaneBroken
<1>2. senders' = [senders EXCEPT ![m] = panes[m].socket]
  BY <1>1 DEF TerminalsIInv, TerminalsTypeOK, PaneBroken
<1>3. QED
  BY <1>2, StateStep DEF PaneBroken, States

\* The steps that leave panes and senders alone.
LEMMA OtherTerminalSteps ==
  ASSUME TerminalsIInv,
         \/ \E c \in closing : OldClosed(c)
         \/ ToggleSync
         \/ \E m \in Rigs : TickPane(m) \/ TypeInput(m)
         \/ UNCHANGED terminalVars
  PROVE  TerminalsIInv'
<1> USE DEF TerminalsIInv, TerminalsTypeOK, SenderIsCurrent
<1>1. CASE \E c \in closing : OldClosed(c)
  BY <1>1 DEF OldClosed
<1>2. CASE ToggleSync
  BY <1>2 DEF ToggleSync
<1>3. CASE \E m \in Rigs : TickPane(m)
  BY <1>3 DEF TickPane
<1>4. CASE \E m \in Rigs : TypeInput(m)
  <2>1. heard' \subseteq Rigs
    BY <1>4 DEF TypeInput
  <2>2. QED
    BY <1>4, <2>1 DEF TypeInput
<1>5. CASE UNCHANGED terminalVars
  BY <1>5 DEF terminalVars
<1>6. QED
  BY <1>1, <1>2, <1>3, <1>4, <1>5

LEMMA TerminalsNextIInv == TerminalsIInv /\ [TerminalsNext]_terminalVars => TerminalsIInv'
BY AddPaneStep, RemovePaneStep, ReconnectStep, PaneOpenedStep, PaneBrokenStep, PaneClosedStep,
   OtherTerminalSteps
DEF TerminalsNext

LEMMA TerminalsKeepIInv == TerminalsSpec => []TerminalsIInv
BY TerminalsInitIInv, TerminalsNextIInv, PTL DEF TerminalsSpec
-----------------------------------------------------------------------------
\* Panes, senders and sockets keep their types, and only panes are ticked.
THEOREM TerminalTypes == TerminalsSpec => []TerminalsTypeOK
<1>1. TerminalsIInv => TerminalsTypeOK
  BY DEF TerminalsIInv
<1>2. QED
  BY <1>1, TerminalsKeepIInv, PTL

\* The step that types reaches exactly the ticked panes with an open connection: their
\* senders are those of the sockets they have now.
THEOREM TypingReachesTicked == TerminalsSpec => InputReachesTicked
<1>1. ASSUME TerminalsIInv, NEW m \in Rigs, TypeInput(m)
      PROVE  heard' = {m} \cup
               {t \in ticked : sync /\ m \in ticked /\ panes[t].state = "open"}
  <2>1. ASSUME NEW t \in ticked PROVE Sends(t) <=> panes[t].state = "open"
    <3>1. t \in Rigs /\ panes[t] # Nil
      BY <1>1, <2>1 DEF TerminalsIInv, TerminalsTypeOK
    <3>2. panes[t].socket \in 1..MaxSockets
      BY <1>1, <3>1 DEF TerminalsIInv, Panes
    <3>3. panes[t].socket # Nil
      BY <3>2, TerminalsAssumption
    <3>4. SenderIsCurrent(t)
      BY <1>1, <3>1 DEF TerminalsIInv
    <3>5. QED
      BY <3>1, <3>3, <3>4 DEF SenderIsCurrent, Sends
  <2>2. heard' = {m} \cup (IF sync /\ m \in ticked THEN {t \in ticked : Sends(t)} ELSE {})
    BY <1>1 DEF TypeInput
  <2>3. QED
    BY <2>1, <2>2
<1>2. TerminalsIInv /\ [TerminalsNext]_terminalVars =>
        [\A m \in Rigs : TypeInput(m) => heard' = {m} \cup
           {t \in ticked : sync /\ m \in ticked /\ panes[t].state = "open"}]_terminalVars
  BY <1>1
<1>3. QED
  BY <1>2, TerminalsKeepIInv, PTL DEF TerminalsSpec, InputReachesTicked
=============================================================================
