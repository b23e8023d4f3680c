------------------------------ MODULE Freshness ------------------------------
(***************************************************************************)
(* Whether the fleet list shows a machine as online.  Freshness is judged  *)
(* not against the clock but against freshNow: the moment the last         *)
(* telemetry arrived, plus a grace; a refresh that fails or misses its     *)
(* deadline forgets that moment, and freshNow is the clock again.  The     *)
(* page polls while its tab is visible; a refresh it starts over (a save   *)
(* invalidates everything) is no failure.  The queries of a machine page,  *)
(* of the BMC page and of a dialog share that moment; they are refreshed   *)
(* alike, and as nothing is shown of them here their answers and failures  *)
(* come at any time.  The rows of the list are kept until there are new    *)
(* data or freshNow is in another period of 10 seconds.                    *)
(*                                                                         *)
(* Time passes in units of 5 seconds, and not past what a timer does       *)
(* first.  Instead of times there are ages, which stop at Old; the age of  *)
(* an observation is split into what freshNow counts and the lag of        *)
(* freshNow behind the clock.                                              *)
(***************************************************************************)
EXTENDS ConsoleObjects, Naturals

CONSTANTS
  Interval,   \* units between polls: 10 s
  Deadline,   \* units a request may take: 15 s
  Grace,      \* units freshNow may be ahead of the last telemetry: 15 s
  FreshFor,   \* units an observation counts as current: 35 s
  Limit,      \* how old an observation may be that is shown as online
  Settling,   \* how long after a disturbance that holds
  Old         \* bound: ages stop here

ASSUME FreshAssumption ==
  /\ {Interval, Deadline, Grace, FreshFor, Limit, Settling, Old} \subseteq Nat \ {0}
  /\ Grace < FreshFor /\ FreshFor < Limit /\ Limit < Old
  /\ Nil \notin Nat /\ Nil \notin [takes : 0..Deadline, try : 1..2, sent : BOOLEAN]

\* Undisturbed, a request is over, with its second try, within so long of the last one, and
\* what it does not refresh ages meanwhile.
ASSUME LimitAssumption ==
  Settling >= Interval + 2 * Deadline /\ Limit >= FreshFor + Interval + 2 * Deadline

VARIABLES
  half,      \* the second half of a period of 10 seconds
  visible,   \* the tab is visible
  req,       \* the request of the fleet's telemetry: how long it takes, which try it is, sent or not
  idle,      \* how long ago the last one ended
  age,       \* the age of the machine's observation, for freshNow
  at,        \* telemetryAt: how long ago telemetry arrived, up to Grace; Nil after a failure
  lag,       \* how far freshNow is behind the clock
  online,    \* the list shows the machine as online
  current,   \* the kept rows are of these data and this period
  calm,      \* history: how long nothing disturbed the polling
  recent     \* history: the data were recent on arrival, and freshNow is due to them

freshVars == <<half, visible, req, idle, age, at, lag, online, current, calm, recent>>

Later(a, n) == IF a + n < Old THEN a + n ELSE Old
UpTo(a, limit) == IF a < limit THEN a + 1 ELSE a

Request(n) == [takes |-> 0, try |-> n, sent |-> visible]

FreshInit ==
  /\ half = FALSE /\ visible = TRUE
  /\ req = [takes |-> 0, try |-> 1, sent |-> TRUE] /\ idle = 0
  /\ age = Old /\ at = Nil /\ lag = 0
  /\ online = FALSE /\ current = FALSE /\ calm = 0 /\ recent = FALSE

(***************************************************************************)
(* The clock.                                                              *)
(***************************************************************************)
Sent == req # Nil /\ req.sent

\* Faulty: a request may take for ever.
NeverOverdue == FALSE

\* The deadline of the request is over.
Overdue == Sent /\ req.takes = Deadline

\* The poll of a visible page is due.
Due == visible /\ req = Nil /\ idle = Interval

\* Faulty: freshNow is the clock.
AdvancesAlways == TRUE

\* freshNow goes on, until the grace is used up.
Advances == at = Nil \/ at < Grace

Clock ==
  /\ ~Overdue /\ ~Due
  /\ half' = ~half
  /\ req' = IF Sent THEN [req EXCEPT !.takes = UpTo(@, Deadline)] ELSE req
  /\ idle' = UpTo(idle, Interval)
  /\ at' = IF at = Nil THEN Nil ELSE UpTo(at, Grace)
  /\ IF Advances THEN age' = Later(age, 1) /\ UNCHANGED lag
                 ELSE lag' = Later(lag, 1) /\ UNCHANGED age
  /\ current' = (current /\ ~(Advances /\ half))
  /\ calm' = IF visible THEN UpTo(calm, Settling) ELSE 0
  /\ UNCHANGED <<visible, online, recent>>

(***************************************************************************)
(* The list.                                                               *)
(***************************************************************************)

\* The kept rows still stand.
Kept == current

\* freshNow catches up with the clock, which may be in another period than the kept rows.
SamePeriod == lag = 0 \/ (lag = 1 /\ half)

\* For whatever reason the list is rendered: the operator types, other data arrived.
Rerender ==
  /\ ~Kept
  /\ online' = (age < FreshFor) /\ current' = TRUE
  /\ UNCHANGED <<half, visible, req, idle, age, at, lag, calm, recent>>

(***************************************************************************)
(* Telemetry.                                                              *)
(***************************************************************************)

\* The timer, the return to the tab, or an invalidation by the page starts a request.
PollFleet ==
  /\ visible /\ req = Nil
  /\ req' = Request(1)
  /\ UNCHANGED <<half, visible, idle, age, at, lag, online, current, calm, recent>>

\* A request under way is cancelled and begun anew: not a failure.
RestartPoll ==
  /\ visible /\ Sent
  /\ req' = Request(1) /\ calm' = 0
  /\ UNCHANGED <<half, visible, idle, age, at, lag, online, current, recent>>

\* Telemetry arrives with an observation that may be new, or an error: the list has new rows.
FleetAnswer(a) ==
  /\ Sent /\ (a <= Later(age, lag) \/ a = Old)
  /\ req' = Nil /\ idle' = 0
  /\ age' = a /\ at' = 0 /\ lag' = 0
  /\ online' = (a < FreshFor) /\ current' = TRUE
  /\ recent' = (a + Grace < FreshFor)
  /\ UNCHANGED <<half, visible, calm>>

\* A failure forgets the last telemetry: freshNow is the clock.
Forget == at' = Nil /\ lag' = 0 /\ age' = Later(age, lag)

\* An error, or the deadline.  The first is followed by a second try, which waits for the tab
\* to be visible, and the list does not hear of it; the second is shown, so the list is rendered.
FleetFailure ==
  /\ Sent /\ Forget
  /\ recent' = FALSE
  /\ \/ /\ req.try = 1
        /\ req' = Request(2)
        /\ current' = (current /\ SamePeriod)
        /\ UNCHANGED <<idle, online>>
     \/ /\ req.try = 2
        /\ req' = Nil /\ idle' = 0
        /\ online' = IF Kept /\ SamePeriod THEN online ELSE age' < FreshFor
        /\ current' = TRUE
  /\ UNCHANGED <<half, visible, calm>>

\* Another query has its answer, or fails.
OtherAnswer ==
  /\ at' = 0 /\ lag' = 0 /\ age' = Later(age, lag)
  /\ recent' = FALSE /\ current' = (current /\ SamePeriod)
  /\ UNCHANGED <<half, visible, req, idle, online, calm>>

OtherFailure ==
  /\ Forget
  /\ recent' = FALSE /\ current' = (current /\ SamePeriod)
  /\ UNCHANGED <<half, visible, req, idle, online, calm>>

(***************************************************************************)
(* The tab.                                                                *)
(***************************************************************************)
Hide ==
  /\ visible
  /\ visible' = FALSE /\ calm' = 0
  /\ UNCHANGED <<half, req, idle, age, at, lag, online, current, recent>>

\* Back to the tab: a second try that waited is sent.
Show ==
  /\ ~visible
  /\ visible' = TRUE
  /\ req' = IF req = Nil THEN Nil ELSE [req EXCEPT !.sent = TRUE]
  /\ UNCHANGED <<half, idle, age, at, lag, online, current, calm, recent>>

FreshNext ==
  \/ Clock \/ Rerender \/ PollFleet \/ RestartPoll \/ FleetFailure
  \/ OtherAnswer \/ OtherFailure \/ Hide \/ Show
  \/ \E a \in 0..Old : FleetAnswer(a)

FreshSpec == FreshInit /\ [][FreshNext]_freshVars

(***************************************************************************)
(* Properties.                                                             *)
(***************************************************************************)

\* Types; freshNow is behind the clock only when its grace is used up.
FreshTypeOK ==
  /\ {half, visible, online, current, recent} \subseteq BOOLEAN
  /\ req \in [takes : 0..Deadline, try : 1..2, sent : BOOLEAN] \cup {Nil}
  /\ idle \in 0..Interval /\ calm \in 0..Settling
  /\ age \in 0..Old /\ lag \in 0..Old /\ at \in (0..Grace) \cup {Nil}
  /\ lag > 0 => at = Grace
  /\ req # Nil /\ ~req.sent => req.try = 2 /\ ~visible

\* A controller that stops answering, or answers with errors only, does not keep a machine
\* online: while the tab is visible and the page does not start its requests over, what is
\* shown as online was observed within the Limit, however hanging and failing requests, second
\* tries, other queries and the kept rows fall together.
ShownOnlineIsRecent ==
  online /\ calm = Settling => Later(age, lag) <= Limit

\* Data that are merely not refreshed yet are not mistaken for an offline machine: as long
\* as nothing failed since recent data arrived for the list, and no other query moved
\* freshNow, no passing of time, in the background or with a request under way, turns it off.
LateIsNotOffline ==
  [][online /\ recent /\ recent' => online']_freshVars
=============================================================================
