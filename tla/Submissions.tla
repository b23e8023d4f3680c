---------------------------- MODULE Submissions -----------------------------
(***************************************************************************)
(* How the pages submit jobs.  Every submission has an idempotency key; a  *)
(* repeated key with the same input is the same job, with another input it *)
(* is refused.  A confirmation and a form (a command, a template) take a   *)
(* new key each time, the batch dialog one for the dialog, and the BIOS    *)
(* page one for what is edited.  Answers are late, arrive when the dialog  *)
(* was closed or opened again, or are lost, and a request whose answer is  *)
(* lost may still be executed.  The BIOS page also watches its last job,   *)
(* which it remembers across reloads, and drops the edits when a job       *)
(* succeeded.                                                              *)
(* What is submitted, with the machines, is a content.                     *)
(***************************************************************************)
EXTENDS ConsoleObjects, Naturals, FiniteSets

CONSTANTS
  Contents,    \* what can be submitted
  ReadOnly,    \* the content of a job that reads the BIOS
  MaxDialogs,  \* bound: dialogs opened
  MaxVersions, \* bound: versions of the BIOS edits
  MaxSends     \* bound: submissions sent

ASSUME SubmissionsAssumption ==
  /\ Nil \notin Contents /\ ReadOnly \notin Contents /\ Nil # ReadOnly
  /\ Nil \notin {"accepted", "refused"}
  /\ {MaxDialogs, MaxVersions, MaxSends} \subseteq Nat

VARIABLES
  opened,   \* dialogs opened so far
  dialog,   \* the open dialog: its kind, its number, what it would submit
  bios,     \* the BIOS page
  version,  \* versions of BIOS edits so far
  sends,    \* submissions sent so far
  requests, \* submissions on their way; the page may wait for the answer no more
  jobs,     \* the controller's jobs, with the decision they stem from
  reports   \* history: the submissions reported as successful

submitVars == <<opened, dialog, bios, version, sends, requests, jobs, reports>>

Settled == {"succeeded", "failed"}

\* The BIOS page when it is loaded.  seen is the last known status of the job it watches,
\* failing whether the last poll failed, handled the job whose end it acted on.
LoadedBios(key, watched) ==
  [edits |-> Nil, key |-> key, watched |-> watched, seen |-> Nil, failing |-> FALSE,
   handled |-> Nil, pending |-> FALSE, confirming |-> FALSE]

SubmitInit ==
  /\ opened = 0 /\ dialog = Nil /\ version = 0 /\ sends = 0
  /\ bios = LoadedBios(0, Nil)
  /\ requests = {} /\ jobs = {} /\ reports = {}

(***************************************************************************)
(* Dialogs.                                                                *)
(***************************************************************************)
OpenDialog(kind, c) ==
  /\ dialog = Nil /\ opened < MaxDialogs
  /\ opened' = opened + 1
  /\ dialog' = [kind |-> kind, number |-> opened', content |-> c]
  /\ UNCHANGED <<bios, version, sends, requests, jobs, reports>>

CloseDialog ==
  /\ dialog # Nil
  /\ dialog' = Nil
  /\ UNCHANGED <<opened, bios, version, sends, requests, jobs, reports>>

\* A confirmation shows what it will submit, the other dialogs are forms.
EditDialog(c) ==
  /\ dialog # Nil /\ dialog.kind # "confirm" /\ dialog.content # c
  /\ dialog' = [dialog EXCEPT !.content = c]
  /\ UNCHANGED <<opened, bios, version, sends, requests, jobs, reports>>

\* Faulty: every submission has a new key.
JobKeyAnew(kind, decision) == [kind |-> kind, number |-> sends]

JobKey(kind, decision) ==
  [kind |-> kind, number |-> IF kind \in {"batch", "bios"} THEN decision ELSE sends]

\* submitJob
Send(kind, decision, c) ==
  /\ sends < MaxSends
  /\ sends' = sends + 1
  /\ requests' = requests \cup {[key |-> JobKey(kind, decision), decision |-> decision,
       content |-> c, number |-> sends, result |-> Nil, heard |-> TRUE]}

\* Only a confirmation, whose button spins, cannot be sent a second time meanwhile.
SendDialog ==
  /\ dialog # Nil
  /\ dialog.kind = "confirm" => \A r \in requests :
       ~(r.heard /\ r.key.kind = "confirm" /\ r.decision = dialog.number)
  /\ Send(dialog.kind, dialog.number, dialog.content)
  /\ UNCHANGED <<opened, dialog, bios, version, jobs, reports>>

(***************************************************************************)
(* The controller, and what happens to answers.                            *)
(***************************************************************************)

\* Faulty: the input is not compared.
SameAlways(j, r) == TRUE

SameInput(j, r) == j.content = r.content

\* The answer is sent, if somebody waits for it.
Result(r, result) ==
  requests' = (requests \ {r}) \cup (IF r.heard THEN {[r EXCEPT !.result = result]} ELSE {})

EnqueueJob(r) ==
  LET same == {j \in jobs : j.key = r.key} IN
  /\ r.result = Nil
  /\ Result(r, IF \A j \in same : SameInput(j, r) THEN "accepted" ELSE "refused")
  /\ jobs' = IF same # {} THEN jobs
             ELSE jobs \cup {[key |-> r.key, decision |-> r.decision, content |-> r.content,
                              status |-> "open"]}
  /\ UNCHANGED <<opened, dialog, bios, version, sends, reports>>

\* Refused for another reason, or it never arrived.
RefuseJob(r) ==
  /\ r.result = Nil
  /\ Result(r, "refused")
  /\ UNCHANGED <<opened, dialog, bios, version, sends, jobs, reports>>

\* The answer to a dialog closes it, or the one of its kind that is open now; a confirmation
\* is closed by an error as well.
Closes(r, ok) ==
  dialog # Nil /\ dialog.kind = r.key.kind /\
  IF dialog.kind = "confirm" THEN dialog.number = r.decision ELSE ok

\* The page watches the new job, and takes another key.
Watching(r) ==
  [bios EXCEPT !.key = version', !.watched = r.key, !.seen = Nil, !.failing = FALSE,
               !.confirming = FALSE]

Accepted(r) ==
  /\ r.heard /\ r.result = "accepted"
  /\ requests' = requests \ {r}
  /\ reports' = reports \cup {[key |-> r.key, content |-> r.content]}
  /\ dialog' = IF Closes(r, TRUE) THEN Nil ELSE dialog
  /\ IF r.key.kind = "bios" THEN version' = version + 1 /\ bios' = Watching(r)
                            ELSE UNCHANGED <<version, bios>>
  /\ UNCHANGED <<opened, sends, jobs>>

Refused(r) ==
  /\ r.heard /\ r.result = "refused"
  /\ requests' = requests \ {r}
  /\ dialog' = IF Closes(r, FALSE) THEN Nil ELSE dialog
  /\ UNCHANGED <<opened, bios, version, sends, jobs, reports>>

\* The connection breaks: an error for the page, but the controller may have the request.
Lost(r) ==
  /\ r.heard
  /\ requests' = (requests \ {r}) \cup
       (IF r.result = Nil THEN {[r EXCEPT !.heard = FALSE]} ELSE {})
  /\ dialog' = IF Closes(r, FALSE) THEN Nil ELSE dialog
  /\ UNCHANGED <<opened, bios, version, sends, jobs, reports>>

(***************************************************************************)
(* The BIOS page.                                                          *)
(***************************************************************************)
BiosBusy == \E r \in requests : r.heard /\ r.key.kind = "bios"
BiosRunning == bios.watched # Nil /\ ~bios.failing /\ bios.seen \notin Settled
BiosLocked == BiosBusy \/ BiosRunning \/ bios.pending

NewKey == version < MaxVersions /\ version' = version + 1

EditSetting(c) ==
  /\ ~BiosLocked /\ ~bios.confirming /\ bios.edits # c
  /\ NewKey
  /\ bios' = [bios EXCEPT !.edits = c, !.key = version']
  /\ UNCHANGED <<opened, dialog, sends, requests, jobs, reports>>

DiscardEdits ==
  /\ bios.edits # Nil /\ ~BiosLocked /\ ~bios.confirming
  /\ NewKey
  /\ bios' = [bios EXCEPT !.edits = Nil, !.key = version']
  /\ UNCHANGED <<opened, dialog, sends, requests, jobs, reports>>

\* Reading, also to drop the mark of a change that never took effect.
ReadBios ==
  /\ ~BiosBusy /\ ~BiosRunning /\ ~bios.confirming
  /\ bios.edits = Nil \/ bios.pending
  /\ NewKey
  /\ bios' = [bios EXCEPT !.key = version']
  /\ Send("bios", version', ReadOnly)
  /\ UNCHANGED <<opened, dialog, jobs, reports>>

ConfirmWrite ==
  /\ bios.edits # Nil /\ ~BiosLocked /\ ~bios.confirming
  /\ bios' = [bios EXCEPT !.confirming = TRUE]
  /\ UNCHANGED <<opened, dialog, version, sends, requests, jobs, reports>>

CancelWrite ==
  /\ bios.confirming
  /\ bios' = [bios EXCEPT !.confirming = FALSE]
  /\ UNCHANGED <<opened, dialog, version, sends, requests, jobs, reports>>

WriteBios ==
  /\ bios.confirming /\ bios.edits # Nil /\ ~BiosLocked
  /\ Send("bios", bios.key, bios.edits)
  /\ UNCHANGED <<opened, dialog, bios, version, jobs, reports>>

Settle(j) ==
  /\ j.key.kind = "bios" /\ j.status = "open"
  /\ \E s \in Settled : jobs' = (jobs \ {j}) \cup {[j EXCEPT !.status = s]}
  /\ UNCHANGED <<opened, dialog, bios, version, sends, requests, reports>>

\* The watched job is polled every 2 seconds until it is settled; the first time it is, the
\* configuration is fetched, and the edits are dropped if it succeeded.
PollJob ==
  \E j \in jobs :
    LET ended == j.status \in Settled /\ bios.handled # j.key IN
    /\ j.key = bios.watched /\ bios.seen \notin Settled
    /\ bios.failing \/ bios.seen # j.status
    /\ \E p \in IF ended THEN BOOLEAN ELSE {bios.pending} :
         bios' = [bios EXCEPT !.seen = j.status, !.failing = FALSE, !.pending = p,
           !.handled = IF ended THEN j.key ELSE @,
           !.edits = IF ended /\ j.status = "succeeded" THEN Nil ELSE @]
    /\ UNCHANGED <<opened, dialog, version, sends, requests, jobs, reports>>

PollFails ==
  /\ bios.watched # Nil /\ bios.seen \notin Settled /\ ~bios.failing
  /\ bios' = [bios EXCEPT !.failing = TRUE]
  /\ UNCHANGED <<opened, dialog, version, sends, requests, jobs, reports>>

\* The page is loaded again; its answers reach nobody.
ReloadBios ==
  /\ NewKey
  /\ bios' = LoadedBios(version', bios.watched)
  /\ requests' = {IF r.key.kind = "bios" THEN [r EXCEPT !.heard = FALSE] ELSE r :
                  r \in {q \in requests : q.key.kind = "bios" => q.result = Nil}}
  /\ UNCHANGED <<opened, dialog, sends, jobs, reports>>

SubmitNext ==
  \/ CloseDialog \/ SendDialog
  \/ \E c \in Contents : EditDialog(c) \/ EditSetting(c)
  \/ \E c \in Contents, kind \in {"confirm", "batch", "form"} : OpenDialog(kind, c)
  \/ \E r \in requests : EnqueueJob(r) \/ RefuseJob(r) \/ Accepted(r) \/ Refused(r) \/ Lost(r)
  \/ DiscardEdits \/ ReadBios \/ ConfirmWrite \/ CancelWrite \/ WriteBios
  \/ PollJob \/ PollFails \/ ReloadBios
  \/ \E j \in jobs : Settle(j)

SubmitSpec == SubmitInit /\ [][SubmitNext]_submitVars

(***************************************************************************)
(* Properties.                                                             *)
(***************************************************************************)
JobKeys == [kind : {"confirm", "batch", "form", "bios"}, number : Nat]
Writes == Contents \cup {ReadOnly}

\* Types; the page never watches a job the controller does not have.
SubmitTypeOK ==
  /\ opened \in 0..MaxDialogs /\ version \in Nat /\ sends \in 0..MaxSends
  /\ dialog # Nil => dialog.number \in 1..opened /\ dialog.content \in Contents
  /\ bios.edits \in Contents \cup {Nil} /\ bios.key \in 0..version
  /\ bios.watched # Nil => bios.watched \in {j.key : j \in jobs}
  /\ requests \subseteq [key : JobKeys, decision : Nat, content : Writes, number : 0..(sends - 1),
                         result : {Nil, "accepted", "refused"}, heard : BOOLEAN]
  /\ jobs \subseteq [key : JobKeys, decision : Nat, content : Writes,
                     status : {"open"} \cup Settled]

\* One decision of the operator is at most one job: a confirmation, a batch dialog however
\* often its button is pressed and its answers are lost, and a version of the BIOS edits, are
\* never executed twice.
OneJobPerDecision ==
  \A j, k \in jobs :
    (j.key.kind = k.key.kind /\ j.key.kind \in {"confirm", "batch", "bios"}
       /\ j.decision = k.decision) => j = k

\* What is reported as submitted is the job with that content: the job of an earlier try,
\* whose answer was lost, is not passed off as the changed one.
ReportedAsSubmitted ==
  \A s \in reports : \E j \in jobs : j.key = s.key /\ j.content = s.content
=============================================================================
