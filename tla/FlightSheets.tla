---------------------------- MODULE FlightSheets ----------------------------
(***************************************************************************)
(* Flight sheets between the operators' pages, the controller and the      *)
(* machines: several pages list, edit, apply and delete sheets, an edit is *)
(* saved with the version it was made from, and the machines a sheet was   *)
(* applied to get the edited version by a job queued in the transaction    *)
(* that saves it.  A request is a few reads followed by one transaction    *)
(* under the queue lock, and others come in between; a job succeeds or     *)
(* fails at any time, and its answer to the page may be lost.              *)
(* What a sheet says is one value, its draft: the number of the commit     *)
(* that wrote it.  Deployments of a machine are ordered by their           *)
(* transactions' commits (the code: by the time they began), and several   *)
(* rejections (a taken name, a deleted wallet, ports) are one.             *)
(***************************************************************************)
EXTENDS ConsoleObjects, Naturals, Sequences, SequencesExt

CONSTANTS
  Pages,       \* pages of the console, each with an operator of its own
  Machines,    \* ids of machines
  MaxCommits,  \* bound: saves that commit
  MaxDeploys   \* bound: deployments of a machine

ASSUME SheetsAssumption ==
  /\ MaxCommits \in Nat
  /\ MaxDeploys \in Nat
  /\ Nil \notin [life : Nat, version : Nat, draft : Nat]

VARIABLES
  store,     \* flight_sheets with flight_tasks
  lives,     \* how often a row with this id was inserted
  commits,   \* commits so far, the next draft
  list,      \* each page's cached list of sheets
  editor,    \* the sheet a page edits: its id and the row the form was filled from
  call,      \* the request of a page
  deployed,  \* deployment_versions of a machine with the status of their targets
  keys,      \* idempotency keys of edits, with the targets they were used for
  replaced   \* history: the row the last commit of a sheet overwrote, and its base

sheetVars == <<store, lives, commits, list, editor, call, deployed, keys, replaced>>

Rows == [life : Nat, version : Nat, draft : Nat]
Idle == [kind |-> "idle"]

Live(m) == SelectSeq(deployed[m], LAMBDA d : ~d.failed)

\* The machines whose newest deployment that has not failed is of this sheet.
Linked(s) == {m \in Machines : Live(m) # <<>> /\ Last(Live(m)).sheet = s}

Deployment(s, row) == [sheet |-> s, row |-> row, failed |-> FALSE]

Enqueue(targets, s, row) ==
  deployed' = [m \in Machines |->
    IF m \in targets THEN Append(deployed[m], Deployment(s, row)) ELSE deployed[m]]

Room(targets) == \A m \in targets : Len(deployed[m]) < MaxDeploys

\* Bound: once the saves are used up, requests under way go on and no others begin.
Further == commits < MaxCommits

Become(p, c) == call' = [call EXCEPT ![p] = c]

\* Some sheets are there from the start, in their first version.
SheetsInit ==
  /\ \E there \in SUBSET Sheets :
       /\ store = [s \in Sheets |->
                    IF s \in there THEN [life |-> 1, version |-> 1, draft |-> 0] ELSE Nil]
       /\ lives = [s \in Sheets |-> IF s \in there THEN 1 ELSE 0]
  /\ commits = 0
  /\ list = [p \in Pages |-> store]
  /\ editor = [p \in Pages |-> Nil]
  /\ call = [p \in Pages |-> Idle]
  /\ deployed = [m \in Machines |-> <<>>]
  /\ keys = {}
  /\ replaced = [s \in Sheets |-> [old |-> Nil, base |-> Nil]]

(***************************************************************************)
(* The page.                                                               *)
(***************************************************************************)

\* The list is fetched: when the page opens, after every save or deletion.
Refresh(p) ==
  /\ list[p] # store
  /\ list' = [list EXCEPT ![p] = store]
  /\ UNCHANGED <<store, lives, commits, editor, call, deployed, keys, replaced>>

\* Faulty: a deep link to a sheet the list does not have opens the editor, too.
OpenEditorBlind(p, s) ==
  /\ editor' = [editor EXCEPT ![p] = [sheet |-> s, base |-> list[p][s]]]
  /\ UNCHANGED <<store, lives, commits, list, call, deployed, keys, replaced>>

\* The form is filled from the cached row, whatever the page is waiting for.
OpenEditor(p, s) ==
  /\ list[p][s] # Nil
  /\ editor' = [editor EXCEPT ![p] = [sheet |-> s, base |-> list[p][s]]]
  /\ UNCHANGED <<store, lives, commits, list, call, deployed, keys, replaced>>

\* Cancel, a copy and an import leave the form without a sheet.
CloseEditor(p) ==
  /\ editor[p] # Nil
  /\ editor' = [editor EXCEPT ![p] = Nil]
  /\ UNCHANGED <<store, lives, commits, list, call, deployed, keys, replaced>>

Save(p) ==
  /\ call[p] = Idle /\ Further
  /\ IF editor[p] # Nil
       THEN Become(p, [kind |-> "save", sheet |-> editor[p].sheet, base |-> editor[p].base])
       ELSE \E s \in Sheets :
              /\ lives[s] = 0 /\ \A q \in Pages : call[q] # Idle => call[q].sheet # s
              /\ Become(p, [kind |-> "save", sheet |-> s, base |-> Nil])
  /\ UNCHANGED <<store, lives, commits, list, editor, deployed, keys, replaced>>

\* Applying names a sheet of the list and machines, not a version.
Apply(p, s, targets) ==
  /\ call[p] = Idle /\ Further /\ list[p][s] # Nil
  /\ targets # {}
  /\ Become(p, [kind |-> "apply", sheet |-> s, targets |-> targets])
  /\ UNCHANGED <<store, lives, commits, list, editor, deployed, keys, replaced>>

\* A deletion is one statement, and the list is fetched after it.
Delete(p, s) ==
  /\ call[p] = Idle /\ Further /\ list[p][s] # Nil
  /\ store' = [store EXCEPT ![s] = Nil]
  /\ list' = [list EXCEPT ![p] = store']
  /\ UNCHANGED <<lives, commits, editor, call, deployed, keys, replaced>>

(***************************************************************************)
(* The controller: a save.                                                 *)
(***************************************************************************)

\* save_flight: the machines to update are read first.
ReadTargets(p) ==
  /\ call[p].kind = "save"
  /\ Become(p, [kind |-> "targets", sheet |-> call[p].sheet, base |-> call[p].base,
                targets |-> Linked(call[p].sheet)])
  /\ UNCHANGED <<store, lives, commits, list, editor, deployed, keys, replaced>>

\* With machines to update, the previous version is read, compared and compiled.
Compile(p) ==
  LET c == call[p] IN
  /\ c.kind = "targets"
  /\ IF c.targets # {} => store[c.sheet] # Nil /\ c.base # Nil
                            /\ c.base.version = store[c.sheet].version
       THEN Become(p, [c EXCEPT !.kind = "compiled"])
       ELSE Become(p, Idle)
  /\ UNCHANGED <<store, lives, commits, list, editor, deployed, keys, replaced>>

\* The key of the job that rolls an edit out.
Key(p, c) == [page |-> p, sheet |-> c.sheet, version |-> c.base.version + 1]
Used(k) == \E u \in keys : u.key = k
UsedFor(k, targets) == [key |-> k, targets |-> targets] \in keys

\* The row is inserted, or replaced when it has the version the edit was made from.
Inserts(c) == store[c.sheet] = Nil

\* Faulty: the update does not compare the version.
ReplacesAny(c) == store[c.sheet] # Nil /\ c.base # Nil

Replaces(c) ==
  /\ store[c.sheet] # Nil /\ c.base # Nil
  /\ store[c.sheet].version = c.base.version

Written(c) ==
  IF Inserts(c) THEN [life |-> lives[c.sheet] + 1, version |-> 1, draft |-> commits + 1]
  ELSE [life |-> store[c.sheet].life, version |-> store[c.sheet].version + 1,
        draft |-> commits + 1]

\* Faulty: what is rolled out carries the version that was read.
SnapshotAsRead(c) ==
  [life |-> Written(c).life, version |-> c.base.version, draft |-> Written(c).draft]

\* What is rolled out was compiled before the transaction, from the base's version.
Snapshot(c) ==
  [life |-> Written(c).life, version |-> c.base.version + 1, draft |-> Written(c).draft]

\* Faulty: the machines are those read before the transaction.
AllowedAnyTargets(p, c) ==
  /\ Inserts(c) \/ Replaces(c)
  /\ c.targets # {} /\ Used(Key(p, c)) => UsedFor(Key(p, c), c.targets)

\* What the transaction refuses: other targets, another version, a key used otherwise.
Allowed(p, c) ==
  /\ c.targets = Linked(c.sheet)
  /\ Inserts(c) \/ Replaces(c)
  /\ c.targets # {} /\ Used(Key(p, c)) => UsedFor(Key(p, c), c.targets)

\* Save and roll-out are one transaction under the queue lock.
Commit(p) ==
  LET c == call[p] IN
  /\ c.kind = "compiled" /\ Allowed(p, c)
  /\ commits < MaxCommits /\ Room(c.targets)
  /\ commits' = commits + 1
  /\ store' = [store EXCEPT ![c.sheet] = Written(c)]
  /\ lives' = [lives EXCEPT ![c.sheet] = IF Inserts(c) THEN @ + 1 ELSE @]
  /\ replaced' = [replaced EXCEPT ![c.sheet] = [old |-> store[c.sheet], base |-> c.base]]
  /\ IF c.targets # {} /\ ~Used(Key(p, c))
       THEN /\ Enqueue(c.targets, c.sheet, Snapshot(c))
            /\ keys' = keys \cup {[key |-> Key(p, c), targets |-> c.targets]}
       ELSE UNCHANGED <<deployed, keys>>
  /\ Become(p, [kind |-> "saved", sheet |-> c.sheet])
  /\ UNCHANGED <<list, editor>>

\* The transaction, or a check before it, refuses the request.
Refuse(p) ==
  /\ call[p].kind = "compiled"
  /\ Become(p, Idle)
  /\ UNCHANGED <<store, lives, commits, list, editor, deployed, keys, replaced>>

\* A save that succeeded refreshes the list and empties whatever the editor shows; a
\* refused or unanswered one leaves the editor as it is.
Answer(p) ==
  /\ call[p].kind = "saved"
  /\ list' = [list EXCEPT ![p] = store]
  /\ editor' = [editor EXCEPT ![p] = Nil]
  /\ Become(p, Idle)
  /\ UNCHANGED <<store, lives, commits, deployed, keys, replaced>>

NoAnswer(p) ==
  /\ call[p].kind = "saved"
  /\ Become(p, Idle)
  /\ UNCHANGED <<store, lives, commits, list, editor, deployed, keys, replaced>>

(***************************************************************************)
(* The controller: an application, compiled before it is queued.           *)
(***************************************************************************)
CompileApply(p) ==
  LET c == call[p] IN
  /\ c.kind = "apply"
  /\ IF store[c.sheet] = Nil
       THEN Become(p, Idle)
       ELSE Become(p, [kind |-> "applying", sheet |-> c.sheet, targets |-> c.targets,
                       snapshot |-> store[c.sheet]])
  /\ UNCHANGED <<store, lives, commits, list, editor, deployed, keys, replaced>>

EnqueueApply(p) ==
  LET c == call[p] IN
  /\ c.kind = "applying" /\ Room(c.targets)
  /\ Enqueue(c.targets, c.sheet, c.snapshot)
  /\ Become(p, Idle)
  /\ UNCHANGED <<store, lives, commits, list, editor, keys, replaced>>

\* A target of a roll-out fails, is cancelled or blocked; one that succeeds stays linked.
Fail(m, n) ==
  /\ n \in 1..Len(deployed[m]) /\ ~deployed[m][n].failed
  /\ deployed' = [deployed EXCEPT ![m][n].failed = TRUE]
  /\ UNCHANGED <<store, lives, commits, list, editor, call, keys, replaced>>

SheetsNext ==
  \/ \E p \in Pages :
       \/ Refresh(p) \/ CloseEditor(p) \/ Save(p)
       \/ ReadTargets(p) \/ Compile(p) \/ Commit(p) \/ Refuse(p) \/ Answer(p) \/ NoAnswer(p)
       \/ CompileApply(p) \/ EnqueueApply(p)
       \/ \E s \in Sheets : OpenEditor(p, s) \/ Delete(p, s)
       \/ \E s \in Sheets, targets \in SUBSET Machines : Apply(p, s, targets)
  \/ \E m \in Machines, n \in 1..MaxDeploys : Fail(m, n)

SheetsSpec == SheetsInit /\ [][SheetsNext]_sheetVars

(***************************************************************************)
(* Properties.                                                             *)
(***************************************************************************)
OrNil(S) == S \cup {Nil}

Calls ==
  {Idle}
  \cup [kind : {"save"}, sheet : Sheets, base : OrNil(Rows)]
  \cup [kind : {"targets", "compiled"}, sheet : Sheets, base : OrNil(Rows),
        targets : SUBSET Machines]
  \cup [kind : {"saved"}, sheet : Sheets]
  \cup [kind : {"apply"}, sheet : Sheets, targets : SUBSET Machines]
  \cup [kind : {"applying"}, sheet : Sheets, targets : SUBSET Machines, snapshot : Rows]

Deployments == [sheet : Sheets, row : Rows, failed : BOOLEAN]

\* Types; a row was inserted at least once, and a roll-out was compiled from a base.
SheetsTypeOK ==
  /\ store \in [Sheets -> OrNil(Rows)]
  /\ lives \in [Sheets -> Nat]
  /\ commits \in Nat
  /\ list \in [Pages -> [Sheets -> OrNil(Rows)]]
  /\ editor \in [Pages -> OrNil([sheet : Sheets, base : Rows])]
  /\ call \in [Pages -> Calls]
  /\ deployed \in [Machines -> Seq(Deployments)]
  /\ \A k \in keys :
       k.key \in [page : Pages, sheet : Sheets, version : Nat] /\ k.targets \subseteq Machines
  /\ replaced \in [Sheets -> [old : OrNil(Rows), base : OrNil(Rows)]]
  /\ \A p \in Pages :
       call[p].kind = "compiled" /\ call[p].targets # {} => call[p].base # Nil

\* No edit is lost: the row a save replaces is the very row its editor was filled from,
\* not one another operator saved meanwhile, however old the list it was opened from is.
\* Not so for a sheet that was deleted and saved again meanwhile: its versions start anew, so
\* an editor still open on an earlier version 1 replaces a version 1 it never saw.
NoLostEdit ==
  \A s \in Sheets :
    LET r == replaced[s] IN r.old # Nil /\ r.base # Nil /\ r.base.life = r.old.life => r.base = r.old

\* Every row of a sheet there is: stored, listed, in an editor or a request, rolled out.
RowsOf(s) ==
  ({store[s], replaced[s].old} \cup {list[p][s] : p \in Pages}
    \cup {editor[p].base : p \in {q \in Pages : editor[q] # Nil /\ editor[q].sheet = s}}
    \cup {call[p].base : p \in {q \in Pages : call[q].kind \in {"save", "targets", "compiled"}
                                              /\ call[q].sheet = s}}
    \cup {call[p].snapshot : p \in {q \in Pages : call[q].kind = "applying" /\ call[q].sheet = s}}
    \cup UNION {{d.row : d \in {e \in ToSet(deployed[m]) : e.sheet = s}} : m \in Machines})
  \ {Nil}

\* A version names one content: what the machines of a sheet report as version v, what the
\* pages show as v and what is stored as v is the same, as long as the sheet is not
\* deleted and saved again (which starts the versions anew).
VersionNamesContent ==
  \A s \in Sheets : \A r, t \in RowsOf(s) :
    r.life = 1 /\ t.life = 1 /\ r.version = t.version => r.draft = t.draft

\* A save reaches every machine the sheet is in use on at the moment it commits, also those
\* that were applied or moved to another sheet while it was compiled.
SaveReachesUsers ==
  [][\A s \in Sheets :
       store[s] # Nil /\ store'[s] \notin {Nil, store[s]} /\ lives'[s] = 1 =>
         \A m \in Linked(s) : Last(deployed'[m]).sheet = s /\ Last(deployed'[m]).row = store'[s]]_sheetVars
=============================================================================
