------------------------- MODULE FlightSheetsProofs -------------------------
(***************************************************************************)
(* Proofs about FlightSheets, for all sets of pages, sheets and machines   *)
(* and any number of commits: a save never replaces a row its editor did   *)
(* not show; a version names one content, on pages, in requests and on     *)
(* machines; and a save reaches the machines the sheet is in use on.  And  *)
(* about FlightComposer: what the form of a sheet shows fits together, for *)
(* any number of rows, and has no more rows than a sheet may have.         *)
(***************************************************************************)
EXTENDS FlightSheets, FlightComposer, FiniteSetTheorems, WellFoundedInduction, TLAPS

\* What somebody knows of a sheet is what is stored, or older: of an earlier life of the
\* sheet, or of a lower version.
SheetKnown(v, s) ==
  v # Nil =>
    /\ v.life <= lives[s]
    /\ store[s] # Nil /\ v.life = lives[s] =>
         v.version <= store[s].version /\ (v.version = store[s].version => v = store[s])

EditorsOpen == [sheet : Sheets, base : Rows]

\* The types this takes.
SheetRowsOK ==
  /\ store \in [Sheets -> OrNil(Rows)] /\ lives \in [Sheets -> Nat] /\ commits \in Nat
  /\ list \in [Pages -> [Sheets -> OrNil(Rows)]]
  /\ editor \in [Pages -> OrNil(EditorsOpen)]
  /\ call \in [Pages -> Calls]
  /\ replaced \in [Sheets -> [old : OrNil(Rows), base : OrNil(Rows)]]

\* The stored row is of the last life of its sheet.
StoredIsOfLastLife == \A s \in Sheets : store[s] # Nil => store[s].life = lives[s]

Saving(c) == c.kind \in {"save", "targets", "compiled"}

\* Every copy a page has, edits or saves is known in this sense.
SheetCopiesKnown ==
  \A p \in Pages :
    /\ \A s \in Sheets : SheetKnown(list[p][s], s)
    /\ editor[p] # Nil => SheetKnown(editor[p].base, editor[p].sheet)
    /\ Saving(call[p]) => SheetKnown(call[p].base, call[p].sheet)

SheetsIInv == SheetRowsOK /\ StoredIsOfLastLife /\ SheetCopiesKnown /\ NoLostEdit

\* What a request that saves carries.
LEMMA SavingCalls ==
  ASSUME NEW c \in Calls
  PROVE  /\ Saving(c) => c.sheet \in Sheets /\ c.base \in OrNil(Rows)
         /\ c.kind \in {"targets", "compiled"} =>
              c \in [kind : {"targets", "compiled"}, sheet : Sheets, base : OrNil(Rows),
                     targets : SUBSET Machines]
         /\ c.kind = "apply" =>
              c \in [kind : {"apply"}, sheet : Sheets, targets : SUBSET Machines]
         /\ c.kind = "saved" => c \in [kind : {"saved"}, sheet : Sheets]
BY DEF Calls, Saving, Idle

LEMMA SheetsInitIInv == SheetsInit => SheetsIInv
<1> SUFFICES ASSUME SheetsInit PROVE SheetsIInv
  OBVIOUS
<1>1. /\ \A s \in Sheets : \/ store[s] = Nil /\ lives[s] = 0
                           \/ store[s] = [life |-> 1, version |-> 1, draft |-> 0] /\ lives[s] = 1
      /\ store \in [Sheets -> OrNil(Rows)] /\ lives \in [Sheets -> Nat]
  BY DEF SheetsInit, OrNil, Rows
<1>2. call \in [Pages -> Calls]
  BY DEF SheetsInit, Calls, Idle
<1>3. SheetRowsOK
  BY <1>1, <1>2 DEF SheetsInit, SheetRowsOK, OrNil
<1>4. StoredIsOfLastLife
  BY <1>1 DEF StoredIsOfLastLife
<1>5. SheetCopiesKnown
  BY <1>1 DEF SheetsInit, SheetCopiesKnown, SheetKnown, Saving, Idle, OrNil, Rows
<1>6. NoLostEdit
  BY DEF SheetsInit, NoLostEdit
<1>7. QED
  BY <1>3, <1>4, <1>5, <1>6 DEF SheetsIInv

\* The stored row is known.
LEMMA StoredSheetIsKnown ==
  ASSUME SheetsIInv, NEW s \in Sheets PROVE SheetKnown(store[s], s)
BY DEF SheetsIInv, SheetRowsOK, StoredIsOfLastLife, SheetKnown, OrNil, Rows

(***************************************************************************)
(* Steps that leave the stored sheets alone.                               *)
(***************************************************************************)
LEMMA PageStep ==
  ASSUME SheetsIInv, UNCHANGED <<store, lives, commits, replaced>>, NEW p \in Pages,
         NEW copies \in [Sheets -> OrNil(Rows)], \A s \in Sheets : SheetKnown(copies[s], s),
         list' = [list EXCEPT ![p] = copies],
         NEW e \in OrNil(EditorsOpen), e # Nil => SheetKnown(e.base, e.sheet),
         editor' = [editor EXCEPT ![p] = e],
         NEW c \in Calls, Saving(c) => SheetKnown(c.base, c.sheet),
         call' = [call EXCEPT ![p] = c]
  PROVE  SheetsIInv'
<1>1. SheetRowsOK' /\ StoredIsOfLastLife' /\ NoLostEdit'
  BY DEF SheetsIInv, SheetRowsOK, StoredIsOfLastLife, NoLostEdit
<1>2. ASSUME NEW q \in Pages
      PROVE  /\ \A s \in Sheets : SheetKnown(list[q][s], s)'
             /\ editor'[q] # Nil => SheetKnown(editor[q].base, editor[q].sheet)'
             /\ Saving(call'[q]) => SheetKnown(call[q].base, call[q].sheet)'
  <2>1. CASE q = p
    BY <2>1 DEF SheetsIInv, SheetRowsOK, SheetKnown
  <2>2. CASE q # p
    BY <2>2 DEF SheetsIInv, SheetRowsOK, SheetCopiesKnown, SheetKnown
  <2>3. QED
    BY <2>1, <2>2
<1>3. SheetCopiesKnown'
  BY <1>2 DEF SheetCopiesKnown, Saving
<1>4. QED
  BY <1>1, <1>3 DEF SheetsIInv

\* Only the request of the page changes.
LEMMA RequestStep ==
  ASSUME SheetsIInv, UNCHANGED <<store, lives, commits, list, editor, replaced>>,
         NEW p \in Pages, NEW c \in Calls, Saving(c) => SheetKnown(c.base, c.sheet),
         call' = [call EXCEPT ![p] = c]
  PROVE  SheetsIInv'
<1>1. /\ list[p] \in [Sheets -> OrNil(Rows)] /\ \A s \in Sheets : SheetKnown(list[p][s], s)
      /\ list' = [list EXCEPT ![p] = list[p]]
  BY DEF SheetsIInv, SheetRowsOK, SheetCopiesKnown
<1>2. /\ editor[p] \in OrNil(EditorsOpen)
      /\ editor[p] # Nil => SheetKnown(editor[p].base, editor[p].sheet)
      /\ editor' = [editor EXCEPT ![p] = editor[p]]
  BY DEF SheetsIInv, SheetRowsOK, SheetCopiesKnown
<1>3. QED
  BY <1>1, <1>2, PageStep

LEMMA EndOfRequest ==
  ASSUME SheetsIInv, UNCHANGED <<store, lives, commits, list, editor, replaced>>,
         NEW p \in Pages, Become(p, Idle)
  PROVE  SheetsIInv'
BY RequestStep DEF Become, Idle, Calls, Saving

\* The request of the page goes on, with the same sheet and base.
LEMMA GoesOn ==
  ASSUME SheetsIInv, UNCHANGED <<store, lives, commits, list, editor, replaced>>,
         NEW p \in Pages, Saving(call[p]), NEW c \in Calls,
         c.base = call[p].base, c.sheet = call[p].sheet, Become(p, c)
  PROVE  SheetsIInv'
BY RequestStep DEF Become, SheetsIInv, SheetCopiesKnown

LEMMA RefreshStep == ASSUME SheetsIInv, NEW p \in Pages, Refresh(p) PROVE SheetsIInv'
<1>1. store \in [Sheets -> OrNil(Rows)] /\ \A s \in Sheets : SheetKnown(store[s], s)
  BY StoredSheetIsKnown DEF SheetsIInv, SheetRowsOK
<1>2. /\ editor[p] \in OrNil(EditorsOpen)
      /\ editor[p] # Nil => SheetKnown(editor[p].base, editor[p].sheet)
      /\ editor' = [editor EXCEPT ![p] = editor[p]]
  BY DEF Refresh, SheetsIInv, SheetRowsOK, SheetCopiesKnown
<1>3. /\ call[p] \in Calls /\ call' = [call EXCEPT ![p] = call[p]]
      /\ Saving(call[p]) => SheetKnown(call[p].base, call[p].sheet)
  BY DEF Refresh, SheetsIInv, SheetRowsOK, SheetCopiesKnown
<1>4. QED
  BY <1>1, <1>2, <1>3, PageStep DEF Refresh

\* The editor shows something else.
LEMMA EditorStep ==
  ASSUME SheetsIInv, UNCHANGED <<store, lives, commits, list, call, replaced>>,
         NEW p \in Pages,
         NEW e \in OrNil(EditorsOpen), e # Nil => SheetKnown(e.base, e.sheet),
         editor' = [editor EXCEPT ![p] = e]
  PROVE  SheetsIInv'
<1>1. /\ list[p] \in [Sheets -> OrNil(Rows)] /\ \A s \in Sheets : SheetKnown(list[p][s], s)
      /\ list' = [list EXCEPT ![p] = list[p]]
  BY DEF SheetsIInv, SheetRowsOK, SheetCopiesKnown
<1>2. /\ call[p] \in Calls /\ call' = [call EXCEPT ![p] = call[p]]
      /\ Saving(call[p]) => SheetKnown(call[p].base, call[p].sheet)
  BY DEF SheetsIInv, SheetRowsOK, SheetCopiesKnown
<1>3. QED
  BY <1>1, <1>2, PageStep

LEMMA OpenEditorStep ==
  ASSUME SheetsIInv, NEW p \in Pages, NEW s \in Sheets, OpenEditor(p, s) PROVE SheetsIInv'
<1> DEFINE e == [sheet |-> s, base |-> list[p][s]]
<1>1. list[p][s] \in Rows /\ SheetKnown(list[p][s], s)
  BY DEF OpenEditor, SheetsIInv, SheetRowsOK, SheetCopiesKnown, OrNil
<1>2. e \in OrNil(EditorsOpen) /\ SheetKnown(e.base, e.sheet)
  BY <1>1 DEF EditorsOpen, OrNil
<1>3. QED
  BY <1>2, EditorStep DEF OpenEditor

LEMMA CloseEditorStep == ASSUME SheetsIInv, NEW p \in Pages, CloseEditor(p) PROVE SheetsIInv'
BY EditorStep DEF CloseEditor, OrNil

LEMMA SaveStep == ASSUME SheetsIInv, NEW p \in Pages, Save(p) PROVE SheetsIInv'
<1>1. CASE editor[p] # Nil
  <2> DEFINE c == [kind |-> "save", sheet |-> editor[p].sheet, base |-> editor[p].base]
  <2>1. editor[p] \in EditorsOpen /\ SheetKnown(editor[p].base, editor[p].sheet)
    BY <1>1 DEF SheetsIInv, SheetRowsOK, SheetCopiesKnown, OrNil
  <2>2. c \in Calls /\ SheetKnown(c.base, c.sheet)
    BY <2>1 DEF Calls, EditorsOpen, OrNil
  <2>3. QED
    BY <1>1, <2>2, RequestStep DEF Save, Become
<1>2. CASE editor[p] = Nil
  <2>1. PICK s \in Sheets : Become(p, [kind |-> "save", sheet |-> s, base |-> Nil])
    BY <1>2 DEF Save
  <2>2. [kind |-> "save", sheet |-> s, base |-> Nil] \in Calls
    BY DEF Calls, OrNil
  <2>3. QED
    BY <2>1, <2>2, RequestStep DEF Save, Become, SheetKnown
<1>3. QED
  BY <1>1, <1>2

LEMMA ApplyStep ==
  ASSUME SheetsIInv, NEW p \in Pages, NEW s \in Sheets, NEW targets \in SUBSET Machines,
         Apply(p, s, targets)
  PROVE  SheetsIInv'
<1>1. [kind |-> "apply", sheet |-> s, targets |-> targets] \in Calls
  BY DEF Calls
<1>2. QED
  BY <1>1, RequestStep DEF Apply, Become, Saving

LEMMA ReadTargetsStep == ASSUME SheetsIInv, NEW p \in Pages, ReadTargets(p) PROVE SheetsIInv'
<1> DEFINE c == [kind |-> "targets", sheet |-> call[p].sheet, base |-> call[p].base,
                 targets |-> Linked(call[p].sheet)]
<1>1. Saving(call[p]) /\ call[p].sheet \in Sheets /\ call[p].base \in OrNil(Rows)
  BY SavingCalls DEF ReadTargets, Saving, SheetsIInv, SheetRowsOK
<1>2. c \in Calls
  BY <1>1 DEF Calls, Linked
<1>3. QED
  BY <1>1, <1>2, GoesOn DEF ReadTargets

LEMMA CompileStep == ASSUME SheetsIInv, NEW p \in Pages, Compile(p) PROVE SheetsIInv'
<1> DEFINE c == [call[p] EXCEPT !.kind = "compiled"]
<1>1. /\ Become(p, c) \/ Become(p, Idle)
      /\ UNCHANGED <<store, lives, commits, list, editor, replaced>>
  BY DEF Compile
<1>2. /\ call[p] \in [kind : {"targets", "compiled"}, sheet : Sheets, base : OrNil(Rows),
                     targets : SUBSET Machines]
      /\ Saving(call[p])
  BY SavingCalls DEF Compile, Saving, SheetsIInv, SheetRowsOK
<1>3. c \in Calls /\ c.base = call[p].base /\ c.sheet = call[p].sheet
  BY <1>2 DEF Calls
<1>4. QED
  BY <1>1, <1>2, <1>3, GoesOn, EndOfRequest

LEMMA RefuseStep == ASSUME SheetsIInv, NEW p \in Pages, Refuse(p) PROVE SheetsIInv'
BY EndOfRequest DEF Refuse

LEMMA NoAnswerStep == ASSUME SheetsIInv, NEW p \in Pages, NoAnswer(p) PROVE SheetsIInv'
BY EndOfRequest DEF NoAnswer

LEMMA EnqueueApplyStep == ASSUME SheetsIInv, NEW p \in Pages, EnqueueApply(p) PROVE SheetsIInv'
BY EndOfRequest DEF EnqueueApply

LEMMA AnswerStep == ASSUME SheetsIInv, NEW p \in Pages, Answer(p) PROVE SheetsIInv'
<1>1. store \in [Sheets -> OrNil(Rows)] /\ \A s \in Sheets : SheetKnown(store[s], s)
  BY StoredSheetIsKnown DEF SheetsIInv, SheetRowsOK
<1>2. Nil \in OrNil(EditorsOpen) /\ Idle \in Calls /\ ~Saving(Idle)
  BY DEF OrNil, Calls, Idle, Saving
<1>3. QED
  BY <1>1, <1>2, PageStep DEF Answer, Become

LEMMA CompileApplyStep == ASSUME SheetsIInv, NEW p \in Pages, CompileApply(p) PROVE SheetsIInv'
<1>1. call[p] \in [kind : {"apply"}, sheet : Sheets, targets : SUBSET Machines]
  BY SavingCalls DEF CompileApply, SheetsIInv, SheetRowsOK
<1>2. CASE store[call[p].sheet] = Nil
  BY <1>2, EndOfRequest DEF CompileApply
<1>3. CASE store[call[p].sheet] # Nil
  <2> DEFINE c == [kind |-> "applying", sheet |-> call[p].sheet, targets |-> call[p].targets,
                   snapshot |-> store[call[p].sheet]]
  <2>1. c \in Calls
    BY <1>1, <1>3 DEF Calls, SheetsIInv, SheetRowsOK, OrNil
  <2>2. QED
    BY <1>3, <2>1, RequestStep DEF CompileApply, Become, Saving
<1>4. QED
  BY <1>2, <1>3

\* A failed deployment or another change of what is deployed is none of the sheets.
LEMMA SheetsUntouched ==
  ASSUME SheetsIInv, UNCHANGED <<store, lives, commits, list, editor, call, replaced>>
  PROVE  SheetsIInv'
BY DEF SheetsIInv, SheetRowsOK, StoredIsOfLastLife, SheetCopiesKnown, SheetKnown, NoLostEdit

(***************************************************************************)
(* Steps that change a stored sheet.                                       *)
(***************************************************************************)
LEMMA DeleteStep ==
  ASSUME SheetsIInv, NEW p \in Pages, NEW s \in Sheets, Delete(p, s) PROVE SheetsIInv'
<1>1. /\ store' = [store EXCEPT ![s] = Nil] /\ list' = [list EXCEPT ![p] = store']
      /\ UNCHANGED <<lives, commits, editor, call, replaced>>
  BY DEF Delete
<1>2. SheetRowsOK' /\ StoredIsOfLastLife' /\ NoLostEdit'
  BY <1>1 DEF SheetsIInv, SheetRowsOK, StoredIsOfLastLife, NoLostEdit, OrNil
<1>3. ASSUME NEW v, NEW t \in Sheets, SheetKnown(v, t)
      PROVE  v # Nil => v.life <= lives'[t] /\
               (store'[t] # Nil /\ v.life = lives'[t] =>
                  v.version <= store'[t].version /\ (v.version = store'[t].version => v = store'[t]))
  BY <1>1, <1>3 DEF SheetKnown, SheetsIInv, SheetRowsOK
<1>4. ASSUME NEW q \in Pages
      PROVE  /\ \A t \in Sheets : SheetKnown(list[q][t], t)'
             /\ editor'[q] # Nil => SheetKnown(editor[q].base, editor[q].sheet)'
             /\ Saving(call'[q]) => SheetKnown(call[q].base, call[q].sheet)'
  <2>1. ASSUME NEW t \in Sheets PROVE SheetKnown(list[q][t], t)'
    <3>1. list'[q][t] \in {list[q][t], store[t], Nil}
      BY <1>1 DEF SheetsIInv, SheetRowsOK
    <3>2. SheetKnown(list[q][t], t) /\ SheetKnown(store[t], t)
      BY StoredSheetIsKnown DEF SheetsIInv, SheetCopiesKnown
    <3>3. QED
      BY <1>3, <3>1, <3>2 DEF SheetKnown
  <2>2. editor'[q] # Nil => SheetKnown(editor[q].base, editor[q].sheet)'
    <3>1. editor'[q] = editor[q] /\ (editor[q] # Nil => editor[q].sheet \in Sheets)
      BY <1>1 DEF SheetsIInv, SheetRowsOK, OrNil, EditorsOpen
    <3>2. QED
      BY <1>3, <3>1 DEF SheetKnown, SheetsIInv, SheetCopiesKnown
  <2>3. Saving(call'[q]) => SheetKnown(call[q].base, call[q].sheet)'
    <3>1. call'[q] = call[q] /\ (Saving(call[q]) => call[q].sheet \in Sheets)
      BY <1>1, SavingCalls DEF SheetsIInv, SheetRowsOK
    <3>2. QED
      BY <1>3, <3>1 DEF SheetKnown, SheetsIInv, SheetCopiesKnown
  <2>4. QED
    BY <2>1, <2>2, <2>3
<1>5. SheetCopiesKnown'
  BY <1>4 DEF SheetCopiesKnown, Saving
<1>6. QED
  BY <1>2, <1>5 DEF SheetsIInv

\* What is written is newer than everything anybody knows of the sheet.
LEMMA WrittenIsNewer ==
  ASSUME SheetsIInv, NEW c, c.sheet \in Sheets, c.base \in OrNil(Rows),
         Inserts(c) \/ Replaces(c)
  PROVE  /\ Written(c) \in Rows
         /\ Written(c).life = IF Inserts(c) THEN lives[c.sheet] + 1 ELSE lives[c.sheet]
         /\ ~Inserts(c) => Written(c).version = store[c.sheet].version + 1
<1>1. CASE Inserts(c)
  BY <1>1 DEF Written, SheetsIInv, SheetRowsOK, Rows
<1>2. CASE ~Inserts(c)
  <2>1. store[c.sheet] \in Rows /\ store[c.sheet].life = lives[c.sheet]
    BY <1>2 DEF Inserts, SheetsIInv, SheetRowsOK, StoredIsOfLastLife, OrNil
  <2>2. Written(c) = [life |-> store[c.sheet].life, version |-> store[c.sheet].version + 1,
                      draft |-> commits + 1]
    BY <1>2 DEF Written
  <2>3. QED
    BY <1>2, <2>1, <2>2 DEF SheetsIInv, SheetRowsOK, Rows
<1>3. QED
  BY <1>1, <1>2

LEMMA CommitStep == ASSUME SheetsIInv, NEW p \in Pages, Commit(p) PROVE SheetsIInv'
<1> DEFINE c == call[p]
           s == call[p].sheet
           w == Written(call[p])
<1>1. /\ c.kind = "compiled"
      /\ Inserts(c) \/ Replaces(c)
      /\ commits' = commits + 1
      /\ store' = [store EXCEPT ![s] = w]
      /\ lives' = [lives EXCEPT ![s] = IF Inserts(c) THEN @ + 1 ELSE @]
      /\ replaced' = [replaced EXCEPT ![s] = [old |-> store[s], base |-> c.base]]
      /\ call' = [call EXCEPT ![p] = [kind |-> "saved", sheet |-> s]]
      /\ UNCHANGED <<list, editor>>
  BY DEF Commit, Allowed, Become
<1>2. s \in Sheets /\ c.base \in OrNil(Rows) /\ Saving(c) /\ SheetKnown(c.base, s)
  BY <1>1, SavingCalls DEF SheetsIInv, SheetRowsOK, SheetCopiesKnown, Saving
<1>3. /\ w \in Rows /\ w.life = (IF Inserts(c) THEN lives[s] + 1 ELSE lives[s])
      /\ ~Inserts(c) => w.version = store[s].version + 1
  BY <1>1, <1>2, WrittenIsNewer
<1>4. [kind |-> "saved", sheet |-> s] \in Calls
  BY <1>2 DEF Calls
<1> HIDE DEF w
<1>5. SheetRowsOK'
  BY <1>1, <1>2, <1>3, <1>4 DEF SheetsIInv, SheetRowsOK, OrNil
<1>6. StoredIsOfLastLife'
  <2>1. store'[s] = w /\ lives'[s] = w.life
    BY <1>1, <1>2, <1>3 DEF SheetsIInv, SheetRowsOK
  <2>2. \A t \in Sheets : t # s => store'[t] = store[t] /\ lives'[t] = lives[t]
    BY <1>1, <1>2 DEF SheetsIInv, SheetRowsOK
  <2>3. QED
    BY <2>1, <2>2 DEF SheetsIInv, StoredIsOfLastLife
<1>7. NoLostEdit'
  <2>1. /\ replaced'[s].old = store[s] /\ replaced'[s].base = c.base
        /\ \A t \in Sheets : t # s => replaced'[t] = replaced[t]
    BY <1>1, <1>2 DEF SheetsIInv, SheetRowsOK
  <2>2. store[s] # Nil /\ c.base # Nil /\ c.base.life = store[s].life => c.base = store[s]
    BY <1>1, <1>2 DEF SheetKnown, Inserts, Replaces, SheetsIInv, StoredIsOfLastLife
  <2>3. QED
    BY <2>1, <2>2 DEF SheetsIInv, NoLostEdit
<1>8. ASSUME NEW v \in OrNil(Rows), NEW t \in Sheets, SheetKnown(v, t)
      PROVE  v # Nil => v.life <= lives'[t] /\
               (store'[t] # Nil /\ v.life = lives'[t] =>
                  v.version <= store'[t].version /\ (v.version = store'[t].version => v = store'[t]))
  <2>1. CASE t # s
    BY <1>1, <1>8, <2>1 DEF SheetKnown, SheetsIInv, SheetRowsOK
  <2>2. CASE t = s /\ Inserts(c) /\ v # Nil
    <3>1. v \in Rows /\ v.life <= lives[s] /\ lives'[s] = lives[s] + 1 /\ lives[s] \in Nat
      BY <1>1, <1>2, <1>8, <2>2 DEF SheetKnown, SheetsIInv, SheetRowsOK, OrNil
    <3>2. QED
      BY <2>2, <3>1 DEF Rows
  <2>3. CASE t = s /\ ~Inserts(c) /\ v # Nil
    <3>1. /\ v \in Rows /\ store[s] \in Rows /\ lives'[s] = lives[s] /\ store'[s] = w
          /\ v.life <= lives[s] /\ (v.life = lives[s] => v.version <= store[s].version)
      BY <1>1, <1>2, <1>8, <2>3 DEF SheetKnown, SheetsIInv, SheetRowsOK, OrNil, Inserts
    <3>2. QED
      BY <1>3, <2>3, <3>1 DEF Rows
  <2>4. QED
    BY <2>1, <2>2, <2>3
<1>9. ASSUME NEW q \in Pages
      PROVE  /\ \A t \in Sheets : SheetKnown(list[q][t], t)'
             /\ editor'[q] # Nil => SheetKnown(editor[q].base, editor[q].sheet)'
             /\ Saving(call'[q]) => SheetKnown(call[q].base, call[q].sheet)'
  <2>1. ASSUME NEW t \in Sheets PROVE SheetKnown(list[q][t], t)'
    <3>1. list'[q][t] = list[q][t] /\ list[q][t] \in OrNil(Rows) /\ SheetKnown(list[q][t], t)
      BY <1>1 DEF SheetsIInv, SheetRowsOK, SheetCopiesKnown
    <3>2. QED
      BY <1>8, <3>1 DEF SheetKnown
  <2>2. editor'[q] # Nil => SheetKnown(editor[q].base, editor[q].sheet)'
    <3>1. /\ editor'[q] = editor[q]
          /\ editor[q] # Nil => editor[q].sheet \in Sheets /\ editor[q].base \in OrNil(Rows)
      BY <1>1 DEF SheetsIInv, SheetRowsOK, OrNil, EditorsOpen
    <3>2. QED
      BY <1>8, <3>1 DEF SheetKnown, SheetsIInv, SheetCopiesKnown
  <2>3. Saving(call'[q]) => SheetKnown(call[q].base, call[q].sheet)'
    <3>1. CASE q = p
      BY <1>1, <3>1 DEF Saving, SheetsIInv, SheetRowsOK
    <3>2. CASE q # p
      <4>1. /\ call'[q] = call[q]
            /\ Saving(call[q]) => call[q].sheet \in Sheets /\ call[q].base \in OrNil(Rows)
        BY <1>1, <3>2, SavingCalls DEF SheetsIInv, SheetRowsOK
      <4>2. QED
        BY <1>8, <4>1 DEF SheetKnown, SheetsIInv, SheetCopiesKnown
    <3>3. QED
      BY <3>1, <3>2
  <2>4. QED
    BY <2>1, <2>2, <2>3
<1>10. SheetCopiesKnown'
  BY <1>9 DEF SheetCopiesKnown, Saving
<1>11. QED
  BY <1>5, <1>6, <1>7, <1>10 DEF SheetsIInv
-----------------------------------------------------------------------------
LEMMA SheetsNextIInv == SheetsIInv /\ [SheetsNext]_sheetVars => SheetsIInv'
<1>1. SheetsIInv /\ UNCHANGED sheetVars => SheetsIInv'
  BY SheetsUntouched DEF sheetVars
<1>2. ASSUME SheetsIInv, NEW m \in Machines, NEW n \in 1..MaxDeploys, Fail(m, n)
      PROVE  SheetsIInv'
  BY <1>2, SheetsUntouched DEF Fail
<1>3. QED
  BY <1>1, <1>2, RefreshStep, OpenEditorStep, CloseEditorStep, SaveStep, ApplyStep, DeleteStep,
     ReadTargetsStep, CompileStep, CommitStep, RefuseStep, AnswerStep, NoAnswerStep,
     CompileApplyStep, EnqueueApplyStep
  DEF SheetsNext

LEMMA SheetsKeepIInv == SheetsSpec => []SheetsIInv
BY SheetsInitIInv, SheetsNextIInv, PTL DEF SheetsSpec

\* The row a save replaces is the one its editor was filled from: of one life of a sheet, a
\* version is one row, by SheetCopiesKnown.
THEOREM EditsAreNotLost == SheetsSpec => []NoLostEdit
<1>1. SheetsIInv => NoLostEdit
  BY DEF SheetsIInv
<1>2. QED
  BY <1>1, SheetsKeepIInv, PTL
-----------------------------------------------------------------------------
(***************************************************************************)
(* Versions and roll-outs.                                                 *)
(***************************************************************************)
Applying(c) == c.kind = "applying"

OnPage(v, s, p) ==
  \/ v = list[p][s]
  \/ editor[p] # Nil /\ editor[p].sheet = s /\ v = editor[p].base
  \/ Saving(call[p]) /\ call[p].sheet = s /\ v = call[p].base
  \/ Applying(call[p]) /\ call[p].sheet = s /\ v = call[p].snapshot

RolledOut(v, s) ==
  \E m \in Machines : \E n \in DOMAIN deployed[m] :
    deployed[m][n].sheet = s /\ deployed[m][n].row = v

IsRow(v, s) ==
  v \in {store[s], replaced[s].old} \/ (\E p \in Pages : OnPage(v, s, p)) \/ RolledOut(v, s)

\* No row is newer than the stored one.
RowsAreOld ==
  \A s \in Sheets : \A v : IsRow(v, s) /\ v # Nil =>
    /\ v \in Rows /\ 1 <= v.life /\ v.life <= lives[s]
    /\ store[s] # Nil /\ v.life = 1 /\ lives[s] = 1 => v.version <= store[s].version

DraftsAgree ==
  \A s \in Sheets : \A r, t :
    IsRow(r, s) /\ IsRow(t, s) /\ r # Nil /\ t # Nil /\ r.life = 1 /\ t.life = 1
      /\ r.version = t.version => r.draft = t.draft

\* Keys were used for versions that are stored, so the next one is free.
KeysAreOld ==
  \A u \in keys : \A s \in Sheets : u.key.sheet = s =>
    /\ lives[s] >= 1 /\ u.key.version \in Nat
    /\ lives[s] = 1 /\ store[s] # Nil => u.key.version <= store[s].version

CompiledFromBase ==
  \A p \in Pages : call[p].kind = "compiled" /\ call[p].targets # {} => call[p].base # Nil

DeploymentsOK ==
  deployed \in [Machines -> Seq(Deployments)]

VersionsIInv ==
  SheetsIInv /\ DeploymentsOK /\ CompiledFromBase /\ RowsAreOld /\ DraftsAgree /\ KeysAreOld

LEMMA VersionsInitIInv == SheetsInit => VersionsIInv
<1> SUFFICES ASSUME SheetsInit PROVE VersionsIInv
  OBVIOUS
<1>1. /\ \A s \in Sheets : \/ store[s] = Nil /\ lives[s] = 0
                           \/ store[s] = [life |-> 1, version |-> 1, draft |-> 0] /\ lives[s] = 1
      /\ list = [p \in Pages |-> store] /\ editor = [p \in Pages |-> Nil]
      /\ call = [p \in Pages |-> Idle] /\ deployed = [m \in Machines |-> <<>>] /\ keys = {}
      /\ replaced = [s \in Sheets |-> [old |-> Nil, base |-> Nil]]
  BY DEF SheetsInit
<1>2. \A s \in Sheets : \A v : IsRow(v, s) => v \in {Nil, store[s]}
  BY <1>1 DEF IsRow, OnPage, RolledOut, Saving, Applying, Idle
<1>3. RowsAreOld
  BY <1>1, <1>2 DEF RowsAreOld, Rows
<1>4. DraftsAgree
  BY <1>2 DEF DraftsAgree
<1>5. KeysAreOld /\ CompiledFromBase
  BY <1>1 DEF KeysAreOld, CompiledFromBase, Idle
<1>6. DeploymentsOK
  BY <1>1 DEF DeploymentsOK
<1>7. QED
  BY <1>3, <1>4, <1>5, <1>6, SheetsInitIInv DEF VersionsIInv

\* Steps that commit nothing: what rows there are were there before.
LEMMA NoNewRows ==
  ASSUME VersionsIInv, SheetsIInv', DeploymentsOK', CompiledFromBase', UNCHANGED <<lives, keys>>,
         \A s \in Sheets : store'[s] \in {Nil, store[s]},
         \A s \in Sheets : \A v : IsRow(v, s)' /\ v # Nil => IsRow(v, s)
  PROVE  VersionsIInv'
<1>1. RowsAreOld'
  BY DEF VersionsIInv, RowsAreOld
<1>2. DraftsAgree'
  BY DEF VersionsIInv, DraftsAgree
<1>3. KeysAreOld'
  BY DEF VersionsIInv, KeysAreOld
<1>4. QED
  BY <1>1, <1>2, <1>3 DEF VersionsIInv

\* A step of one page.
LEMMA PageAddsNoRow ==
  ASSUME VersionsIInv, SheetsIInv', NEW p \in Pages,
         UNCHANGED <<lives, keys, replaced, deployed>>,
         \A s \in Sheets : store'[s] \in {Nil, store[s]},
         \A q \in Pages \ {p} : /\ list'[q] = list[q] /\ editor'[q] = editor[q]
                                /\ call'[q] = call[q],
         call'[p].kind = "compiled" /\ call'[p].targets # {} => call'[p].base # Nil,
         \A s \in Sheets : \A v : OnPage(v, s, p)' /\ v # Nil => IsRow(v, s)
  PROVE  VersionsIInv'
<1>1. DeploymentsOK'
  BY DEF VersionsIInv, DeploymentsOK
<1>2. CompiledFromBase'
  BY DEF VersionsIInv, CompiledFromBase
<1>3. ASSUME NEW s \in Sheets, NEW v, IsRow(v, s)', v # Nil
      PROVE  IsRow(v, s)
  <2>1. CASE v \in {store'[s], replaced'[s].old}
    BY <1>3, <2>1 DEF IsRow
  <2>2. ASSUME NEW q \in Pages, OnPage(v, s, q)'
        PROVE  IsRow(v, s)
    <3>1. CASE q = p
      BY <1>3, <2>2, <3>1
    <3>2. CASE q # p
      BY <2>2, <3>2 DEF OnPage, IsRow, Saving, Applying
    <3>3. QED
      BY <3>1, <3>2
  <2>3. CASE RolledOut(v, s)'
    BY <2>3 DEF RolledOut, IsRow
  <2>4. QED
    BY <1>3, <2>1, <2>2, <2>3 DEF IsRow
<1>4. QED
  BY <1>1, <1>2, <1>3, NoNewRows

\* Only the request of the page changes, and carries a row that was on the page.
LEMMA RequestAddsNoRow ==
  ASSUME VersionsIInv, SheetsIInv', NEW p \in Pages, NEW c, Become(p, c),
         UNCHANGED <<store, lives, list, editor, keys, replaced, deployed>>,
         c.kind = "compiled" /\ c.targets # {} => c.base # Nil,
         Saving(c) => c.base = Nil \/ IsRow(c.base, c.sheet),
         Applying(c) => IsRow(c.snapshot, c.sheet)
  PROVE  VersionsIInv'
<1>1. call'[p] = c /\ \A q \in Pages \ {p} : call'[q] = call[q]
  BY DEF Become, VersionsIInv, SheetsIInv, SheetRowsOK
<1>2. ASSUME NEW s \in Sheets, NEW v, OnPage(v, s, p)', v # Nil
      PROVE  IsRow(v, s)
  BY <1>1, <1>2 DEF OnPage, IsRow, Saving, Applying
<1>3. QED
  BY <1>1, <1>2, PageAddsNoRow

LEMMA RequestEndsAddsNoRow ==
  ASSUME VersionsIInv, SheetsIInv', NEW p \in Pages, Become(p, Idle),
         UNCHANGED <<store, lives, list, editor, keys, replaced, deployed>>
  PROVE  VersionsIInv'
<1>1. Idle.kind # "compiled" /\ ~ Saving(Idle) /\ ~ Applying(Idle)
  BY DEF Idle, Saving, Applying
<1>2. QED
  BY <1>1, RequestAddsNoRow
LEMMA PageActionsAddNoRow ==
  ASSUME VersionsIInv, SheetsIInv', NEW p \in Pages,
         \/ Refresh(p) \/ CloseEditor(p) \/ Save(p) \/ ReadTargets(p) \/ Compile(p) \/ Refuse(p)
         \/ Answer(p) \/ NoAnswer(p) \/ CompileApply(p)
         \/ \E s \in Sheets : OpenEditor(p, s) \/ Delete(p, s)
         \/ \E s \in Sheets, targets \in SUBSET Machines : Apply(p, s, targets)
  PROVE  VersionsIInv'
<1>1. /\ list \in [Pages -> [Sheets -> OrNil(Rows)]] /\ editor \in [Pages -> OrNil(EditorsOpen)]
      /\ call \in [Pages -> Calls] /\ store \in [Sheets -> OrNil(Rows)] /\ CompiledFromBase
  BY DEF VersionsIInv, SheetsIInv, SheetRowsOK
<1>2. ASSUME list' = [list EXCEPT ![p] = store'], \A s \in Sheets : store'[s] \in {Nil, store[s]},
             \/ editor' = editor \/ editor' = [editor EXCEPT ![p] = Nil],
             \/ call' = call \/ call' = [call EXCEPT ![p] = Idle],
             UNCHANGED <<lives, keys, replaced, deployed>>
      PROVE  VersionsIInv'
  <2>1. \A q \in Pages \ {p} : list'[q] = list[q] /\ editor'[q] = editor[q] /\ call'[q] = call[q]
    BY <1>1, <1>2
  <2>2. /\ list'[p] = store' /\ editor'[p] \in {Nil, editor[p]} /\ call'[p] \in {Idle, call[p]}
        /\ Idle.kind # "compiled" /\ ~ Saving(Idle) /\ ~ Applying(Idle)
    BY <1>1, <1>2 DEF Idle, Saving, Applying
  <2>3. ASSUME NEW s \in Sheets, NEW v, OnPage(v, s, p)', v # Nil
        PROVE  IsRow(v, s)
    <3>1. v = store'[s] \/ OnPage(v, s, p)
      BY <2>2, <2>3 DEF OnPage, Saving, Applying
    <3>2. QED
      BY <1>2, <2>3, <3>1 DEF IsRow
  <2>4. call'[p].kind = "compiled" /\ call'[p].targets # {} => call'[p].base # Nil
    BY <1>1, <2>2 DEF CompiledFromBase
  <2>5. QED
    BY <1>2, <2>1, <2>3, <2>4, PageAddsNoRow
<1>3. CASE Refresh(p)
  BY <1>2, <1>3 DEF Refresh
<1>4. CASE Answer(p)
  BY <1>2, <1>4 DEF Answer, Become
<1>5. ASSUME NEW s \in Sheets, Delete(p, s)
      PROVE  VersionsIInv'
  <2>1. \A t \in Sheets : store'[t] \in {Nil, store[t]}
    BY <1>1, <1>5 DEF Delete
  <2>2. QED
    BY <1>2, <1>5, <2>1 DEF Delete
<1>6. ASSUME NEW e, e # Nil => e.sheet \in Sheets /\ e.base = list[p][e.sheet],
             editor' = [editor EXCEPT ![p] = e],
             UNCHANGED <<store, lives, list, call, keys, replaced, deployed>>
      PROVE  VersionsIInv'
  <2>1. /\ editor'[p] = e /\ \A q \in Pages \ {p} : editor'[q] = editor[q]
        /\ \A q \in Pages : list'[q] = list[q] /\ call'[q] = call[q]
    BY <1>1, <1>6
  <2>2. ASSUME NEW s \in Sheets, NEW v, OnPage(v, s, p)', v # Nil
        PROVE  IsRow(v, s)
    BY <1>6, <2>1, <2>2 DEF OnPage, IsRow, Saving, Applying
  <2>3. call'[p].kind = "compiled" /\ call'[p].targets # {} => call'[p].base # Nil
    BY <1>1, <2>1 DEF CompiledFromBase
  <2>4. QED
    BY <1>6, <2>1, <2>2, <2>3, PageAddsNoRow
<1>7. CASE CloseEditor(p)
  BY <1>6, <1>7 DEF CloseEditor
<1>8. ASSUME NEW s \in Sheets, OpenEditor(p, s)
      PROVE  VersionsIInv'
  BY <1>6, <1>8 DEF OpenEditor
<1>9. CASE Save(p)
  <2>1. CASE editor[p] # Nil
    <3> DEFINE c == [kind |-> "save", sheet |-> editor[p].sheet, base |-> editor[p].base]
    <3>1. Become(p, c) /\ UNCHANGED <<store, lives, list, editor, keys, replaced, deployed>>
      BY <1>9, <2>1 DEF Save
    <3>2. c.kind # "compiled" /\ ~ Applying(c) /\ IsRow(c.base, c.sheet)
      BY <2>1 DEF Applying, IsRow, OnPage
    <3> HIDE DEF c
    <3>3. QED
      BY <3>1, <3>2, RequestAddsNoRow
  <2>2. CASE editor[p] = Nil
    <3>1. PICK s \in Sheets : Become(p, [kind |-> "save", sheet |-> s, base |-> Nil])
      BY <1>9, <2>2 DEF Save
    <3>2. UNCHANGED <<store, lives, list, editor, keys, replaced, deployed>>
      BY <1>9 DEF Save
    <3>3. QED
      BY <3>1, <3>2, RequestAddsNoRow DEF Applying
  <2>3. QED
    BY <2>1, <2>2
<1>10. CASE ReadTargets(p)
  <2> DEFINE c == [kind |-> "targets", sheet |-> call[p].sheet, base |-> call[p].base,
                   targets |-> Linked(call[p].sheet)]
  <2>1. Become(p, c) /\ UNCHANGED <<store, lives, list, editor, keys, replaced, deployed>>
    BY <1>10 DEF ReadTargets
  <2>2. c.kind # "compiled" /\ ~ Applying(c) /\ IsRow(c.base, c.sheet)
    BY <1>10 DEF ReadTargets, Applying, IsRow, OnPage, Saving
  <2> HIDE DEF c
  <2>3. QED
    BY <2>1, <2>2, RequestAddsNoRow
<1>11. CASE Compile(p)
  <2> DEFINE c == [call[p] EXCEPT !.kind = "compiled"]
  <2>1. UNCHANGED <<store, lives, list, editor, keys, replaced, deployed>>
    BY <1>11 DEF Compile
  <2>2. call[p] \in [kind : {"targets", "compiled"}, sheet : Sheets, base : OrNil(Rows),
                     targets : SUBSET Machines]
    BY <1>1, <1>11, SavingCalls DEF Compile
  <2>3. /\ c.kind = "compiled" /\ c.base = call[p].base /\ c.sheet = call[p].sheet
        /\ c.targets = call[p].targets /\ IsRow(c.base, c.sheet)
    BY <1>11, <2>2 DEF Compile, IsRow, OnPage, Saving
  <2>4. Become(p, Idle) \/ (Become(p, c) /\ (c.targets # {} => c.base # Nil))
    BY <1>11, <2>3 DEF Compile
  <2> HIDE DEF c
  <2>5. QED
    BY <2>1, <2>3, <2>4, RequestAddsNoRow, RequestEndsAddsNoRow DEF Applying
<1>12. CASE Refuse(p) \/ NoAnswer(p)
  BY <1>12, RequestEndsAddsNoRow DEF Refuse, NoAnswer
<1>13. CASE CompileApply(p)
  <2> DEFINE c == [kind |-> "applying", sheet |-> call[p].sheet, targets |-> call[p].targets,
                   snapshot |-> store[call[p].sheet]]
  <2>1. /\ UNCHANGED <<store, lives, list, editor, keys, replaced, deployed>>
        /\ Become(p, Idle) \/ Become(p, c)
    BY <1>13 DEF CompileApply
  <2>2. c.kind # "compiled" /\ ~ Saving(c) /\ IsRow(c.snapshot, c.sheet)
    BY DEF Saving, IsRow
  <2> HIDE DEF c
  <2>3. QED
    BY <2>1, <2>2, RequestAddsNoRow, RequestEndsAddsNoRow
<1>14. ASSUME NEW s \in Sheets, NEW targets \in SUBSET Machines, Apply(p, s, targets)
       PROVE  VersionsIInv'
  <2>1. /\ Become(p, [kind |-> "apply", sheet |-> s, targets |-> targets])
        /\ UNCHANGED <<store, lives, list, editor, keys, replaced, deployed>>
    BY <1>14 DEF Apply
  <2>2. QED
    BY <2>1, RequestAddsNoRow DEF Saving, Applying
<1>15. QED
  BY <1>3, <1>4, <1>5, <1>7, <1>8, <1>9, <1>10, <1>11, <1>12, <1>13, <1>14

\* What is deployed after a roll-out, or after one failed.
LEMMA EnqueueDeploys ==
  ASSUME DeploymentsOK, NEW targets \in SUBSET Machines, NEW s \in Sheets, NEW row \in Rows,
         Enqueue(targets, s, row)
  PROVE  /\ DeploymentsOK'
         /\ \A t, v : RolledOut(v, t)' => RolledOut(v, t) \/ (t = s /\ v = row)
<1> DEFINE d == [sheet |-> s, row |-> row, failed |-> FALSE]
<1>1. d \in Deployments /\ d.sheet = s /\ d.row = row
  BY DEF Deployments
<1>2. /\ \A m \in Machines : deployed[m] \in Seq(Deployments)
      /\ deployed' = [m \in Machines |-> IF m \in targets THEN Append(deployed[m], d) ELSE deployed[m]]
  BY DEF DeploymentsOK, Enqueue, Deployment
<1> HIDE DEF d
<1>3. ASSUME NEW m \in Machines
      PROVE  /\ deployed'[m] \in Seq(Deployments)
             /\ \A n \in DOMAIN deployed'[m] :
                  \/ n \in DOMAIN deployed[m] /\ deployed'[m][n] = deployed[m][n]
                  \/ deployed'[m][n] = d
  BY <1>1, <1>2
<1>4. DeploymentsOK'
  BY <1>2, <1>3 DEF DeploymentsOK
<1>5. ASSUME NEW t, NEW v, RolledOut(v, t)'
      PROVE  RolledOut(v, t) \/ (t = s /\ v = row)
  <2>1. PICK m \in Machines : \E n \in DOMAIN deployed'[m] :
          deployed'[m][n].sheet = t /\ deployed'[m][n].row = v
    BY <1>5 DEF RolledOut
  <2>2. QED
    BY <1>1, <1>3, <2>1 DEF RolledOut
<1>6. QED
  BY <1>4, <1>5

LEMMA EnqueueApplyAddsNoRow ==
  ASSUME VersionsIInv, SheetsIInv', NEW p \in Pages, EnqueueApply(p)
  PROVE  VersionsIInv'
<1> DEFINE c == call[p]
<1>1. /\ c \in [kind : {"applying"}, sheet : Sheets, targets : SUBSET Machines, snapshot : Rows]
      /\ Enqueue(c.targets, c.sheet, c.snapshot) /\ call' = [call EXCEPT ![p] = Idle]
      /\ UNCHANGED <<store, lives, commits, list, editor, keys, replaced>>
  BY DEF EnqueueApply, Become, VersionsIInv, SheetsIInv, SheetRowsOK, Calls, Idle
<1>2. /\ call'[p] = Idle /\ \A q \in Pages \ {p} : call'[q] = call[q]
      /\ Idle.kind # "compiled" /\ ~ Saving(Idle) /\ ~ Applying(Idle)
  BY <1>1 DEF VersionsIInv, SheetsIInv, SheetRowsOK, Idle, Saving, Applying
<1>3. /\ DeploymentsOK'
      /\ \A t, v : RolledOut(v, t)' => RolledOut(v, t) \/ (t = c.sheet /\ v = c.snapshot)
  BY <1>1, EnqueueDeploys DEF VersionsIInv
<1>4. IsRow(c.snapshot, c.sheet)
  BY <1>1 DEF IsRow, OnPage, Applying
<1>5. ASSUME NEW s \in Sheets, NEW v, IsRow(v, s)'
      PROVE  IsRow(v, s)
  <2>1. ASSUME NEW q \in Pages, OnPage(v, s, q)' PROVE IsRow(v, s)
    BY <1>1, <1>2, <2>1 DEF OnPage, IsRow, Saving, Applying
  <2>2. QED
    BY <1>1, <1>3, <1>4, <1>5, <2>1 DEF IsRow
<1>6. CompiledFromBase'
  BY <1>2 DEF VersionsIInv, CompiledFromBase
<1>7. QED
  BY <1>1, <1>3, <1>5, <1>6, NoNewRows

LEMMA FailAddsNoRow ==
  ASSUME VersionsIInv, SheetsIInv', NEW m \in Machines, NEW n \in Nat, Fail(m, n)
  PROVE  VersionsIInv'
<1>1. /\ n \in DOMAIN deployed[m] /\ deployed[m] \in Seq(Deployments)
      /\ deployed' = [deployed EXCEPT ![m] = [deployed[m] EXCEPT ![n] = [@ EXCEPT !.failed = TRUE]]]
      /\ UNCHANGED <<store, lives, commits, list, editor, call, keys, replaced>>
  BY DEF Fail, VersionsIInv, DeploymentsOK
<1> DEFINE d == [deployed[m][n] EXCEPT !.failed = TRUE]
<1>2. d \in Deployments /\ d.sheet = deployed[m][n].sheet /\ d.row = deployed[m][n].row
  <2>1. deployed[m][n] \in Deployments
    BY <1>1
  <2>2. QED
    BY <2>1 DEF Deployments
<1>3. deployed' = [deployed EXCEPT ![m] = [deployed[m] EXCEPT ![n] = d]]
  BY <1>1
<1> HIDE DEF d
<1>4. /\ DOMAIN [deployed[m] EXCEPT ![n] = d] = DOMAIN deployed[m]
      /\ [deployed[m] EXCEPT ![n] = d] \in Seq(Deployments)
      /\ \A i \in DOMAIN deployed[m] :
           [deployed[m] EXCEPT ![n] = d][i] = IF i = n THEN d ELSE deployed[m][i]
  BY <1>1, <1>2
<1>5. DeploymentsOK'
  BY <1>3, <1>4 DEF VersionsIInv, DeploymentsOK
<1>6. ASSUME NEW s, NEW v, RolledOut(v, s)'
      PROVE  RolledOut(v, s)
  <2>1. PICK k \in Machines : \E i \in DOMAIN deployed'[k] :
          deployed'[k][i].sheet = s /\ deployed'[k][i].row = v
    BY <1>6 DEF RolledOut
  <2>2. CASE k = m
    <3>1. deployed'[k] = [deployed[m] EXCEPT ![n] = d]
      BY <1>3, <2>2 DEF VersionsIInv, DeploymentsOK
    <3>2. QED
      BY <1>2, <1>4, <2>1, <2>2, <3>1 DEF RolledOut
  <2>3. CASE k # m
    <3>1. deployed'[k] = deployed[k]
      BY <1>3, <2>3 DEF VersionsIInv, DeploymentsOK
    <3>2. QED
      BY <2>1, <3>1 DEF RolledOut
  <2>4. QED
    BY <2>2, <2>3
<1>7. ASSUME NEW s \in Sheets, NEW v, IsRow(v, s)'
      PROVE  IsRow(v, s)
  BY <1>1, <1>6, <1>7 DEF IsRow, OnPage, Saving, Applying
<1>8. CompiledFromBase'
  BY <1>1 DEF VersionsIInv, CompiledFromBase
<1>9. QED
  BY <1>1, <1>5, <1>7, <1>8, NoNewRows
\* What a commit writes, and what it rolls out: the same, unless the sheet was deleted meanwhile.
LEMMA CommitWrites ==
  ASSUME VersionsIInv, NEW p \in Pages, Commit(p)
  PROVE  /\ call[p].sheet \in Sheets /\ call[p].base \in OrNil(Rows)
         /\ call[p].targets \in SUBSET Machines /\ call[p].targets = Linked(call[p].sheet)
         /\ Written(call[p]) \in Rows
         /\ Inserts(call[p]) => Written(call[p]).life = lives[call[p].sheet] + 1
         /\ ~ Inserts(call[p]) =>
              /\ store[call[p].sheet] \in Rows /\ store[call[p].sheet].life = lives[call[p].sheet]
              /\ Written(call[p]).life = lives[call[p].sheet]
              /\ Written(call[p]).version = store[call[p].sheet].version + 1
         /\ call[p].targets # {} =>
              /\ call[p].base \in Rows /\ lives[call[p].sheet] >= 1
              /\ Snapshot(call[p]) \in Rows /\ Snapshot(call[p]).life = Written(call[p]).life
              /\ ~ Inserts(call[p]) =>
                   /\ Snapshot(call[p]) = Written(call[p])
                   /\ call[p].base.version = store[call[p].sheet].version
<1> DEFINE c == call[p]
           s == call[p].sheet
<1>1. c.kind = "compiled" /\ Allowed(p, c) /\ SheetsIInv
  BY DEF Commit, VersionsIInv
<1>2. /\ c \in [kind : {"targets", "compiled"}, sheet : Sheets, base : OrNil(Rows),
                targets : SUBSET Machines]
      /\ Inserts(c) \/ Replaces(c)
  BY <1>1, SavingCalls DEF SheetsIInv, SheetRowsOK, Allowed
<1>3. /\ Written(c) \in Rows
      /\ Written(c).life = IF Inserts(c) THEN lives[s] + 1 ELSE lives[s]
      /\ ~ Inserts(c) => Written(c).version = store[s].version + 1
  BY <1>1, <1>2, WrittenIsNewer
<1>4. ~ Inserts(c) => store[s] \in Rows /\ store[s].life = lives[s]
  BY <1>1, <1>2 DEF Inserts, SheetsIInv, SheetRowsOK, StoredIsOfLastLife, OrNil
<1>5. ASSUME c.targets # {}
      PROVE  /\ c.base \in Rows /\ lives[s] >= 1
             /\ Snapshot(c) \in Rows /\ Snapshot(c).life = Written(c).life
             /\ ~ Inserts(c) => Snapshot(c) = Written(c) /\ c.base.version = store[s].version
  <2>1. c.base \in Rows /\ c.base # Nil
    BY <1>1, <1>2, <1>5 DEF VersionsIInv, CompiledFromBase, OrNil
  <2>2. IsRow(c.base, s)
    BY <1>1 DEF IsRow, OnPage, Saving
  <2>3. lives[s] >= 1
    <3>1. 1 <= c.base.life /\ c.base.life <= lives[s] /\ lives[s] \in Nat /\ c.base.life \in Nat
      BY <1>1, <1>2, <2>1, <2>2 DEF VersionsIInv, RowsAreOld, SheetsIInv, SheetRowsOK, Rows
    <3>2. QED
      BY <3>1
  <2>4. Snapshot(c) = [life |-> Written(c).life, version |-> c.base.version + 1,
                       draft |-> Written(c).draft]
    BY DEF Snapshot
  <2>5. Snapshot(c) \in Rows /\ Snapshot(c).life = Written(c).life
    BY <1>3, <2>1, <2>4 DEF Rows
  <2>6. ASSUME ~ Inserts(c)
        PROVE  Snapshot(c) = Written(c) /\ c.base.version = store[s].version
    <3>1. c.base.version = store[s].version
      BY <1>2, <2>6 DEF Replaces
    <3>2. Written(c).version = c.base.version + 1
      BY <1>3, <2>6, <3>1
    <3>3. QED
      BY <1>3, <2>4, <3>1, <3>2 DEF Rows
  <2>7. QED
    BY <2>1, <2>3, <2>5, <2>6
<1>6. c.targets = Linked(s)
  BY <1>1 DEF Allowed
<1>7. QED
  BY <1>2, <1>3, <1>4, <1>5, <1>6

LEMMA CommitKeepsVersions ==
  ASSUME VersionsIInv, SheetsIInv', NEW p \in Pages, Commit(p)
  PROVE  VersionsIInv'
<1> DEFINE c == call[p]
           s == call[p].sheet
           w == Written(call[p])
           sn == Snapshot(call[p])
<1>1. /\ store' = [store EXCEPT ![s] = w]
      /\ lives' = [lives EXCEPT ![s] = IF Inserts(c) THEN @ + 1 ELSE @]
      /\ replaced' = [replaced EXCEPT ![s] = [old |-> store[s], base |-> c.base]]
      /\ call' = [call EXCEPT ![p] = [kind |-> "saved", sheet |-> s]]
      /\ UNCHANGED <<list, editor>>
      /\ \/ c.targets # {} /\ Enqueue(c.targets, s, sn)
            /\ keys' = keys \cup {[key |-> Key(p, c), targets |-> c.targets]}
         \/ UNCHANGED <<deployed, keys>>
  BY DEF Commit, Become
<1>2. /\ s \in Sheets /\ c.targets \in SUBSET Machines /\ w \in Rows
      /\ Inserts(c) => w.life = lives[s] + 1
      /\ ~ Inserts(c) =>
           /\ store[s] \in Rows /\ store[s].life = lives[s]
           /\ w.life = lives[s] /\ w.version = store[s].version + 1
      /\ c.targets # {} =>
           /\ c.base \in Rows /\ lives[s] >= 1 /\ sn \in Rows /\ sn.life = w.life
           /\ ~ Inserts(c) => sn = w /\ c.base.version = store[s].version
  BY CommitWrites
<1>3. /\ \A t \in Sheets : lives[t] \in Nat /\ lives'[t] \in Nat
      /\ store'[s] = w /\ lives'[s] = w.life
      /\ \A t \in Sheets \ {s} : store'[t] = store[t] /\ lives'[t] = lives[t]
      /\ \A t \in Sheets : replaced'[t].old \in {replaced[t].old, store[t]}
      /\ store \in [Sheets -> OrNil(Rows)]
  BY <1>1, <1>2 DEF VersionsIInv, SheetsIInv, SheetRowsOK
<1>4. /\ call'[p].kind = "saved" /\ \A q \in Pages \ {p} : call'[q] = call[q]
  BY <1>1 DEF VersionsIInv, SheetsIInv, SheetRowsOK
<1>5. /\ DeploymentsOK'
      /\ \A t, v : RolledOut(v, t)' => RolledOut(v, t) \/ (t = s /\ v = sn /\ c.targets # {})
  <2>1. CASE c.targets # {} /\ Enqueue(c.targets, s, sn)
    BY <1>2, <2>1, EnqueueDeploys DEF VersionsIInv
  <2>2. CASE UNCHANGED <<deployed, keys>>
    BY <2>2 DEF VersionsIInv, DeploymentsOK, RolledOut
  <2>3. QED
    BY <1>1, <2>1, <2>2
<1>6. store[s] = Nil <=> Inserts(c)
  BY DEF Inserts
<1>7. Inserts(c) \/ Replaces(c)
  BY DEF Commit, Allowed
<1> HIDE DEF w, sn
<1>8. ASSUME NEW t \in Sheets, NEW v, IsRow(v, t)', v # Nil
      PROVE  IsRow(v, t) \/ (t = s /\ (v = w \/ (v = sn /\ c.targets # {})))
  <2>1. CASE v \in {store'[t], replaced'[t].old}
    BY <1>3, <2>1 DEF IsRow
  <2>2. ASSUME NEW q \in Pages, OnPage(v, t, q)' PROVE IsRow(v, t)
    BY <1>1, <1>4, <2>2 DEF OnPage, IsRow, Saving, Applying
  <2>3. QED
    BY <1>5, <1>8, <2>1, <2>2 DEF IsRow
<1>9. RowsAreOld'
  <2>1. ASSUME NEW t \in Sheets, NEW v, IsRow(v, t)', v # Nil
        PROVE  /\ v \in Rows /\ 1 <= v.life /\ v.life <= lives'[t]
               /\ store'[t] # Nil /\ v.life = 1 /\ lives'[t] = 1 => v.version <= store'[t].version
    <3>1. IsRow(v, t) => /\ v \in Rows /\ v.life \in Nat /\ v.version \in Nat
                         /\ 1 <= v.life /\ v.life <= lives[t]
                         /\ store[t] # Nil /\ v.life = 1 /\ lives[t] = 1 =>
                              v.version <= store[t].version
      BY <2>1 DEF VersionsIInv, RowsAreOld, Rows
    <3>2. CASE IsRow(v, t) /\ t # s
      BY <1>3, <3>1, <3>2
    <3>3. CASE IsRow(v, t) /\ t = s /\ Inserts(c)
      BY <1>2, <1>3, <3>1, <3>3
    <3>4. CASE IsRow(v, t) /\ t = s /\ ~ Inserts(c)
      <4>1. store[s].version \in Nat /\ store[s] # Nil
        BY <1>2, <1>6, <3>4 DEF Rows
      <4>2. QED
        BY <1>2, <1>3, <3>1, <3>4, <4>1
    <3>5. CASE t = s /\ (v = w \/ (v = sn /\ c.targets # {}))
      <4>1. w.life \in Nat /\ w.life >= 1 /\ w.version \in Nat
        <5>1. CASE Inserts(c)
          BY <1>2, <1>3, <5>1 DEF Rows
        <5>2. CASE ~ Inserts(c)
          <6>1. IsRow(store[s], s) /\ store[s] # Nil
            BY <1>6, <5>2 DEF IsRow
          <6>2. QED
            BY <1>2, <5>2, <6>1 DEF VersionsIInv, RowsAreOld, Rows
        <5>3. QED
          BY <5>1, <5>2
      <4>2. QED
        BY <1>2, <1>3, <3>5, <4>1
    <3>6. QED
      BY <1>8, <2>1, <3>2, <3>3, <3>4, <3>5
  <2>2. QED
    BY <2>1 DEF RowsAreOld
<1>10. DraftsAgree'
  <2>1. ASSUME NEW t \in Sheets, NEW r, NEW v, IsRow(r, t), r # Nil, r.life = 1,
               t = s /\ (v = w \/ (v = sn /\ c.targets # {})), v.life = 1
        PROVE  r.version # v.version
    <3>1. r \in Rows /\ 1 <= lives[s] /\ (store[s] # Nil /\ lives[s] = 1 => r.version <= store[s].version)
      BY <1>2, <1>3, <2>1 DEF VersionsIInv, RowsAreOld, Rows
    <3>2. ~ Inserts(c)
      BY <1>2, <1>3, <2>1, <3>1
    <3>3. v = w /\ lives[s] = 1 /\ store[s].version \in Nat /\ r.version \in Nat
      BY <1>2, <2>1, <3>1, <3>2 DEF Rows
    <3>4. QED
      BY <1>2, <1>6, <3>1, <3>2, <3>3
  <2>2. ASSUME NEW v, v = sn /\ c.targets # {}, v.life = 1
        PROVE  v = w
    BY <1>2, <1>3, <2>2
  <2>3. ASSUME NEW t \in Sheets, NEW r, NEW v, IsRow(r, t)', IsRow(v, t)', r # Nil, v # Nil,
               r.life = 1, v.life = 1, r.version = v.version
        PROVE  r.draft = v.draft
    <3>1. CASE IsRow(r, t) /\ IsRow(v, t)
      BY <2>3, <3>1 DEF VersionsIInv, DraftsAgree
    <3>2. CASE ~ IsRow(r, t) /\ ~ IsRow(v, t)
      BY <1>8, <2>2, <2>3, <3>2
    <3>3. CASE IsRow(r, t) /\ ~ IsRow(v, t)
      BY <1>8, <2>1, <2>3, <3>3
    <3>4. CASE ~ IsRow(r, t) /\ IsRow(v, t)
      BY <1>8, <2>1, <2>3, <3>4
    <3>5. QED
      BY <3>1, <3>2, <3>3, <3>4
  <2>4. QED
    BY <2>3 DEF DraftsAgree
<1>11. KeysAreOld'
  <2>1. ASSUME NEW u \in keys', NEW t \in Sheets, u.key.sheet = t
        PROVE  /\ lives'[t] >= 1 /\ u.key.version \in Nat
               /\ lives'[t] = 1 /\ store'[t] # Nil => u.key.version <= store'[t].version
    <3>1. u \in keys \/ (u.key = Key(p, c) /\ c.targets # {})
      BY <1>1, <2>1
    <3>2. CASE u \in keys
      <4>1. /\ lives[t] >= 1 /\ u.key.version \in Nat
            /\ lives[t] = 1 /\ store[t] # Nil => u.key.version <= store[t].version
        BY <2>1, <3>2 DEF VersionsIInv, KeysAreOld
      <4>2. CASE t # s
        BY <1>3, <4>1, <4>2
      <4>3. CASE t = s /\ Inserts(c)
        BY <1>2, <1>3, <4>1, <4>3
      <4>4. CASE t = s /\ ~ Inserts(c)
        <5>1. store[s].version \in Nat /\ store[s] # Nil
          BY <1>2, <1>6, <4>4 DEF Rows
        <5>2. QED
          BY <1>2, <1>3, <4>1, <4>4, <5>1
      <4>5. QED
        BY <4>2, <4>3, <4>4
    <3>3. CASE u.key = Key(p, c) /\ c.targets # {}
      <4>1. u.key.sheet = s /\ u.key.version = c.base.version + 1 /\ c.base.version \in Nat
        BY <1>2, <3>3 DEF Key, Rows
      <4>2. QED
        BY <1>2, <1>3, <2>1, <3>3, <4>1
    <3>4. QED
      BY <3>1, <3>2, <3>3
  <2>2. QED
    BY <2>1 DEF KeysAreOld
<1>12. CompiledFromBase'
  BY <1>4 DEF VersionsIInv, CompiledFromBase
<1>13. QED
  BY <1>5, <1>9, <1>10, <1>11, <1>12 DEF VersionsIInv
LEMMA VersionsNextIInv == VersionsIInv /\ [SheetsNext]_sheetVars => VersionsIInv'
<1> SUFFICES ASSUME VersionsIInv, [SheetsNext]_sheetVars PROVE VersionsIInv'
  OBVIOUS
<1>1. SheetsIInv'
  BY SheetsNextIInv DEF VersionsIInv
<1>2. CASE UNCHANGED sheetVars
  BY <1>1, <1>2, NoNewRows
  DEF sheetVars, VersionsIInv, DeploymentsOK, CompiledFromBase, IsRow, OnPage, RolledOut, Saving, Applying
<1>3. ASSUME NEW m \in Machines, NEW n \in 1..MaxDeploys, Fail(m, n)
      PROVE  VersionsIInv'
  BY <1>1, <1>3, FailAddsNoRow, SheetsAssumption
<1>4. ASSUME NEW p \in Pages, Commit(p) \/ EnqueueApply(p)
      PROVE  VersionsIInv'
  BY <1>1, <1>4, CommitKeepsVersions, EnqueueApplyAddsNoRow
<1>5. QED
  BY <1>1, <1>2, <1>3, <1>4, PageActionsAddNoRow DEF SheetsNext

LEMMA SheetsKeepVersions == SheetsSpec => []VersionsIInv
BY VersionsInitIInv, VersionsNextIInv, PTL DEF SheetsSpec

\* A version is one content wherever it is seen: a commit writes above every version there is
\* (RowsAreOld), and what it rolls out is the row it writes.
THEOREM VersionsAreContents == SheetsSpec => []VersionNamesContent
<1>1. ASSUME VersionsIInv, NEW s \in Sheets, NEW v \in RowsOf(s)
      PROVE  IsRow(v, s) /\ v # Nil
  <2>1. ASSUME NEW m \in Machines, NEW d \in ToSet(deployed[m]), d.sheet = s
        PROVE  IsRow(d.row, s)
    BY <2>1 DEF ToSet, IsRow, RolledOut
  <2>2. QED
    BY <1>1, <2>1 DEF RowsOf, IsRow, OnPage, Saving, Applying
<1>2. VersionsIInv => VersionNamesContent
  BY <1>1 DEF VersionNamesContent, VersionsIInv, DraftsAgree
<1>3. QED
  BY <1>2, SheetsKeepVersions, PTL

\* A save reaches the machines in use: the transaction checks who they are, and the key of its
\* job is free, as keys were only used for versions that are stored (KeysAreOld).
THEOREM SavesReachUsers == SheetsSpec => SaveReachesUsers
<1>1. ASSUME VersionsIInv, [SheetsNext]_sheetVars, NEW s \in Sheets, NEW m \in Linked(s),
             store[s] # Nil, store'[s] \notin {Nil, store[s]}, lives'[s] = 1
      PROVE  Last(deployed'[m]).sheet = s /\ Last(deployed'[m]).row = store'[s]
  <2>1. PICK p \in Pages : Commit(p)
    <3>1. store # store' /\ store \in [Sheets -> OrNil(Rows)]
      BY <1>1 DEF VersionsIInv, SheetsIInv, SheetRowsOK
    <3>2. ASSUME NEW p \in Pages, NEW t \in Sheets, Delete(p, t)
          PROVE  FALSE
      BY <1>1, <3>1, <3>2 DEF Delete
    <3>3. QED
      BY <1>1, <3>1, <3>2
      DEF SheetsNext, sheetVars, Refresh, CloseEditor, Save, ReadTargets, Compile, Refuse, Answer,
          NoAnswer, CompileApply, EnqueueApply, OpenEditor, Apply, Fail
  <2> DEFINE c == call[p]
  <2>2. /\ c.sheet \in Sheets /\ c.targets \in SUBSET Machines /\ c.targets = Linked(c.sheet)
        /\ store' = [store EXCEPT ![c.sheet] = Written(c)]
        /\ lives' = [lives EXCEPT ![c.sheet] = IF Inserts(c) THEN @ + 1 ELSE @]
    BY <2>1, <1>1, CommitWrites DEF Commit
  <2>3. c.sheet = s /\ store'[s] = Written(c) /\ lives[s] = 1 /\ ~ Inserts(c) /\ m \in c.targets
    BY <1>1, <2>2 DEF VersionsIInv, SheetsIInv, SheetRowsOK, Inserts
  <2>4. /\ c.targets # {} /\ Snapshot(c) = Written(c) /\ Written(c) \in Rows
        /\ c.base.version = store[s].version /\ store[s] \in Rows
    BY <1>1, <2>1, <2>3, CommitWrites
  <2>5. ~ Used(Key(p, c))
    <3>1. ASSUME NEW u \in keys, u.key = Key(p, c)
          PROVE  FALSE
      <4>1. u.key.sheet = s /\ u.key.version = store[s].version + 1
        BY <2>3, <2>4, <3>1 DEF Key
      <4>2. u.key.version <= store[s].version /\ store[s].version \in Nat
        BY <1>1, <2>3, <2>4, <4>1 DEF VersionsIInv, KeysAreOld, Rows
      <4>3. QED
        BY <4>1, <4>2
    <3>2. QED
      BY <3>1 DEF Used
  <2>6. Enqueue(c.targets, s, Written(c))
    BY <2>1, <2>3, <2>4, <2>5 DEF Commit
  <2>7. deployed'[m] = Append(deployed[m], Deployment(s, Written(c))) /\ deployed[m] \in Seq(Deployments)
    BY <1>1, <2>2, <2>3, <2>6 DEF Enqueue, VersionsIInv, DeploymentsOK
  <2>8. Deployment(s, Written(c)) \in Deployments
    BY <2>4 DEF Deployment, Deployments
  <2>9. Last(deployed'[m]) = Deployment(s, Written(c))
    BY <2>7, <2>8 DEF Last
  <2>10. QED
    BY <2>3, <2>9 DEF Deployment
<1>2. VersionsIInv /\ [SheetsNext]_sheetVars =>
        [\A s \in Sheets :
           store[s] # Nil /\ store'[s] \notin {Nil, store[s]} /\ lives'[s] = 1 =>
             \A m \in Linked(s) : Last(deployed'[m]).sheet = s /\ Last(deployed'[m]).row = store'[s]]_sheetVars
  BY <1>1
<1>3. QED
  BY <1>2, SheetsKeepVersions, PTL DEF SheetsSpec, SaveReachesUsers

\* Keys name a page, a sheet and the version a save made.
KeysTyped ==
  \A k \in keys :
    k.key \in [page : Pages, sheet : Sheets, version : Nat] /\ k.targets \subseteq Machines

LEMMA CommitKeepsKeys ==
  ASSUME VersionsIInv, KeysTyped, NEW p \in Pages, Commit(p)
  PROVE  KeysTyped'
<1> DEFINE c == call[p]
           new == [key |-> Key(p, c), targets |-> c.targets]
<1>1. /\ c \in Calls /\ c.kind = "compiled"
      /\ c.targets # {} => c.base # Nil
  BY DEF Commit, VersionsIInv, SheetsIInv, SheetRowsOK, CompiledFromBase
<1>2. c.sheet \in Sheets /\ c.base \in OrNil(Rows) /\ c.targets \in SUBSET Machines
  BY <1>1, SavingCalls
<1>3. c.targets # {} => Key(p, c) \in [page : Pages, sheet : Sheets, version : Nat]
  BY <1>1, <1>2 DEF Key, OrNil, Rows
<1>4. new.key = Key(p, c) /\ new.targets = c.targets
  OBVIOUS
<1>5. \/ keys' = keys
      \/ (c.targets # {} /\ keys' = keys \cup {new})
  BY DEF Commit
<1> HIDE DEF new
<1>6. QED
  BY <1>2, <1>3, <1>4, <1>5 DEF KeysTyped

LEMMA NextKeepsKeys == VersionsIInv /\ KeysTyped /\ [SheetsNext]_sheetVars => KeysTyped'
<1> SUFFICES ASSUME VersionsIInv, KeysTyped, [SheetsNext]_sheetVars PROVE KeysTyped'
  OBVIOUS
<1>1. ASSUME NEW p \in Pages, Commit(p) PROVE KeysTyped'
  BY <1>1, CommitKeepsKeys
<1>2. ASSUME ~ \E p \in Pages : Commit(p) PROVE keys' = keys
  <2>1. ASSUME NEW p \in Pages,
               \/ Refresh(p) \/ CloseEditor(p) \/ Save(p) \/ ReadTargets(p) \/ Compile(p)
               \/ Refuse(p) \/ Answer(p) \/ NoAnswer(p) \/ CompileApply(p) \/ EnqueueApply(p)
        PROVE  keys' = keys
    BY <2>1 DEF Refresh, CloseEditor, Save, ReadTargets, Compile, Refuse, Answer, NoAnswer,
                CompileApply, EnqueueApply
  <2>2. ASSUME NEW p, NEW s, OpenEditor(p, s) \/ Delete(p, s) PROVE keys' = keys
    BY <2>2 DEF OpenEditor, Delete
  <2>3. ASSUME NEW p, NEW s, NEW targets, Apply(p, s, targets) PROVE keys' = keys
    BY <2>3 DEF Apply
  <2>4. ASSUME NEW m, NEW n, Fail(m, n) PROVE keys' = keys
    BY <2>4 DEF Fail
  <2>5. UNCHANGED sheetVars => keys' = keys
    BY DEF sheetVars
  <2>6. QED
    BY <1>2, <2>1, <2>2, <2>3, <2>4, <2>5 DEF SheetsNext
<1>3. keys' = keys => KeysTyped'
  BY DEF KeysTyped
<1>4. QED
  BY <1>1, <1>2, <1>3

\* Type correctness: a roll-out was compiled from a base.
THEOREM SheetsTypes == SheetsSpec => []SheetsTypeOK
<1>1. SheetsInit => KeysTyped
  BY DEF SheetsInit, KeysTyped
<1>2. VersionsIInv /\ KeysTyped => SheetsTypeOK
  BY DEF VersionsIInv, SheetsIInv, SheetRowsOK, EditorsOpen, DeploymentsOK, CompiledFromBase,
         KeysTyped, SheetsTypeOK
<1>3. QED
  BY <1>1, <1>2, NextKeepsKeys, SheetsKeepVersions, PTL DEF SheetsSpec

(***************************************************************************)
(* The form of a flight sheet.                                             *)
(***************************************************************************)

\* A row is as the form shows it: its wallet is of its coin, its miner the chosen one.
RowFits(t) ==
  /\ t.wallet # Nil => t.coin # Nil /\ coinOf[t.wallet] = t.coin
  /\ ~ blind /\ t.miner # Nil /\ t.choice # Nil => t.miner = t.choice

RowsFit ==
  /\ tasks \in Seq(TaskRows)
  /\ \A n \in 1..Len(tasks) : RowFits(tasks[n])
  /\ InstancesDiffer

\* What is stored, or about to be: its wallets exist.
WalletsExist(body) == body \in Bodies /\ \A n \in 1..Len(body) : coinOf[body[n].wallet] # Nil

SheetsFit ==
  /\ saving # Nil => WalletsExist(saving.tasks)
  /\ \A s \in Sheets : sheets[s] # Nil => WalletsExist(sheets[s]) /\ Valid(sheets[s])

ComposerTypes ==
  /\ sheets = [s \in Sheets |-> sheets[s]]
  /\ configIndex \in Nat
  /\ adding # Nil => adding.index \in Nat \ {0}
  /\ walletCall # Nil => walletCall.index \in Nat \ {0} /\ walletCall.coin \in Coins
  /\ coinOf \in [Wallets -> Coins \cup {Nil}]
  /\ adapters \in {{}, Builtins} /\ blind \in BOOLEAN

ComposerIInv == ComposerTypes /\ SheetsFit /\ RowsFit

LEMMA BlankRow ==
  ASSUME NEW n \in Nat
  PROVE  /\ NewTask(n) \in TaskRows /\ NewTask(n).instance = n
         /\ NewTask(n).wallet = Nil /\ NewTask(n).miner = Nil
BY DEF NewTask, BlankTask, TaskRows

LEMMA BlankTaskIs ==
  /\ BlankTask \in TaskRows /\ BlankTask.instance = 0
  /\ BlankTask.wallet = Nil /\ BlankTask.miner = Nil
BY DEF BlankTask, TaskRows

\* An emptied form has one blank row.
LEMMA OneBlankRow ==
  /\ <<NewTask(1)>> \in Seq(TaskRows) /\ Len(<<NewTask(1)>>) = 1
  /\ <<NewTask(1)>>[1].wallet = Nil /\ <<NewTask(1)>>[1].miner = Nil
<1>1. PICK t : t = NewTask(1)
  OBVIOUS
<1>2. t \in TaskRows /\ t.wallet = Nil /\ t.miner = Nil
  BY <1>1, BlankRow
<1>3. <<t>> \in Seq(TaskRows) /\ Len(<<t>>) = 1 /\ <<t>>[1] = t
  BY <1>2
<1>4. QED
  BY <1>1, <1>2, <1>3

LEMMA BlankFormFits == ASSUME tasks = <<NewTask(1)>> PROVE RowsFit
<1>1. tasks \in Seq(TaskRows) /\ Len(tasks) = 1 /\ tasks[1].wallet = Nil /\ tasks[1].miner = Nil
  BY OneBlankRow
<1>2. QED
  BY <1>1 DEF RowsFit, RowFits, InstancesDiffer

LEMMA FormEmptied == ASSUME tasks' = <<NewTask(1)>> PROVE RowsFit'
<1>1. tasks' \in Seq(TaskRows) /\ Len(tasks') = 1 /\ tasks'[1].wallet = Nil /\ tasks'[1].miner = Nil
  BY OneBlankRow
<1>2. QED
  BY <1>1 DEF RowsFit, RowFits, InstancesDiffer

LEMMA ComposerInitIInv == ComposerInit => ComposerIInv
<1> SUFFICES ASSUME ComposerInit PROVE ComposerIInv
  OBVIOUS
<1>1. RowsFit
  BY BlankFormFits DEF ComposerInit
<1>2. ComposerTypes
  BY DEF ComposerInit, ComposerTypes
<1>3. SheetsFit
  BY DEF ComposerInit, SheetsFit
<1>4. QED
  BY <1>1, <1>2, <1>3 DEF ComposerIInv

LEMMA RowsStillFit ==
  ASSUME RowsFit, UNCHANGED <<tasks, coinOf, blind>>
  PROVE  RowsFit'
BY DEF RowsFit, RowFits, InstancesDiffer

LEMMA SheetsStillFit ==
  ASSUME SheetsFit, UNCHANGED <<sheets, coinOf>>, saving' \in {Nil, saving}
  PROVE  SheetsFit'
BY DEF SheetsFit, WalletsExist

\* There is a free instance number for one more row, so that there is a lowest one.
LEMMA LowestFree ==
  ASSUME NEW s, Len(s) \in Nat
  PROVE  \E n \in 1..(Len(s) + 1) :
           /\ \A m \in 1..Len(s) : s[m].instance # n
           /\ \A k \in 1..(n - 1) : \E m \in 1..Len(s) : s[m].instance = k
<1> DEFINE L == Len(s)
           Unused == {n \in 1..(L + 1) : \A m \in 1..L : s[m].instance # n}
<1>1. Unused # {}
  <2> SUFFICES ASSUME Unused = {} PROVE FALSE
    OBVIOUS
  <2> DEFINE row == [n \in 1..(L + 1) |-> CHOOSE m \in 1..L : s[m].instance = n]
  <2>1. ASSUME NEW n \in 1..(L + 1)
        PROVE  row[n] \in 1..L /\ s[row[n]].instance = n
    BY <2>1
  <2>2. row \in [1..(L + 1) -> 1..L]
    BY <2>1
  <2>3. /\ IsFiniteSet(1..L) /\ Cardinality(1..L) = L
        /\ IsFiniteSet(1..(L + 1)) /\ Cardinality(1..(L + 1)) = L + 1
    <3>1. L \in Int /\ L + 1 \in Int /\ 1 \in Int /\ L >= 0
      OBVIOUS
    <3>2. /\ IsFiniteSet(1..L) /\ Cardinality(1..L) = IF 1 > L THEN 0 ELSE L - 1 + 1
          /\ IsFiniteSet(1..(L + 1))
          /\ Cardinality(1..(L + 1)) = IF 1 > L + 1 THEN 0 ELSE L + 1 - 1 + 1
      BY <3>1, FS_Interval
    <3> HIDE DEF L
    <3>3. QED
      BY <3>1, <3>2
  <2>4. \E x, y \in 1..(L + 1) : x # y /\ row[x] = row[y]
    <3>1. Cardinality(1..L) < Cardinality(1..(L + 1))
      BY <2>3
    <3>2. PICK S, T, f : S = 1..(L + 1) /\ T = 1..L /\ f = row
      OBVIOUS
    <3> HIDE DEF row, L
    <3>3. IsFiniteSet(S) /\ IsFiniteSet(T) /\ Cardinality(T) < Cardinality(S) /\ f \in [S -> T]
      BY <2>2, <2>3, <3>1, <3>2, Zenon
    <3>4. \E x, y \in S : x # y /\ f[x] = f[y]
      BY <3>3, FS_PigeonHole
    <3>5. QED
      BY <3>2, <3>4
  <2> HIDE DEF row
  <2>5. QED
    BY <2>1, <2>4
<1>2. PICK n \in Unused : \A k \in Unused : ~(<<k, n>> \in OpToRel(<, Nat))
  <2>1. Unused \subseteq Nat
    OBVIOUS
  <2> HIDE DEF Unused
  <2>2. QED
    BY <1>1, <2>1, WFMin, NatLessThanWellFounded, Zenon
<1>3. ASSUME NEW k \in Nat, k < n
      PROVE  k \notin Unused
  <2>1. n \in Nat
    OBVIOUS
  <2>2. <<k, n>> \in {ss \in Nat \X Nat : ss[1] < ss[2]}
    BY <1>3, <2>1
  <2>3. <<k, n>> \in OpToRel(<, Nat)
    BY <2>2, Zenon DEF OpToRel
  <2> HIDE DEF Unused
  <2>4. QED
    BY <1>2, <2>3, Zenon
<1>4. ASSUME NEW k \in 1..(n - 1)
      PROVE  \E m \in 1..Len(s) : s[m].instance = k
  <2>1. k \in Nat /\ k < n /\ k \in 1..(L + 1)
    OBVIOUS
  <2>2. QED
    BY <1>3, <2>1
<1>5. QED
  BY <1>4

\* One row is replaced, or added at the end, and the others fit as before.
LEMMA OneRowStep ==
  ASSUME RowsFit, NEW n \in Nat \ {0}, NEW t \in TaskRows,
         tasks' = IF n <= Len(tasks) THEN [tasks EXCEPT ![n] = t] ELSE Append(tasks, t),
         IF n <= Len(tasks) THEN t.instance = tasks[n].instance
         ELSE \A m \in 1..Len(tasks) : t.instance # 0 => tasks[m].instance # t.instance,
         t.wallet # Nil => t.coin # Nil /\ coinOf'[t.wallet] = t.coin,
         ~ blind' /\ t.miner # Nil /\ t.choice # Nil => t.miner = t.choice,
         blind => blind',
         \A w \in Wallets : coinOf[w] # Nil => coinOf'[w] = coinOf[w]
  PROVE  RowsFit'
<1>1. tasks \in Seq(TaskRows) /\ \A k \in 1..Len(tasks) : RowFits(tasks[k])
  BY DEF RowsFit
<1>2. /\ tasks' \in Seq(TaskRows)
      /\ \A k \in 1..Len(tasks') :
           \/ tasks'[k] = t /\ (n <= Len(tasks) => k = n) /\ (~(n <= Len(tasks)) => k = Len(tasks) + 1)
           \/ k \in 1..Len(tasks) /\ tasks'[k] = tasks[k]
  <2>1. CASE n <= Len(tasks)
    <3>1. tasks' = [tasks EXCEPT ![n] = t] /\ n \in 1..Len(tasks)
      BY <1>1, <2>1
    <3>2. QED
      BY <1>1, <3>1
  <2>2. CASE ~(n <= Len(tasks))
    <3>1. tasks' = Append(tasks, t)
      BY <2>2
    <3>2. QED
      BY <1>1, <2>2, <3>1
  <2>3. QED
    BY <2>1, <2>2
<1>3. ASSUME NEW k \in 1..Len(tasks')
      PROVE  RowFits(tasks[k])'
  <2>1. CASE tasks'[k] = t
    BY <2>1 DEF RowFits
  <2>2. CASE k \in 1..Len(tasks) /\ tasks'[k] = tasks[k]
    <3>1. tasks[k] \in TaskRows /\ RowFits(tasks[k])
      BY <1>1, <2>2
    <3>2. QED
      BY <2>2, <3>1 DEF RowFits, TaskRows
  <2>3. QED
    BY <1>2, <2>1, <2>2
<1>4. InstancesDiffer'
  BY <1>1, <1>2 DEF InstancesDiffer, RowsFit
<1>5. QED
  BY <1>2, <1>3, <1>4 DEF RowsFit

\* The row setTask starts from: one past the end is blank.
OldRow(n) == IF n <= Len(tasks) THEN tasks[n] ELSE BlankTask

LEMMA OldRowFits ==
  ASSUME RowsFit, NEW n \in Nat \ {0}
  PROVE  /\ OldRow(n) \in TaskRows /\ RowFits(OldRow(n))
         /\ n > Len(tasks) => OldRow(n).instance = 0
<1>1. tasks \in Seq(TaskRows) /\ \A k \in 1..Len(tasks) : RowFits(tasks[k])
  BY DEF RowsFit
<1>2. CASE n <= Len(tasks)
  <2>1. n \in 1..Len(tasks) /\ OldRow(n) = tasks[n]
    BY <1>1, <1>2 DEF OldRow
  <2>2. QED
    BY <1>1, <1>2, <2>1
<1>3. CASE ~(n <= Len(tasks))
  <2>1. OldRow(n) = BlankTask
    BY <1>3 DEF OldRow
  <2>2. QED
    BY <2>1, BlankTaskIs DEF RowFits
<1>4. QED
  BY <1>2, <1>3

\* setTask keeps the row's instance, so that only the fit of the new row remains to be shown.
LEMMA SetTaskStep ==
  ASSUME RowsFit, NEW n \in Nat \ {0}, NEW t \in TaskRows,
         tasks' = IF n <= Len(tasks) THEN [tasks EXCEPT ![n] = t] ELSE Append(tasks, t),
         t.instance = OldRow(n).instance,
         t.wallet # Nil => t.coin # Nil /\ coinOf'[t.wallet] = t.coin,
         ~ blind' /\ t.miner # Nil /\ t.choice # Nil => t.miner = t.choice,
         blind => blind',
         \A w \in Wallets : coinOf[w] # Nil => coinOf'[w] = coinOf[w]
  PROVE  RowsFit'
<1>1. IF n <= Len(tasks) THEN t.instance = tasks[n].instance
      ELSE \A m \in 1..Len(tasks) : t.instance # 0 => tasks[m].instance # t.instance
  <2>1. tasks \in Seq(TaskRows) /\ Len(tasks) \in Nat
    BY DEF RowsFit
  <2>2. n > Len(tasks) => t.instance = 0
    BY OldRowFits
  <2>3. QED
    BY <2>1, <2>2 DEF OldRow
<1>2. QED
  BY <1>1, OneRowStep

LEMMA SetCoinStep ==
  ASSUME RowsFit, NEW n \in Nat \ {0}, NEW c \in Coins, SetCoin(n, c)
  PROVE  RowsFit'
<1> DEFINE t == [OldRow(n) EXCEPT !.coin = c, !.wallet = Nil]
<1>1. OldRow(n) \in TaskRows /\ RowFits(OldRow(n))
  BY OldRowFits
<1>2. t \in TaskRows /\ t.instance = OldRow(n).instance /\ t.wallet = Nil
      /\ t.miner = OldRow(n).miner /\ t.choice = OldRow(n).choice
  BY <1>1 DEF TaskRows
<1>3. tasks' = IF n <= Len(tasks) THEN [tasks EXCEPT ![n] = t] ELSE Append(tasks, t)
  BY DEF SetCoin, SetTask, OldRow
<1>4. UNCHANGED <<coinOf, blind>>
  BY DEF SetCoin, kept
<1> HIDE DEF t
<1>5. QED
  BY <1>1, <1>2, <1>3, <1>4, SetTaskStep DEF RowFits

LEMMA SetWalletStep ==
  ASSUME RowsFit, NEW n \in 1..Len(tasks), NEW w \in Wallets, SetWallet(n, w)
  PROVE  RowsFit'
<1> DEFINE t == [OldRow(n) EXCEPT !.wallet = w]
<1>0. n \in Nat \ {0} /\ OldRow(n) = tasks[n]
  BY DEF RowsFit, OldRow
<1>1. OldRow(n) \in TaskRows /\ RowFits(OldRow(n))
  BY <1>0, OldRowFits
<1>2. t \in TaskRows /\ t.instance = OldRow(n).instance /\ t.wallet = w
      /\ t.coin = OldRow(n).coin
      /\ t.miner = OldRow(n).miner /\ t.choice = OldRow(n).choice
  BY <1>1 DEF TaskRows
<1>3. tasks' = IF n <= Len(tasks) THEN [tasks EXCEPT ![n] = t] ELSE Append(tasks, t)
  BY DEF SetWallet, SetTask, OldRow
<1>4. UNCHANGED <<coinOf, blind>> /\ tasks[n].coin # Nil /\ Symbol(w) = tasks[n].coin
  BY DEF SetWallet, kept
<1>5. w # Nil
  BY ComposerAssumption
<1> HIDE DEF t
<1>6. t.coin # Nil /\ coinOf'[t.wallet] = t.coin
  BY <1>0, <1>2, <1>4, <1>5 DEF Symbol
<1>7. QED
  BY <1>0, <1>1, <1>2, <1>3, <1>4, <1>6, SetTaskStep DEF RowFits

LEMMA SetMinerStep ==
  ASSUME RowsFit, NEW n \in Nat \ {0}, NEW a \in Builtins \cup {Custom}, SetMiner(n, a)
  PROVE  RowsFit'
<1> DEFINE t == [OldRow(n) EXCEPT !.choice = a, !.miner = IF a = Custom THEN Nil ELSE a]
<1>1. OldRow(n) \in TaskRows /\ RowFits(OldRow(n))
  BY OldRowFits
<1>2. t \in TaskRows /\ t.instance = OldRow(n).instance /\ t.wallet = OldRow(n).wallet
      /\ t.coin = OldRow(n).coin /\ t.miner \in {Nil, a} /\ t.choice = a
  BY <1>1 DEF TaskRows, Miners
<1>3. tasks' = IF n <= Len(tasks) THEN [tasks EXCEPT ![n] = t] ELSE Append(tasks, t)
  BY DEF SetMiner, SetTask, OldRow
<1>4. UNCHANGED <<coinOf, blind>>
  BY DEF SetMiner, kept
<1> HIDE DEF t
<1>5. QED
  BY <1>1, <1>2, <1>3, <1>4, SetTaskStep DEF RowFits

LEMMA ApplyConfigStep ==
  ASSUME ComposerTypes, RowsFit, ApplyConfig
  PROVE  RowsFit'
<1> DEFINE n == configIndex
           adapter == IF OldRow(n).choice \in adapters THEN OldRow(n).choice ELSE Custom
           t == [OldRow(n) EXCEPT !.miner = adapter]
<1>0. n \in Nat \ {0} /\ ConfiguredTask = OldRow(n)
  BY DEF ComposerTypes, ApplyConfig, ConfiguredTask, OldRow
<1>1. OldRow(n) \in TaskRows /\ RowFits(OldRow(n))
  BY <1>0, OldRowFits
<1>2. adapter \in Miners
  BY DEF ComposerTypes, Miners
<1>3. t \in TaskRows /\ t.instance = OldRow(n).instance /\ t.wallet = OldRow(n).wallet
      /\ t.coin = OldRow(n).coin /\ t.miner = adapter /\ t.choice = OldRow(n).choice
  BY <1>1, <1>2 DEF TaskRows
<1>4. tasks' = IF n <= Len(tasks) THEN [tasks EXCEPT ![n] = t] ELSE Append(tasks, t)
  BY <1>0 DEF ApplyConfig, SetTask, OldRow
<1>5. coinOf' = coinOf /\ (blind => blind')
      /\ (~ blind' => OldRow(n).choice \notin Builtins \ adapters)
  BY <1>0 DEF ApplyConfig
<1>6. ~ blind' /\ t.choice # Nil => t.miner = t.choice
  <2>1. t.choice \in Miners \cup {Nil}
    BY <1>3 DEF TaskRows
  <2>2. QED
    BY <1>3, <1>5, <2>1 DEF Miners
<1> HIDE DEF t, adapter, n
<1>7. QED
  BY <1>0, <1>1, <1>3, <1>4, <1>5, <1>6, SetTaskStep DEF RowFits

LEMMA WalletSavedStep ==
  ASSUME ComposerTypes, RowsFit, NEW w \in Wallets, WalletSaved(w)
  PROVE  RowsFit' /\ \A v \in Wallets : coinOf[v] # Nil => coinOf'[v] = coinOf[v]
<1> DEFINE n == walletCall.index
           c == walletCall.coin
           t == [OldRow(n) EXCEPT !.wallet = w, !.coin = c]
<1>0. n \in Nat \ {0} /\ c \in Coins /\ c # Nil
  BY ComposerAssumption DEF ComposerTypes, WalletSaved
<1>1. OldRow(n) \in TaskRows /\ RowFits(OldRow(n))
  BY <1>0, OldRowFits
<1>2. t \in TaskRows /\ t.instance = OldRow(n).instance /\ t.wallet = w /\ t.coin = c
      /\ t.miner = OldRow(n).miner /\ t.choice = OldRow(n).choice
  BY <1>0, <1>1 DEF TaskRows
<1>3. tasks' = IF n <= Len(tasks) THEN [tasks EXCEPT ![n] = t] ELSE Append(tasks, t)
  BY DEF WalletSaved, SetTask, OldRow
<1>4. /\ blind' = blind /\ coinOf'[w] = c
      /\ \A v \in Wallets : coinOf[v] # Nil => coinOf'[v] = coinOf[v]
  BY DEF ComposerTypes, WalletSaved
<1> HIDE DEF t, c, n
<1>5. QED
  BY <1>0, <1>1, <1>2, <1>3, <1>4, SetTaskStep DEF RowFits

LEMMA AddTaskStep == ASSUME RowsFit, AddTask PROVE RowsFit'
<1> DEFINE Lowest(n) == /\ \A m \in 1..Len(tasks) : tasks[m].instance # n
                        /\ \A k \in 1..(n - 1) : \E m \in 1..Len(tasks) : tasks[m].instance = k
<1>1. PICK n : n = CHOOSE x \in 1..(Len(tasks) + 1) : Lowest(x)
  OBVIOUS
<1>2. Len(tasks) \in Nat
  BY DEF RowsFit
<1>3. n \in 1..(Len(tasks) + 1) /\ Lowest(n)
  <2>1. \E x \in 1..(Len(tasks) + 1) : Lowest(x)
    BY <1>2, LowestFree
  <2> HIDE DEF Lowest
  <2>2. QED
    BY <1>1, <2>1, Zenon
<1>4. tasks' = Append(tasks, NewTask(n)) /\ UNCHANGED <<coinOf, blind>>
  BY <1>1 DEF AddTask, kept
<1>5. n \in Nat /\ \A m \in 1..Len(tasks) : tasks[m].instance # n
  BY <1>2, <1>3
<1>6. PICK t : t = NewTask(n)
  OBVIOUS
<1>7. t \in TaskRows /\ t.instance = n /\ t.wallet = Nil /\ t.miner = Nil
  BY <1>5, <1>6, BlankRow
<1>8. PICK k : k = Len(tasks) + 1
  OBVIOUS
<1>9. k \in Nat \ {0} /\ ~(k <= Len(tasks))
  BY <1>2, <1>8
<1>10. tasks' = IF k <= Len(tasks) THEN [tasks EXCEPT ![k] = t] ELSE Append(tasks, t)
  BY <1>4, <1>6, <1>9
<1>11. QED
  BY <1>4, <1>5, <1>7, <1>9, <1>10, OneRowStep

LEMMA RemoveTaskStep ==
  ASSUME RowsFit, NEW n \in 1..Len(tasks), RemoveTask(n)
  PROVE  RowsFit'
<1> DEFINE from(k) == IF k < n THEN k ELSE k + 1
<1>1. tasks \in Seq(TaskRows) /\ Len(tasks) \in Nat /\ n \in 1..Len(tasks)
  BY DEF RowsFit
<1>2. tasks' = SubSeq(tasks, 1, n - 1) \o SubSeq(tasks, n + 1, Len(tasks))
  BY DEF RemoveTask, RemoveAt
<1>3. /\ tasks' \in Seq(TaskRows) /\ Len(tasks') = Len(tasks) - 1
      /\ \A k \in 1..Len(tasks') : tasks'[k] = tasks[from(k)]
  <2>1. PICK a, b : a = SubSeq(tasks, 1, n - 1) /\ b = SubSeq(tasks, n + 1, Len(tasks))
    OBVIOUS
  <2>2. /\ a \in Seq(TaskRows) /\ Len(a) = n - 1
        /\ \A k \in 1..(n - 1) : a[k] = tasks[k]
    BY <1>1, <2>1
  <2>3. /\ b \in Seq(TaskRows) /\ Len(b) = Len(tasks) - n
        /\ \A k \in 1..(Len(tasks) - n) : b[k] = tasks[n + k]
    BY <1>1, <2>1
  <2>4. /\ a \o b \in Seq(TaskRows) /\ Len(a \o b) = Len(tasks) - 1
        /\ \A k \in 1..(n - 1) : (a \o b)[k] = a[k]
        /\ \A k \in n..(Len(tasks) - 1) : (a \o b)[k] = b[k - (n - 1)]
    <3>1. PICK T : T = TaskRows
      OBVIOUS
    <3>2. a \in Seq(T) /\ b \in Seq(T)
      BY <2>2, <2>3, <3>1
    <3>3. a \o b \in Seq(T)
      BY <3>2
    <3>4. Len(a \o b) = Len(a) + Len(b)
      BY <3>2
    <3>5. a \o b \in Seq(TaskRows)
      BY <3>1, <3>3
    <3>6. \A k \in 1..(Len(a) + Len(b)) :
            (a \o b)[k] = IF k <= Len(a) THEN a[k] ELSE b[k - Len(a)]
      BY <2>2, <2>3
    <3>7. Len(a) = n - 1 /\ Len(b) = Len(tasks) - n
      BY <2>2, <2>3
    <3>8. QED
      BY <1>1, <3>4, <3>5, <3>6, <3>7
  <2>5. tasks' = a \o b
    BY <1>2, <2>1
  <2>6. ASSUME NEW k \in 1..(Len(tasks) - 1)
        PROVE  (a \o b)[k] = tasks[from(k)]
    <3>1. CASE k < n
      BY <1>1, <2>2, <2>4, <3>1
    <3>2. CASE ~(k < n)
      <4>1. k \in n..(Len(tasks) - 1) /\ k - (n - 1) \in 1..(Len(tasks) - n)
        BY <1>1, <3>2
      <4>2. b[k - (n - 1)] = tasks[n + (k - (n - 1))]
        BY <2>3, <4>1
      <4>3. n + (k - (n - 1)) = k + 1
        BY <1>1
      <4>4. QED
        BY <2>4, <3>2, <4>1, <4>2, <4>3
    <3>3. QED
      BY <3>1, <3>2
  <2> HIDE DEF from
  <2>7. QED
    BY <2>4, <2>5, <2>6
<1>4. \A k \in 1..Len(tasks') : from(k) \in 1..Len(tasks)
  BY <1>1, <1>3
<1>5. \A j, k \in 1..Len(tasks') : from(j) = from(k) => j = k
  BY <1>1, <1>3
<1>6. UNCHANGED <<coinOf, blind>>
  BY DEF RemoveTask, kept
<1> HIDE DEF from
<1>7. \A k \in 1..Len(tasks') : RowFits(tasks[k])'
  BY <1>3, <1>4, <1>6 DEF RowsFit, RowFits
<1>8. InstancesDiffer'
  <2>1. ASSUME NEW j \in 1..Len(tasks'), NEW k \in 1..Len(tasks'),
               tasks'[j].instance = tasks'[k].instance, tasks'[j].instance # 0
        PROVE  j = k
    <3>1. from(j) \in 1..Len(tasks) /\ from(k) \in 1..Len(tasks)
      BY <1>4
    <3>2. tasks'[j] = tasks[from(j)] /\ tasks'[k] = tasks[from(k)]
      BY <1>3
    <3>3. from(j) = from(k)
      BY <2>1, <3>1, <3>2 DEF RowsFit, InstancesDiffer
    <3>4. QED
      BY <1>5, <3>3
  <2>2. QED
    BY <2>1 DEF InstancesDiffer
<1>9. QED
  BY <1>3, <1>7, <1>8 DEF RowsFit

LEMMA FillEditorStep ==
  ASSUME ComposerTypes, SheetsFit, NEW s \in Sheets, sheets[s] # Nil, NEW h \in BOOLEAN,
         FillEditor(s, h), UNCHANGED <<coinOf, blind>>
  PROVE  RowsFit'
<1> DEFINE body == sheets[s]
<1>0. WalletsExist(body) /\ Valid(body)
  BY DEF SheetsFit
<1> HIDE DEF body
<1>1. /\ Valid(body) /\ body \in Seq([instance : Nat, wallet : Wallets, miner : Miners])
      /\ \A k \in 1..Len(body) : coinOf[body[k].wallet] # Nil
  BY <1>0 DEF WalletsExist, Bodies
<1>2. ASSUME NEW k \in 1..Len(body)
      PROVE  /\ body[k].instance \in Nat /\ body[k].wallet \in Wallets /\ body[k].miner \in Miners
             /\ body[k].wallet # Nil /\ coinOf[body[k].wallet] \in Coins
             /\ coinOf[body[k].wallet] # Nil
  <2>1. PICK T : T = [instance : Nat, wallet : Wallets, miner : Miners]
    OBVIOUS
  <2>2. body \in Seq(T)
    BY <1>1, <2>1
  <2>3. body[k] \in T
    BY <1>2, <2>2
  <2>4. body[k] \in [instance : Nat, wallet : Wallets, miner : Miners]
    BY <2>1, <2>3
  <2>5. body[k].wallet \in Wallets /\ body[k].wallet # Nil
    BY <2>4, ComposerAssumption
  <2>6. QED
    BY <1>1, <2>4, <2>5 DEF ComposerTypes
<1> DEFINE row(k) == [instance |-> body[k].instance, coin |-> Symbol(body[k].wallet),
                      choice |-> body[k].miner, miner |-> body[k].miner,
                      wallet |-> IF h THEN body[k].wallet ELSE Nil]
<1>3. tasks' = [k \in 1..Len(body) |-> row(k)]
  BY DEF FillEditor, body
<1>4. ASSUME NEW k \in 1..Len(body)
      PROVE  /\ row(k) \in TaskRows /\ row(k).instance = body[k].instance
             /\ row(k).miner = row(k).choice
             /\ row(k).wallet # Nil => row(k).coin # Nil /\ coinOf[row(k).wallet] = row(k).coin
  BY <1>2 DEF Symbol, TaskRows
<1> HIDE DEF row
<1>5. tasks' \in Seq(TaskRows) /\ Len(tasks') = Len(body) /\ \A k \in 1..Len(body) : tasks'[k] = row(k)
  BY <1>1, <1>3, <1>4
<1>6. \A k \in 1..Len(tasks') : RowFits(tasks[k])'
  BY <1>4, <1>5 DEF RowFits
<1>7. InstancesDiffer'
  BY <1>1, <1>4, <1>5 DEF InstancesDiffer, Valid
<1>8. QED
  BY <1>5, <1>6, <1>7 DEF RowsFit

LEMMA SaveSheetStep ==
  ASSUME ComposerTypes, SheetsFit, RowsFit, SaveSheet
  PROVE  SheetsFit'
<1>1. tasks \in Seq(TaskRows) /\ Len(tasks) \in Nat /\ \A n \in 1..Len(tasks) : RowFits(tasks[n])
  BY DEF RowsFit
<1>2. ASSUME NEW n \in 1..Len(tasks)
      PROVE  /\ tasks[n].instance \in Nat /\ tasks[n].wallet \in Wallets
             /\ tasks[n].miner \in Miners /\ coinOf[tasks[n].wallet] # Nil
  <2>1. Complete(tasks[n]) /\ RowFits(tasks[n]) /\ tasks[n] \in TaskRows
    BY <1>1 DEF SaveSheet
  <2>2. QED
    BY <2>1 DEF Complete, RowFits, TaskRows
<1>3. Body \in Bodies /\ Len(Body) = Len(tasks) /\ \A n \in 1..Len(tasks) : Body[n].wallet = tasks[n].wallet
  BY <1>1, <1>2 DEF Body, Bodies
<1>4. saving'.tasks = Body /\ UNCHANGED <<sheets, coinOf>>
  BY DEF SaveSheet, kept
<1>5. QED
  BY <1>2, <1>3, <1>4 DEF SheetsFit, WalletsExist

LEMMA SheetSavedStep ==
  ASSUME ComposerTypes, SheetsFit, SheetSaved
  PROVE  SheetsFit'
<1>1. PICK s \in Sheets : sheets' = [sheets EXCEPT ![s] = saving.tasks]
  BY DEF SheetSaved
<1>2. saving' = Nil /\ coinOf' = coinOf /\ Valid(saving.tasks) /\ WalletsExist(saving.tasks)
  BY DEF SheetSaved, SheetsFit
<1>3. QED
  BY <1>1, <1>2 DEF SheetsFit, WalletsExist, ComposerTypes

LEMMA RowsAndSheetsStillFit ==
  ASSUME ComposerTypes, SheetsFit, RowsFit, ComposerNext
  PROVE  RowsFit' /\ SheetsFit'
<1>0. \A n \in 1..Len(tasks) : n \in Nat \ {0}
  BY DEF RowsFit
<1>1. CASE \/ LoadAdapters \/ CancelConfig \/ CancelWallet \/ WalletFailed \/ SheetNotSaved
           \/ \E n \in 1..Len(tasks) :
                \/ Configure(n)
                \/ \E c \in Coins \cup {Nil} : AddWallet(n, c)
           \/ \E c \in Coins : SubmitWallet(c)
  <2>1. UNCHANGED <<tasks, coinOf, blind, sheets>> /\ saving' \in {Nil, saving}
    BY <1>1 DEF LoadAdapters, CancelConfig, CancelWallet, WalletFailed, SheetNotSaved, Configure,
       AddWallet, SubmitWallet, kept, pendingCalls
  <2>2. QED
    BY <2>1, RowsStillFit, SheetsStillFit
<1>2. CASE \/ AddTask
           \/ \E n \in 1..Len(tasks) :
                \/ RemoveTask(n)
                \/ \E c \in Coins : SetCoin(n, c)
                \/ \E w \in Wallets : SetWallet(n, w)
                \/ \E a \in Builtins \cup {Custom} : SetMiner(n, a)
  <2>1. RowsFit'
    BY <1>0, <1>2, AddTaskStep, RemoveTaskStep, SetCoinStep, SetWalletStep, SetMinerStep
  <2>2. UNCHANGED <<coinOf, sheets, saving>>
    BY <1>2 DEF AddTask, RemoveTask, SetCoin, SetWallet, SetMiner, kept, pendingCalls
  <2>3. QED
    BY <2>1, <2>2, SheetsStillFit
<1>3. CASE ApplyConfig
  <2>1. UNCHANGED <<coinOf, sheets, saving>>
    BY <1>3 DEF ApplyConfig, pendingCalls
  <2>2. QED
    BY <1>3, <2>1, ApplyConfigStep, SheetsStillFit
<1>4. ASSUME NEW w \in Wallets, WalletSaved(w)
      PROVE  RowsFit' /\ SheetsFit'
  <2>1. RowsFit' /\ \A v \in Wallets : coinOf[v] # Nil => coinOf'[v] = coinOf[v]
    BY <1>4, WalletSavedStep
  <2>2. UNCHANGED <<sheets, saving>>
    BY <1>4 DEF WalletSaved
  <2>3. ASSUME NEW body, WalletsExist(body)
        PROVE  body \in Bodies /\ \A n \in 1..Len(body) : coinOf'[body[n].wallet] # Nil
    <3>1. PICK T : T = [instance : Nat, wallet : Wallets, miner : Miners]
      OBVIOUS
    <3>2. body \in Seq(T) /\ \A n \in 1..Len(body) : coinOf[body[n].wallet] # Nil
      BY <2>3, <3>1 DEF WalletsExist, Bodies
    <3>3. ASSUME NEW n \in 1..Len(body)
          PROVE  body[n].wallet \in Wallets
      <4>1. body[n] \in T
        BY <3>2
      <4>2. QED
        BY <3>1, <4>1
    <3>4. QED
      BY <2>1, <2>3, <3>2, <3>3 DEF WalletsExist
  <2>4. SheetsFit'
    BY <2>2, <2>3 DEF SheetsFit, WalletsExist
  <2>5. QED
    BY <2>1, <2>4
<1>5. CASE CancelEdit \/ \E s \in Sheets : DeleteSheet(s)
  <2>1. CASE CancelEdit
    <3>1. tasks' = <<NewTask(1)>> /\ UNCHANGED <<coinOf, sheets, saving>>
      BY <2>1 DEF CancelEdit, Reset, kept, pendingCalls
    <3>2. QED
      BY <3>1, FormEmptied, SheetsStillFit
  <2>2. ASSUME NEW s \in Sheets, DeleteSheet(s)
        PROVE  RowsFit' /\ SheetsFit'
    <3>1. UNCHANGED <<tasks, coinOf, blind, saving>> /\ sheets' = [sheets EXCEPT ![s] = Nil]
      BY <2>2 DEF DeleteSheet, pendingCalls
    <3>2. QED
      BY <3>1, RowsStillFit DEF SheetsFit, WalletsExist, ComposerTypes
  <2>3. QED
    BY <1>5, <2>1, <2>2
<1>6. ASSUME NEW s \in Sheets, NEW h \in BOOLEAN, (EditSheet(s) /\ h = TRUE) \/ Import(s, h)
      PROVE  RowsFit' /\ SheetsFit'
  <2>1. sheets[s] # Nil /\ FillEditor(s, h) /\ UNCHANGED <<coinOf, blind, sheets, saving>>
    BY <1>6 DEF EditSheet, Import, kept, pendingCalls
  <2>2. QED
    BY <2>1, FillEditorStep, SheetsStillFit
<1>7. CASE SaveSheet
  <2>1. UNCHANGED <<tasks, coinOf, blind>>
    BY <1>7 DEF SaveSheet, kept
  <2>2. QED
    BY <1>7, <2>1, RowsStillFit, SaveSheetStep
<1>8. CASE SheetSaved
  <2>1. tasks' = <<NewTask(1)>>
    BY <1>8 DEF SheetSaved, Reset
  <2>2. QED
    BY <1>8, <2>1, FormEmptied, SheetSavedStep
<1>9. QED
  BY <1>1, <1>2, <1>3, <1>4, <1>5, <1>6, <1>7, <1>8 DEF ComposerNext

LEMMA ComposerTypesStep ==
  ASSUME ComposerTypes, RowsFit, ComposerNext
  PROVE  ComposerTypes'
<1>0. \A n \in 1..Len(tasks) : n \in Nat \ {0}
  BY DEF RowsFit
<1>1. sheets' = [s \in Sheets |-> sheets'[s]] /\ coinOf' \in [Wallets -> Coins \cup {Nil}]
  <2>1. CASE UNCHANGED <<sheets, coinOf>>
    BY <2>1 DEF ComposerTypes
  <2>2. ASSUME NEW w \in Wallets, WalletSaved(w)
        PROVE  sheets' = [s \in Sheets |-> sheets'[s]] /\ coinOf' \in [Wallets -> Coins \cup {Nil}]
    BY <2>2 DEF ComposerTypes, WalletSaved
  <2>3. CASE \E s \in Sheets : \E v : sheets' = [sheets EXCEPT ![s] = v] /\ coinOf' = coinOf
    BY <2>3 DEF ComposerTypes
  <2>4. ASSUME NEW s \in Sheets, DeleteSheet(s)
        PROVE  \E v : sheets' = [sheets EXCEPT ![s] = v] /\ coinOf' = coinOf
    BY <2>4 DEF DeleteSheet
  <2>5. ASSUME SheetSaved
        PROVE  \E s \in Sheets : \E v : sheets' = [sheets EXCEPT ![s] = v] /\ coinOf' = coinOf
    BY <2>5 DEF SheetSaved
  <2>6. QED
    BY <2>1, <2>2, <2>3, <2>4, <2>5 DEF ComposerNext, LoadAdapters, CancelConfig, CancelWallet,
       WalletFailed, SheetNotSaved, Configure, AddWallet, SubmitWallet, AddTask, RemoveTask,
       SetCoin, SetWallet, SetMiner, ApplyConfig, CancelEdit, EditSheet, Import, SaveSheet, kept
<1>2. /\ configIndex' \in Nat
      /\ adding' # Nil => adding'.index \in Nat \ {0}
      /\ walletCall' # Nil => walletCall'.index \in Nat \ {0} /\ walletCall'.coin \in Coins
  <2>1. CASE UNCHANGED <<dialogs, walletCall>>
    BY <2>1 DEF ComposerTypes, dialogs
  <2>2. CASE \/ CancelConfig \/ ApplyConfig
             \/ \E n \in 1..Len(tasks) : Configure(n) \/ \E a \in Builtins \cup {Custom} : SetMiner(n, a)
    <3>1. UNCHANGED <<adding, walletCall>> /\ configIndex' \in {0} \cup 1..Len(tasks)
      <4>1. CASE CancelConfig \/ ApplyConfig
        BY <4>1 DEF CancelConfig, ApplyConfig, pendingCalls
      <4>2. ASSUME NEW n \in 1..Len(tasks), Configure(n)
            PROVE  UNCHANGED <<adding, walletCall>> /\ configIndex' = n
        BY <4>2 DEF Configure, pendingCalls
      <4>3. ASSUME NEW n \in 1..Len(tasks), NEW a \in Builtins \cup {Custom}, SetMiner(n, a)
            PROVE  UNCHANGED <<adding, walletCall>> /\ configIndex' = n
        BY <4>3 DEF SetMiner, pendingCalls
      <4>4. QED
        BY <2>2, <4>1, <4>2, <4>3
    <3>2. configIndex' \in Nat
      BY <1>0, <3>1
    <3>3. QED
      BY <3>1, <3>2 DEF ComposerTypes
  <2>3. CASE \/ CancelWallet \/ WalletFailed \/ \E w \in Wallets : WalletSaved(w)
             \/ \E n \in 1..Len(tasks) : \E c \in Coins \cup {Nil} : AddWallet(n, c)
             \/ \E c \in Coins : SubmitWallet(c)
    <3>1. CASE CancelWallet \/ WalletFailed \/ \E w \in Wallets : WalletSaved(w)
      <4>1. configIndex' = configIndex /\ adding' \in {adding, Nil} /\ walletCall' \in {walletCall, Nil}
        BY <3>1 DEF CancelWallet, WalletFailed, WalletSaved, pendingCalls, dialogs
      <4>2. QED
        BY <4>1 DEF ComposerTypes
    <3>2. ASSUME NEW n \in 1..Len(tasks), NEW c \in Coins \cup {Nil}, AddWallet(n, c)
          PROVE  UNCHANGED <<configIndex, walletCall>> /\ adding'.index = n
      BY <3>2 DEF AddWallet, pendingCalls
    <3>3. ASSUME NEW c \in Coins, SubmitWallet(c)
          PROVE  /\ UNCHANGED dialogs /\ adding # Nil
                 /\ walletCall'.index = adding.index /\ walletCall'.coin = c
      BY <3>3 DEF SubmitWallet
    <3>4. QED
      BY <1>0, <2>3, <3>1, <3>2, <3>3 DEF ComposerTypes, dialogs
  <2>4. QED
    BY <2>1, <2>2, <2>3 DEF ComposerNext, LoadAdapters, SheetNotSaved, AddTask, RemoveTask,
       SetCoin, SetWallet, CancelEdit, EditSheet, DeleteSheet, Import, SaveSheet, SheetSaved,
       pendingCalls
<1>3. adapters' \in {{}, Builtins} /\ blind' \in BOOLEAN
  BY DEF ComposerTypes, ComposerNext, LoadAdapters, CancelConfig, CancelWallet,
     WalletFailed, SheetNotSaved, Configure, AddWallet, SubmitWallet, AddTask, RemoveTask,
     SetCoin, SetWallet, SetMiner, ApplyConfig, WalletSaved, CancelEdit, EditSheet, DeleteSheet,
     Import, SaveSheet, SheetSaved, kept
<1>4. QED
  BY <1>1, <1>2, <1>3 DEF ComposerTypes

LEMMA ComposerNextIInv == ComposerIInv /\ [ComposerNext]_composerVars => ComposerIInv'
<1> SUFFICES ASSUME ComposerIInv, [ComposerNext]_composerVars PROVE ComposerIInv'
  OBVIOUS
<1>1. CASE ComposerNext
  BY <1>1, RowsAndSheetsStillFit, ComposerTypesStep DEF ComposerIInv
<1>2. CASE UNCHANGED composerVars
  <2>1. UNCHANGED <<tasks, coinOf, blind, sheets, saving, configIndex, adding, walletCall, adapters>>
    BY <1>2 DEF composerVars
  <2>2. QED
    BY <2>1, RowsStillFit, SheetsStillFit DEF ComposerIInv, ComposerTypes
<1>3. QED
  BY <1>1, <1>2

LEMMA ComposerInvariant == ComposerSpec => []ComposerIInv
BY ComposerInitIInv, ComposerNextIInv, PTL DEF ComposerSpec

\* Whatever row the answer of a new wallet lands in, every row's wallet is one of its coin.
THEOREM WalletsMatchCoins == ComposerSpec => []WalletMatchesCoin
<1>1. ComposerIInv => WalletMatchesCoin
  BY DEF ComposerIInv, RowsFit, RowFits, WalletMatchesCoin
<1>2. QED
  BY <1>1, ComposerInvariant, PTL

\* Whatever the form shows when the miner dialog is applied, every row's miner is the chosen
\* one, once the adapters are loaded.
THEOREM MinersMatchChoices == ComposerSpec => []MinerMatchesChoice
<1>1. ComposerIInv => MinerMatchesChoice
  BY DEF ComposerIInv, RowsFit, RowFits, MinerMatchesChoice
<1>2. QED
  BY <1>1, ComposerInvariant, PTL

\* In any order of adding, removing, loading and emptying rows, instance names differ.
THEOREM InstancesStayDifferent == ComposerSpec => []InstancesDiffer
<1>1. ComposerIInv => InstancesDiffer
  BY DEF ComposerIInv, RowsFit
<1>2. QED
  BY <1>1, ComposerInvariant, PTL

\* No more rows than a sheet may have, in the form, in the save under way and in what is stored.
SizedRows ==
  /\ Len(tasks) \in 1..MaxTasks
  /\ saving # Nil => Len(saving.tasks) \in 1..MaxTasks
  /\ \A s \in Sheets : sheets[s] # Nil => Len(sheets[s]) \in 1..MaxTasks

\* What the dialogs and the requests are about.
CallsTyped ==
  /\ configIndex <= MaxTasks
  /\ adding \in [index : 1..MaxTasks, coin : Coins \cup {Nil}] \cup {Nil}
  /\ walletCall \in [index : 1..MaxTasks, coin : Coins] \cup {Nil}
  /\ edit \in Sheets \cup {Nil}
  /\ saving \in [sheet : Sheets \cup {Nil}, tasks : Bodies] \cup {Nil}
  /\ edits \in 0..MaxChanges

\* A row is set, or comes into being.
LEMMA SetRowSize ==
  ASSUME RowsFit, Len(tasks) \in 1..MaxTasks, NEW n \in 1..MaxTasks, NEW t \in TaskRows, NEW u \in TaskRows,
         tasks' = IF n <= Len(tasks) THEN [tasks EXCEPT ![n] = t] ELSE Append(tasks, u)
  PROVE  Len(tasks') \in 1..MaxTasks
<1>1. PICK T : T = TaskRows
  OBVIOUS
<1>2. tasks \in Seq(T) /\ t \in T /\ u \in T /\ Len(tasks) \in Nat /\ MaxTasks \in Nat
  BY <1>1, ComposerAssumption DEF RowsFit
<1>3. CASE n <= Len(tasks)
  <2>1. tasks' = [tasks EXCEPT ![n] = t]
    BY <1>3
  <2>2. Len(tasks') = Len(tasks)
    BY <1>2, <2>1
  <2>3. QED
    BY <2>2
<1>4. CASE ~(n <= Len(tasks))
  <2>1. tasks' = Append(tasks, u)
    BY <1>4
  <2>2. Len(tasks') = Len(tasks) + 1
    BY <1>2, <2>1
  <2>3. QED
    BY <1>2, <1>4, <2>2
<1>5. QED
  BY <1>3, <1>4

LEMMA BlankFormSize == Len(<<NewTask(1)>>) \in 1..MaxTasks
BY OneBlankRow, ComposerAssumption

LEMMA ComposerInitBounds == ComposerInit => SizedRows /\ CallsTyped
<1> SUFFICES ASSUME ComposerInit PROVE SizedRows /\ CallsTyped
  OBVIOUS
<1>1. SizedRows
  BY BlankFormSize DEF ComposerInit, SizedRows
<1>2. CallsTyped
  BY ComposerAssumption DEF ComposerInit, CallsTyped
<1>3. QED
  BY <1>1, <1>2

\* Changes of the rows by hand.
LEMMA HandKeepsSize ==
  ASSUME ComposerIInv, SizedRows,
         \/ AddTask
         \/ \E n \in 1..Len(tasks) :
              \/ RemoveTask(n)
              \/ \E c \in Coins : SetCoin(n, c)
              \/ \E w \in Wallets : SetWallet(n, w)
              \/ \E a \in Builtins \cup {Custom} : SetMiner(n, a)
  PROVE  Len(tasks') \in 1..MaxTasks
<1>1. /\ RowsFit /\ tasks \in Seq(TaskRows) /\ Len(tasks) \in 1..MaxTasks
      /\ MaxTasks \in Nat /\ Len(tasks) \in Nat
  BY ComposerAssumption DEF ComposerIInv, RowsFit, SizedRows
<1>2. CASE AddTask
  <2>1. PICK t : tasks' = Append(tasks, t)
    BY <1>2 DEF AddTask
  <2>2. Len(tasks) < MaxTasks
    BY <1>2 DEF AddTask
  <2>3. Len(tasks') = Len(tasks) + 1
    BY <1>1, <2>1
  <2>4. QED
    BY <1>1, <2>2, <2>3
<1>3. ASSUME NEW n \in 1..Len(tasks), RemoveTask(n)
      PROVE  Len(tasks') \in 1..MaxTasks
  <2>1. Len(tasks) > 1 /\ tasks' = SubSeq(tasks, 1, n - 1) \o SubSeq(tasks, n + 1, Len(tasks))
    BY <1>3 DEF RemoveTask, RemoveAt
  <2>2. PICK T : T = TaskRows
    OBVIOUS
  <2>3. PICK a, b : a = SubSeq(tasks, 1, n - 1) /\ b = SubSeq(tasks, n + 1, Len(tasks))
    OBVIOUS
  <2>4. tasks \in Seq(T) /\ n \in 1..Len(tasks)
    BY <1>1, <1>3, <2>2
  <2>5. a \in Seq(T) /\ Len(a) = n - 1
    BY <1>1, <2>3, <2>4
  <2>6. b \in Seq(T) /\ Len(b) = Len(tasks) - n
    BY <1>1, <2>3, <2>4
  <2>7. Len(a \o b) = Len(tasks) - 1
    BY <1>1, <2>4, <2>5, <2>6
  <2>8. tasks' = a \o b
    BY <2>1, <2>3
  <2>9. Len(tasks') = Len(tasks) - 1
    BY <2>7, <2>8
  <2>10. PICK k, l : k = Len(tasks) /\ l = Len(tasks')
    OBVIOUS
  <2>11. k \in 1..MaxTasks /\ k > 1 /\ l = k - 1
    BY <1>1, <2>1, <2>9, <2>10
  <2>12. l \in 1..MaxTasks
    BY <1>1, <2>11
  <2>13. QED
    BY <2>10, <2>12
<1>4. ASSUME NEW n \in 1..Len(tasks), NEW t, tasks' = [tasks EXCEPT ![n] = t]
      PROVE  Len(tasks') \in 1..MaxTasks
  <2>1. PICK T : T = TaskRows \cup {t}
    OBVIOUS
  <2>2. \A x \in Seq(TaskRows) : x \in Seq(T)
    BY <2>1
  <2>3. tasks \in Seq(T) /\ t \in T
    BY <1>1, <2>1, <2>2
  <2>4. Len(tasks') = Len(tasks)
    BY <1>4, <2>3
  <2>5. QED
    BY <1>1, <2>4
<1>5. ASSUME NEW n \in 1..Len(tasks),
             \/ \E c \in Coins : SetCoin(n, c)
             \/ \E w \in Wallets : SetWallet(n, w)
             \/ \E a \in Builtins \cup {Custom} : SetMiner(n, a)
      PROVE  \E t : tasks' = [tasks EXCEPT ![n] = t]
  <2>1. n <= Len(tasks)
    BY <1>1
  <2>2. ASSUME NEW c \in Coins, SetCoin(n, c) PROVE \E t : tasks' = [tasks EXCEPT ![n] = t]
    BY <2>1, <2>2 DEF SetCoin, SetTask
  <2>3. ASSUME NEW w \in Wallets, SetWallet(n, w) PROVE \E t : tasks' = [tasks EXCEPT ![n] = t]
    BY <2>1, <2>3 DEF SetWallet, SetTask
  <2>4. ASSUME NEW a \in Builtins \cup {Custom}, SetMiner(n, a)
        PROVE  \E t : tasks' = [tasks EXCEPT ![n] = t]
    BY <2>1, <2>4 DEF SetMiner, SetTask
  <2>5. QED
    BY <1>5, <2>2, <2>3, <2>4
<1>6. QED
  BY <1>2, <1>3, <1>4, <1>5

LEMMA ApplyConfigSize ==
  ASSUME ComposerIInv, SizedRows, CallsTyped, ApplyConfig
  PROVE  Len(tasks') \in 1..MaxTasks
<1> DEFINE adapter == IF ConfiguredTask.choice \in adapters THEN ConfiguredTask.choice ELSE Custom
           t == [OldRow(configIndex) EXCEPT !.miner = adapter]
<1>1. configIndex \in 1..MaxTasks /\ configIndex \in Nat \ {0}
  BY ComposerAssumption DEF ComposerIInv, ComposerTypes, CallsTyped, ApplyConfig
<1>2. OldRow(configIndex) \in TaskRows
  BY <1>1, OldRowFits DEF ComposerIInv
<1>3. adapter \in Miners
  BY DEF ComposerIInv, ComposerTypes, Miners
<1>4. t \in TaskRows
  BY <1>2, <1>3 DEF TaskRows
<1>5. tasks' = IF configIndex <= Len(tasks) THEN [tasks EXCEPT ![configIndex] = t] ELSE Append(tasks, t)
  BY DEF ApplyConfig, SetTask, OldRow
<1> HIDE DEF t, adapter
<1>6. QED
  BY <1>1, <1>4, <1>5, SetRowSize DEF ComposerIInv, SizedRows

LEMMA WalletSavedSize ==
  ASSUME ComposerIInv, SizedRows, CallsTyped, NEW w \in Wallets, WalletSaved(w)
  PROVE  Len(tasks') \in 1..MaxTasks
<1> DEFINE n == walletCall.index
           t == [OldRow(n) EXCEPT !.wallet = w, !.coin = walletCall.coin]
<1>1. n \in 1..MaxTasks /\ n \in Nat \ {0} /\ walletCall.coin \in Coins
  BY ComposerAssumption DEF CallsTyped, WalletSaved
<1>2. OldRow(n) \in TaskRows
  BY <1>1, OldRowFits DEF ComposerIInv
<1>3. t \in TaskRows
  BY <1>1, <1>2 DEF TaskRows
<1>4. tasks' = IF n <= Len(tasks) THEN [tasks EXCEPT ![n] = t] ELSE Append(tasks, t)
  BY DEF WalletSaved, SetTask, OldRow
<1> HIDE DEF t, n
<1>5. QED
  BY <1>1, <1>3, <1>4, SetRowSize DEF ComposerIInv, SizedRows

LEMMA FillEditorSize ==
  ASSUME ComposerIInv, SizedRows, NEW s \in Sheets, sheets[s] # Nil, NEW h, FillEditor(s, h)
  PROVE  Len(tasks') \in 1..MaxTasks
<1>1. Len(sheets[s]) \in 1..MaxTasks /\ Len(sheets[s]) \in Nat
  BY ComposerAssumption DEF SizedRows
<1>2. \E f : tasks' = [k \in 1..Len(sheets[s]) |-> f[k]]
  <2> DEFINE f == [k \in 1..Len(sheets[s]) |->
               LET t == sheets[s][k] IN
               [instance |-> t.instance, coin |-> Symbol(t.wallet), choice |-> t.miner,
                miner |-> t.miner, wallet |-> IF h THEN t.wallet ELSE Nil]]
  <2>1. tasks' = f
    BY DEF FillEditor
  <2>2. f = [k \in 1..Len(sheets[s]) |-> f[k]]
    OBVIOUS
  <2> HIDE DEF f
  <2>3. QED
    BY <2>1, <2>2
<1>3. PICK f, L : L = Len(sheets[s]) /\ tasks' = [k \in 1..L |-> f[k]]
  BY <1>2
<1>4. L \in Nat /\ L \in 1..MaxTasks
  BY <1>1, <1>3
<1>5. Len(tasks') = L
  BY <1>3, <1>4
<1>6. QED
  BY <1>4, <1>5

LEMMA SaveSheetSends ==
  ASSUME ComposerIInv, SizedRows, CallsTyped, SaveSheet
  PROVE  /\ saving' \in [sheet : Sheets \cup {Nil}, tasks : Bodies]
         /\ Len(saving'.tasks) \in 1..MaxTasks
<1>1. tasks \in Seq(TaskRows) /\ Len(tasks) \in Nat /\ Len(tasks) \in 1..MaxTasks
  BY DEF ComposerIInv, RowsFit, SizedRows
<1>2. ASSUME NEW n \in 1..Len(tasks)
      PROVE  tasks[n].instance \in Nat /\ tasks[n].wallet \in Wallets /\ tasks[n].miner \in Miners
  <2>1. Complete(tasks[n]) /\ tasks[n] \in TaskRows
    BY <1>1 DEF SaveSheet
  <2>2. QED
    BY <2>1 DEF Complete, TaskRows
<1>3. Body \in Bodies /\ Len(Body) = Len(tasks)
  BY <1>1, <1>2 DEF Body, Bodies
<1>4. saving' = [sheet |-> edit, tasks |-> Body] /\ edit \in Sheets \cup {Nil}
  BY DEF SaveSheet, CallsTyped
<1>5. QED
  BY <1>1, <1>3, <1>4

LEMMA ComposerKeepsSize ==
  ASSUME ComposerIInv, SizedRows, CallsTyped, ComposerNext
  PROVE  SizedRows'
<1>1. Len(tasks') \in 1..MaxTasks
  <2>1. CASE UNCHANGED tasks
    BY <2>1 DEF SizedRows
  <2>2. CASE tasks' = <<NewTask(1)>>
    BY <2>2, BlankFormSize
  <2>3. ASSUME NEW s \in Sheets, NEW h \in BOOLEAN, EditSheet(s) \/ Import(s, h)
        PROVE  Len(tasks') \in 1..MaxTasks
    BY <2>3, FillEditorSize DEF EditSheet, Import
  <2>4. QED
    BY <2>1, <2>2, <2>3, HandKeepsSize, ApplyConfigSize, WalletSavedSize
    DEF ComposerNext, LoadAdapters, CancelConfig, CancelWallet, WalletFailed, SheetNotSaved,
        Configure, AddWallet, SubmitWallet, CancelEdit, DeleteSheet, SaveSheet, SheetSaved, Reset
<1>2. saving' # Nil => Len(saving'.tasks) \in 1..MaxTasks
  <2>1. CASE SaveSheet
    BY <2>1, SaveSheetSends
  <2>2. CASE saving' \in {Nil, saving}
    BY <2>2 DEF SizedRows
  <2>3. QED
    BY <2>1, <2>2 DEF ComposerNext, LoadAdapters, CancelConfig, CancelWallet,
       WalletFailed, SheetNotSaved, Configure, AddWallet, SubmitWallet, AddTask, RemoveTask,
       SetCoin, SetWallet, SetMiner, ApplyConfig, WalletSaved, CancelEdit, EditSheet, DeleteSheet,
       Import, SheetSaved, pendingCalls
<1>3. \A s \in Sheets : sheets'[s] # Nil => Len(sheets'[s]) \in 1..MaxTasks
  <2>1. CASE SheetSaved
    <3>1. PICK s \in Sheets : sheets' = [sheets EXCEPT ![s] = saving.tasks]
      BY <2>1 DEF SheetSaved
    <3>2. Len(saving.tasks) \in 1..MaxTasks
      BY <2>1 DEF SheetSaved, SizedRows
    <3>3. QED
      BY <3>1, <3>2 DEF SizedRows, ComposerIInv, ComposerTypes
  <2>2. ASSUME NEW s \in Sheets, DeleteSheet(s)
        PROVE  \A r \in Sheets : sheets'[r] # Nil => Len(sheets'[r]) \in 1..MaxTasks
    BY <2>2 DEF DeleteSheet, SizedRows, ComposerIInv, ComposerTypes
  <2>3. CASE UNCHANGED sheets
    BY <2>3 DEF SizedRows
  <2>4. QED
    BY <2>1, <2>2, <2>3 DEF ComposerNext, LoadAdapters, CancelConfig, CancelWallet,
       WalletFailed, SheetNotSaved, Configure, AddWallet, SubmitWallet, AddTask, RemoveTask,
       SetCoin, SetWallet, SetMiner, ApplyConfig, WalletSaved, CancelEdit, EditSheet,
       Import, SaveSheet, kept
<1>4. QED
  BY <1>1, <1>2, <1>3 DEF SizedRows

LEMMA ComposerKeepsCalls ==
  ASSUME ComposerIInv, SizedRows, CallsTyped, ComposerNext
  PROVE  CallsTyped'
<1>0. MaxTasks \in Nat /\ \A n \in 1..Len(tasks) : n \in 1..MaxTasks /\ n <= MaxTasks /\ n \in Nat
  BY ComposerAssumption DEF SizedRows
<1>1. configIndex' <= MaxTasks
  <2>1. CASE UNCHANGED configIndex \/ configIndex' = 0
    BY <1>0, <2>1 DEF CallsTyped
  <2>2. ASSUME NEW n \in 1..Len(tasks), Configure(n) \/ \E a \in Builtins \cup {Custom} : SetMiner(n, a)
        PROVE  configIndex' <= MaxTasks
    BY <1>0, <2>2 DEF Configure, SetMiner
  <2>3. QED
    BY <2>1, <2>2 DEF ComposerNext, LoadAdapters, CancelConfig, CancelWallet,
       WalletFailed, SheetNotSaved, AddWallet, SubmitWallet, AddTask, RemoveTask,
       SetCoin, SetWallet, ApplyConfig, WalletSaved, CancelEdit, EditSheet, DeleteSheet,
       Import, SaveSheet, SheetSaved, dialogs
<1>2. adding' \in [index : 1..MaxTasks, coin : Coins \cup {Nil}] \cup {Nil}
  <2>1. CASE adding' \in {adding, Nil}
    BY <2>1 DEF CallsTyped
  <2>2. ASSUME NEW n \in 1..Len(tasks), NEW c \in Coins \cup {Nil}, AddWallet(n, c)
        PROVE  adding' \in [index : 1..MaxTasks, coin : Coins \cup {Nil}]
    BY <1>0, <2>2 DEF AddWallet
  <2>3. QED
    BY <2>1, <2>2 DEF ComposerNext, LoadAdapters, CancelConfig, CancelWallet,
       WalletFailed, SheetNotSaved, Configure, SubmitWallet, AddTask, RemoveTask,
       SetCoin, SetWallet, SetMiner, ApplyConfig, WalletSaved, CancelEdit, EditSheet, DeleteSheet,
       Import, SaveSheet, SheetSaved, dialogs
<1>3. walletCall' \in [index : 1..MaxTasks, coin : Coins] \cup {Nil}
  <2>1. CASE walletCall' \in {walletCall, Nil}
    BY <2>1 DEF CallsTyped
  <2>2. ASSUME NEW c \in Coins, SubmitWallet(c)
        PROVE  walletCall' \in [index : 1..MaxTasks, coin : Coins]
    <3>1. adding.index \in 1..MaxTasks /\ walletCall' = [index |-> adding.index, coin |-> c]
      BY <2>2 DEF SubmitWallet, CallsTyped
    <3>2. QED
      BY <3>1
  <2>3. QED
    BY <2>1, <2>2 DEF ComposerNext, LoadAdapters, CancelConfig, CancelWallet,
       WalletFailed, SheetNotSaved, Configure, AddWallet, AddTask, RemoveTask,
       SetCoin, SetWallet, SetMiner, ApplyConfig, WalletSaved, CancelEdit, EditSheet, DeleteSheet,
       Import, SaveSheet, SheetSaved, pendingCalls
<1>4. edit' \in Sheets \cup {Nil}
  BY DEF CallsTyped, ComposerNext, LoadAdapters, CancelConfig, CancelWallet,
     WalletFailed, SheetNotSaved, Configure, AddWallet, SubmitWallet, AddTask, RemoveTask,
     SetCoin, SetWallet, SetMiner, ApplyConfig, WalletSaved, CancelEdit, EditSheet, DeleteSheet,
     Import, SaveSheet, SheetSaved, Reset
<1>5. saving' \in [sheet : Sheets \cup {Nil}, tasks : Bodies] \cup {Nil}
  <2>1. CASE SaveSheet
    BY <2>1, SaveSheetSends
  <2>2. CASE saving' \in {Nil, saving}
    BY <2>2 DEF CallsTyped
  <2>3. QED
    BY <2>1, <2>2 DEF ComposerNext, LoadAdapters, CancelConfig, CancelWallet,
       WalletFailed, SheetNotSaved, Configure, AddWallet, SubmitWallet, AddTask, RemoveTask,
       SetCoin, SetWallet, SetMiner, ApplyConfig, WalletSaved, CancelEdit, EditSheet, DeleteSheet,
       Import, SheetSaved, pendingCalls
<1>6. edits' \in 0..MaxChanges
  <2>1. \/ edits' = edits
        \/ (edits < MaxChanges /\ edits' = edits + 1)
    BY DEF ComposerNext, LoadAdapters, CancelConfig, CancelWallet,
       WalletFailed, SheetNotSaved, Configure, AddWallet, SubmitWallet, AddTask, RemoveTask,
       SetCoin, SetWallet, SetMiner, ApplyConfig, WalletSaved, CancelEdit, EditSheet, DeleteSheet,
       Import, SaveSheet, SheetSaved, ByHand
  <2>2. QED
    BY <2>1, ComposerAssumption DEF CallsTyped
<1>7. QED
  BY <1>1, <1>2, <1>3, <1>4, <1>5, <1>6 DEF CallsTyped

LEMMA ComposerNextBounds ==
  ComposerIInv /\ SizedRows /\ CallsTyped /\ [ComposerNext]_composerVars => SizedRows' /\ CallsTyped'
<1>1. SizedRows /\ CallsTyped /\ UNCHANGED composerVars => SizedRows' /\ CallsTyped'
  BY DEF composerVars, SizedRows, CallsTyped
<1>2. QED
  BY <1>1, ComposerKeepsSize, ComposerKeepsCalls

\* Type correctness: whatever an answer or a dialog does to rows that are gone, the form keeps
\* at least one row and never has more than a sheet may have; what is stored can be run.
THEOREM ComposerTypesHold == ComposerSpec => []ComposerTypeOK
<1>1. ComposerIInv /\ SizedRows /\ CallsTyped => ComposerTypeOK
  <2> SUFFICES ASSUME ComposerIInv, SizedRows, CallsTyped PROVE ComposerTypeOK
    OBVIOUS
  <2>1. tasks \in Seq(TaskRows) /\ tasks # <<>>
    BY DEF ComposerIInv, RowsFit, SizedRows
  <2>2. sheets \in [Sheets -> Bodies \cup {Nil}]
    BY DEF ComposerIInv, ComposerTypes, SheetsFit, WalletsExist
  <2>3. configIndex \in 0..MaxTasks
    BY ComposerAssumption DEF ComposerIInv, ComposerTypes, CallsTyped
  <2>4. QED
    BY <2>1, <2>2, <2>3 DEF ComposerTypeOK, ComposerIInv, ComposerTypes, SheetsFit, CallsTyped
<1>2. QED
  BY <1>1, ComposerInitBounds, ComposerNextBounds, ComposerInitIInv, ComposerNextIInv, PTL
  DEF ComposerSpec
=============================================================================
