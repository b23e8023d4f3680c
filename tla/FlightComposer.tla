--------------------------- MODULE FlightComposer ---------------------------
(***************************************************************************)
(* The flight sheet page of the console: one form with a task per miner,   *)
(* filled by hand, from a stored sheet, a copy or an import; a dialog that *)
(* configures the miner of a task; a dialog that creates a wallet for a    *)
(* task; and a save.  Both dialogs cover the page, but a request lives on  *)
(* when its dialog is closed, and the form may show something else when    *)
(* its answer arrives.                                                     *)
(* A task keeps what has to fit together: coin and wallet, the chosen      *)
(* miner and the configured one.  Names, pools, templates and versions are *)
(* left out: a save they forbid changes nothing.  Instance cpu-n is n.     *)
(***************************************************************************)
EXTENDS ConsoleObjects, Naturals, Sequences, FiniteSets, SequencesExt

CONSTANTS
  Wallets,   \* ids of wallets, stored or still to be created
  Coins,     \* coin symbols
  Builtins,  \* adapters with a built-in miner
  Custom,    \* the adapter of custom packages (hive-custom)
  MaxTasks,  \* bound: tasks of a sheet
  MaxChanges \* bound: changes of the rows by hand

ASSUME ComposerAssumption ==
  /\ Custom \notin Builtins
  /\ Nil \notin Wallets \cup Coins \cup Builtins \cup {Custom}
  /\ MaxTasks \in Nat \ {0}
  /\ MaxChanges \in Nat

VARIABLES
  tasks,       \* the rows of the form
  edit,        \* the sheet the form was opened on
  configIndex, \* the row whose miner dialog is open, 0 without one
  adding,      \* the wallet dialog: its row and the coin of that row
  walletCall,  \* the wallet being created: the row it was asked for, its coin
  saving,      \* the save under way: its sheet and tasks
  sheets,      \* stored sheets, as the page lists them
  coinOf,      \* the coin of every stored wallet
  adapters,    \* the built-in miners the page knows: none before they are loaded
  blind,       \* history: a miner was configured before the adapters were loaded
  edits        \* changes of the rows so far

composerVars ==
  <<tasks, edit, configIndex, adding, walletCall, saving, sheets, coinOf, adapters, blind,
    edits>>
dialogs == <<configIndex, adding>>
pendingCalls == <<walletCall, saving>>
kept == <<sheets, coinOf, adapters, blind>>

BlankTask == [instance |-> 0, coin |-> Nil, wallet |-> Nil, choice |-> Nil, miner |-> Nil]
NewTask(n) == [BlankTask EXCEPT !.instance = n]

\* The coin of a wallet, as the wallet list gives it.
Symbol(w) == IF w = Nil THEN Nil ELSE coinOf[w]

ComposerInit ==
  /\ tasks = <<NewTask(1)>> /\ edit = Nil
  /\ configIndex = 0 /\ adding = Nil
  /\ walletCall = Nil /\ saving = Nil
  /\ sheets = [s \in Sheets |-> Nil]
  /\ \E known \in SUBSET Wallets : coinOf \in [Wallets -> Coins \cup {Nil}]
       /\ \A w \in Wallets : coinOf[w] = Nil <=> w \notin known
  /\ adapters = {} /\ blind = FALSE /\ edits = 0

\* A dialog covers the page.
Free == configIndex = 0 /\ adding = Nil
ByHand == Free /\ edits < MaxChanges /\ edits' = edits + 1

\* setTask: fields of a row are replaced; a row past the end comes into being.
SetTask(n, patch(_)) ==
  tasks' = IF n <= Len(tasks) THEN [tasks EXCEPT ![n] = patch(@)]
           ELSE Append(tasks, patch(BlankTask))

Reset == tasks' = <<NewTask(1)>> /\ edit' = Nil

LoadAdapters ==
  /\ adapters = {} /\ adapters' = Builtins
  /\ UNCHANGED <<tasks, edit, dialogs, pendingCalls, sheets, coinOf, blind, edits>>

(***************************************************************************)
(* The rows.                                                               *)
(***************************************************************************)

\* Faulty: a changed coin keeps the wallet.
SetCoinOnly(n, c) ==
  /\ ByHand
  /\ SetTask(n, LAMBDA t : [t EXCEPT !.coin = c])
  /\ UNCHANGED <<edit, dialogs, pendingCalls, kept>>

SetCoin(n, c) ==
  /\ ByHand
  /\ SetTask(n, LAMBDA t : [t EXCEPT !.coin = c, !.wallet = Nil])
  /\ UNCHANGED <<edit, dialogs, pendingCalls, kept>>

\* The wallets of the row's coin are offered.
SetWallet(n, w) ==
  /\ ByHand /\ tasks[n].coin # Nil /\ Symbol(w) = tasks[n].coin
  /\ SetTask(n, LAMBDA t : [t EXCEPT !.wallet = w])
  /\ UNCHANGED <<edit, dialogs, pendingCalls, kept>>

\* Faulty: the miner configured before stays.
SetMinerChoice(n, a) ==
  /\ ByHand /\ a \in adapters \cup {Custom}
  /\ SetTask(n, LAMBDA t : [t EXCEPT !.choice = a])
  /\ configIndex' = n
  /\ UNCHANGED <<edit, adding, pendingCalls, kept>>

\* Another miner starts from its default and opens the dialog.
SetMiner(n, a) ==
  /\ ByHand /\ a \in adapters \cup {Custom}
  /\ SetTask(n, LAMBDA t : [t EXCEPT !.choice = a, !.miner = IF a = Custom THEN Nil ELSE a])
  /\ configIndex' = n
  /\ UNCHANGED <<edit, adding, pendingCalls, kept>>

\* Faulty: the next number is the number of rows plus one.
AddTaskCounting ==
  /\ ByHand /\ Len(tasks) < MaxTasks
  /\ tasks' = Append(tasks, NewTask(Len(tasks) + 1))
  /\ UNCHANGED <<edit, dialogs, pendingCalls, kept>>

\* The lowest cpu-n that is free.
AddTask ==
  LET n == CHOOSE n \in 1..(Len(tasks) + 1) :
             /\ \A m \in 1..Len(tasks) : tasks[m].instance # n
             /\ \A k \in 1..(n - 1) : \E m \in 1..Len(tasks) : tasks[m].instance = k IN
  /\ ByHand /\ Len(tasks) < MaxTasks
  /\ tasks' = Append(tasks, NewTask(n))
  /\ UNCHANGED <<edit, dialogs, pendingCalls, kept>>

RemoveTask(n) ==
  /\ ByHand /\ Len(tasks) > 1
  /\ tasks' = RemoveAt(tasks, n)
  /\ UNCHANGED <<edit, dialogs, pendingCalls, kept>>

(***************************************************************************)
(* The miner dialog.                                                       *)
(***************************************************************************)
Configure(n) ==
  /\ Free /\ tasks[n].choice # Nil
  /\ configIndex' = n
  /\ UNCHANGED <<tasks, edit, adding, pendingCalls, kept, edits>>

\* The row under the dialog: gone when a save has emptied the form meanwhile.
ConfiguredTask == IF configIndex <= Len(tasks) THEN tasks[configIndex] ELSE BlankTask

\* A miner that is not among the loaded adapters is configured as a custom package.
ApplyConfig ==
  LET adapter == IF ConfiguredTask.choice \in adapters THEN ConfiguredTask.choice ELSE Custom IN
  /\ configIndex # 0
  /\ SetTask(configIndex, LAMBDA t : [t EXCEPT !.miner = adapter])
  /\ configIndex' = 0
  /\ blind' = (blind \/ ConfiguredTask.choice \in Builtins \ adapters)
  /\ UNCHANGED <<edit, adding, pendingCalls, sheets, coinOf, adapters, edits>>

CancelConfig ==
  /\ configIndex # 0 /\ configIndex' = 0
  /\ UNCHANGED <<tasks, edit, adding, pendingCalls, kept, edits>>

(***************************************************************************)
(* The wallet dialog.                                                      *)
(***************************************************************************)

\* From the wallet field with the row's coin, from the coin field with the text typed there.
AddWallet(n, c) ==
  /\ Free
  /\ adding' = [index |-> n, coin |-> c]
  /\ UNCHANGED <<tasks, edit, configIndex, pendingCalls, kept, edits>>

SubmitWallet(c) ==
  /\ adding # Nil /\ walletCall = Nil
  /\ adding.coin \in {Nil, c}
  /\ walletCall' = [index |-> adding.index, coin |-> c]
  /\ UNCHANGED <<tasks, edit, dialogs, saving, kept, edits>>

CancelWallet ==
  /\ adding # Nil /\ adding' = Nil
  /\ UNCHANGED <<tasks, edit, configIndex, pendingCalls, kept, edits>>

\* The new wallet is entered, with its coin, in the row it was asked for by number, whatever
\* that row is now, and the dialog is closed, whatever row it is open for.
WalletSaved(w) ==
  /\ walletCall # Nil /\ coinOf[w] = Nil
  /\ coinOf' = [coinOf EXCEPT ![w] = walletCall.coin]
  /\ SetTask(walletCall.index, LAMBDA t : [t EXCEPT !.wallet = w, !.coin = walletCall.coin])
  /\ adding' = Nil /\ walletCall' = Nil
  /\ UNCHANGED <<edit, configIndex, saving, sheets, adapters, blind, edits>>

WalletFailed ==
  /\ walletCall # Nil /\ walletCall' = Nil
  /\ UNCHANGED <<tasks, edit, dialogs, saving, kept, edits>>

(***************************************************************************)
(* The sheets.                                                             *)
(***************************************************************************)

\* fillEditor: the coin comes from the wallet, the choice from the miner.
FillEditor(s, hasWallets) ==
  tasks' = [n \in 1..Len(sheets[s]) |->
    LET t == sheets[s][n] IN
    [instance |-> t.instance, coin |-> Symbol(t.wallet), choice |-> t.miner, miner |-> t.miner,
     wallet |-> IF hasWallets THEN t.wallet ELSE Nil]]

EditSheet(s) ==
  /\ ByHand /\ sheets[s] # Nil
  /\ edit' = s /\ FillEditor(s, TRUE)
  /\ UNCHANGED <<dialogs, pendingCalls, kept>>

\* A copy, or an import of an export, here or on a console that lacks the wallets.  The file is
\* read some time after it was chosen, when a dialog may be open.
Import(s, hasWallets) ==
  /\ edits < MaxChanges /\ edits' = edits + 1 /\ sheets[s] # Nil
  /\ edit' = Nil /\ FillEditor(s, hasWallets)
  /\ UNCHANGED <<dialogs, pendingCalls, kept>>

CancelEdit ==
  /\ Free /\ Reset
  /\ UNCHANGED <<dialogs, pendingCalls, kept, edits>>

DeleteSheet(s) ==
  /\ Free /\ sheets[s] # Nil
  /\ sheets' = [sheets EXCEPT ![s] = Nil]
  /\ UNCHANGED <<tasks, edit, dialogs, pendingCalls, coinOf, adapters, blind, edits>>

\* What the form's rules and save demand of a row.
Complete(t) ==
  /\ t.coin # Nil /\ t.wallet # Nil /\ t.choice # Nil
  /\ t.miner # Nil

Body == [n \in 1..Len(tasks) |->
  [instance |-> tasks[n].instance, wallet |-> tasks[n].wallet, miner |-> tasks[n].miner]]

SaveSheet ==
  /\ Free /\ saving = Nil
  /\ \A n \in 1..Len(tasks) : Complete(tasks[n])
  /\ saving' = [sheet |-> edit, tasks |-> Body]
  /\ UNCHANGED <<tasks, edit, dialogs, walletCall, kept, edits>>

\* save_flight: the instances of a sheet are named, and named differently.
Valid(body) ==
  /\ \A n \in 1..Len(body) : body[n].instance # 0
  /\ \A m, n \in 1..Len(body) : body[m].instance = body[n].instance => m = n

\* The sheet is stored (a deleted one again), and the form is emptied whatever it shows now.
SheetSaved ==
  /\ saving # Nil /\ Valid(saving.tasks)
  /\ \E s \in Sheets :
       /\ IF saving.sheet = Nil THEN sheets[s] = Nil ELSE s = saving.sheet
       /\ sheets' = [sheets EXCEPT ![s] = saving.tasks]
  /\ saving' = Nil
  /\ Reset
  /\ UNCHANGED <<dialogs, walletCall, coinOf, adapters, blind, edits>>

SheetNotSaved ==
  /\ saving # Nil /\ saving' = Nil
  /\ UNCHANGED <<tasks, edit, dialogs, walletCall, kept, edits>>

ComposerNext ==
  \/ LoadAdapters \/ AddTask \/ ApplyConfig \/ CancelConfig \/ CancelWallet \/ WalletFailed
  \/ CancelEdit \/ SaveSheet \/ SheetSaved \/ SheetNotSaved
  \/ \E n \in 1..Len(tasks) :
       \/ RemoveTask(n) \/ Configure(n)
       \/ \E c \in Coins : SetCoin(n, c)
       \/ \E w \in Wallets : SetWallet(n, w)
       \/ \E a \in Builtins \cup {Custom} : SetMiner(n, a)
       \/ \E c \in Coins \cup {Nil} : AddWallet(n, c)
  \/ \E c \in Coins : SubmitWallet(c)
  \/ \E w \in Wallets : WalletSaved(w)
  \/ \E s \in Sheets : EditSheet(s) \/ DeleteSheet(s)
  \/ \E s \in Sheets, hasWallets \in BOOLEAN : Import(s, hasWallets)

ComposerSpec == ComposerInit /\ [][ComposerNext]_composerVars

(***************************************************************************)
(* Properties.                                                             *)
(***************************************************************************)
Miners == Builtins \cup {Custom}
TaskRows ==
  [instance : Nat, coin : Coins \cup {Nil}, wallet : Wallets \cup {Nil},
   choice : Miners \cup {Nil}, miner : Miners \cup {Nil}]
Bodies == Seq([instance : Nat, wallet : Wallets, miner : Miners])

\* Types; what is stored or sent is a sheet rigs can run: every task has a wallet and a
\* configured miner, and an instance name of its own once it is stored.
ComposerTypeOK ==
  /\ tasks \in Seq(TaskRows) /\ tasks # <<>>
  /\ edit \in Sheets \cup {Nil}
  /\ configIndex \in 0..MaxTasks
  /\ adding \in [index : 1..MaxTasks, coin : Coins \cup {Nil}] \cup {Nil}
  /\ walletCall \in [index : 1..MaxTasks, coin : Coins] \cup {Nil}
  /\ saving \in [sheet : Sheets \cup {Nil}, tasks : Bodies] \cup {Nil}
  /\ sheets \in [Sheets -> Bodies \cup {Nil}]
  /\ coinOf \in [Wallets -> Coins \cup {Nil}]
  /\ adapters \in {{}, Builtins} /\ blind \in BOOLEAN /\ edits \in 0..MaxChanges
  /\ \A s \in Sheets : sheets[s] # Nil => Valid(sheets[s])

\* The wallet of a row is a wallet of the coin the row shows, also after a new wallet's
\* answer lands in a row that is another one by then: nothing is mined to an address of
\* another coin than the operator sees.
WalletMatchesCoin ==
  \A n \in 1..Len(tasks) :
    tasks[n].wallet # Nil => tasks[n].coin # Nil /\ coinOf[tasks[n].wallet] = tasks[n].coin

\* The miner a row will save is the one it shows as chosen, also when the form is emptied
\* under an open dialog - unless one was configured before the built-in miners were loaded:
\* then the dialog takes it for a custom package and turns the row into one.
MinerMatchesChoice ==
  ~blind =>
    \A n \in 1..Len(tasks) :
      tasks[n].miner # Nil /\ tasks[n].choice # Nil => tasks[n].miner = tasks[n].choice

\* Rows never get the instance name of another row, in any order of adding, removing,
\* loading and emptying; save_flight would refuse the whole sheet.
InstancesDiffer ==
  \A m, n \in 1..Len(tasks) :
    tasks[m].instance = tasks[n].instance /\ tasks[m].instance # 0 => m = n
=============================================================================
