--------------------------- MODULE MachineRecords ---------------------------
(***************************************************************************)
(* The settings of machines, edited from several pages.  The controller    *)
(* replaces the whole record of a machine by what a page sends, without a  *)
(* revision; a page fills what its form does not own from its cached copy, *)
(* which it fetches every 10 seconds and after a save.  A form is built    *)
(* anew when the part of the copy it shows has changed.  Several forms of  *)
(* a page save independently, and tags of many machines are saved one      *)
(* after another.  The machine editor, which sends the record it showed    *)
(* when it was opened, and other clients write what they like at any time. *)
(* A record is a few fields: its tags, two watchdog settings, the critical *)
(* temperature (the last three are one JSON policy); the other columns are *)
(* sent back like these.                                                   *)
(***************************************************************************)
EXTENDS ConsoleObjects, Naturals, Sequences, FiniteSets, SequencesExt

CONSTANTS
  Windows,   \* open pages, of one operator or of several
  Values,    \* values of a field
  Fresh,     \* the value all fields start with
  MaxWrites  \* bound: saves that are sent

ASSUME RecordsAssumption == Fresh \in Values /\ MaxWrites \in Nat /\ IsFiniteSet(Rigs)

VARIABLES
  db,      \* the machines table
  cache,   \* each page's copy of it
  forms,   \* the form a page shows, on one machine
  puts,    \* the saves of a page that are not answered, in the order they are sent
  writes   \* saves sent so far

recordVars == <<db, cache, forms, puts, writes>>

PolicyFields == {"restarts", "window", "critical"}
Fields == PolicyFields \cup {"tags"}
Records == [Fields -> Values]

\* The fields a form writes from its own inputs.
Owned(kind) ==
  CASE kind = "watchdog" -> {"restarts", "window"}
    [] kind = "autofan" -> {"critical"}
    [] kind \in {"tags", "options"} -> {"tags"}

\* Faulty: forms are built once.
FormKeyNever(kind) == {}

\* The fields a form is built anew for: its React key, or what its effect depends on.
FormKey(kind) ==
  CASE kind = "autofan" -> PolicyFields
    [] kind \in {"watchdog", "options"} -> Fields
    [] kind = "tags" -> {"tags"}

Kinds == {"watchdog", "autofan", "tags", "options"}

Form(m, kind, rec) == [machine |-> m, kind |-> kind, values |-> rec, touched |-> {}]

RecordsInit ==
  /\ db = [m \in Rigs |-> [f \in Fields |-> Fresh]]
  /\ cache = [p \in Windows |-> db]
  /\ forms = [p \in Windows |-> Nil]
  /\ puts = [p \in Windows |-> <<>>]
  /\ writes = 0

\* The form after the copy became new: as it is, or from the new copy.
Rendered(f, old, new) ==
  IF f # Nil /\ \E k \in FormKey(f.kind) : old[f.machine][k] # new[f.machine][k]
    THEN Form(f.machine, f.kind, new[f.machine]) ELSE f

\* The list is fetched.
PollMachines(p) ==
  /\ cache[p] # db
  /\ cache' = [cache EXCEPT ![p] = db]
  /\ forms' = [forms EXCEPT ![p] = Rendered(@, cache[p], db)]
  /\ UNCHANGED <<db, puts, writes>>

OpenForm(p, m, kind) ==
  /\ forms' = [forms EXCEPT ![p] = Form(m, kind, cache[p][m])]
  /\ UNCHANGED <<db, cache, puts, writes>>

CloseForm(p) ==
  /\ forms[p] # Nil
  /\ forms' = [forms EXCEPT ![p] = Nil]
  /\ UNCHANGED <<db, cache, puts, writes>>

\* The operator changes an input.
Enter(p, f, v) ==
  /\ forms[p] # Nil /\ f \in Owned(forms[p].kind)
  /\ forms[p].values[f] # v
  /\ forms' = [forms EXCEPT ![p].values[f] = v, ![p].touched = @ \cup {f}]
  /\ UNCHANGED <<db, cache, puts, writes>>

Put(p, m, kind, body, touched) ==
  [machine |-> m, kind |-> kind, body |-> body, touched |-> touched, base |-> cache[p][m]]

\* machineInput: what the form does not own comes from the page's copy.
Merged(rec, values, owned) == [f \in Fields |-> IF f \in owned THEN values[f] ELSE rec[f]]

\* The autofan form is saved only when it differs from the copy.
Savable(f, rec) == f.kind = "autofan" => \E k \in Owned(f.kind) : f.values[k] # rec[k]

\* Save of a form; other forms of the page may still wait for their answers.
SaveForm(p) ==
  LET f == forms[p] IN
  /\ f # Nil /\ Savable(f, cache[p][f.machine]) /\ writes < MaxWrites
  /\ \A n \in 1..Len(puts[p]) : puts[p][n].kind # f.kind
  /\ puts' = [puts EXCEPT ![p] = Append(@,
       Put(p, f.machine, f.kind, Merged(cache[p][f.machine], f.values, Owned(f.kind)), f.touched))]
  /\ writes' = writes + 1
  /\ UNCHANGED <<db, cache, forms>>

\* The tags of several machines: what is sent for the last one is worked out now, too.
BulkTags(p, chosen, v) ==
  LET new(m) == Merged(cache[p][m], [f \in Fields |-> v], {"tags"})
      changed == {m \in chosen : new(m) # cache[p][m]} IN
  /\ puts[p] = <<>> /\ changed # {} /\ writes + Cardinality(changed) <= MaxWrites
  /\ puts' = [puts EXCEPT ![p] = [n \in 1..Cardinality(changed) |->
       LET m == SetToSeq(changed)[n] IN Put(p, m, "tags", new(m), {"tags"})]]
  /\ writes' = writes + Cardinality(changed)
  /\ UNCHANGED <<db, cache, forms>>

Rest(p, n) == puts' = [puts EXCEPT ![p] = RemoveAt(@, n)]

\* The controller replaces the record.  The requests of several forms may overtake each
\* other, those of a bulk edit do not.
Overtakes(p, n) == \A k \in 1..(n - 1) : puts[p][k].kind # puts[p][n].kind

Write(p, n) ==
  /\ n \in 1..Len(puts[p]) /\ Overtakes(p, n)
  /\ db' = [db EXCEPT ![puts[p][n].machine] = puts[p][n].body]
  /\ Rest(p, n)
  /\ UNCHANGED <<cache, forms, writes>>

\* A save fails, and the rest of a bulk edit goes on.
Fails(p, n) ==
  /\ n \in 1..Len(puts[p]) /\ Overtakes(p, n)
  /\ Rest(p, n)
  /\ UNCHANGED <<db, cache, forms, writes>>

\* A field at a time, so that more comes in between.
Elsewhere(m, f, v) ==
  /\ writes < MaxWrites /\ db[m][f] # v
  /\ db' = [db EXCEPT ![m][f] = v]
  /\ writes' = writes + 1
  /\ UNCHANGED <<cache, forms, puts>>

RecordsNext ==
  \/ \E m \in Rigs, f \in Fields, v \in Values : Elsewhere(m, f, v)
  \/ \E p \in Windows :
    \/ PollMachines(p) \/ CloseForm(p) \/ SaveForm(p)
    \/ \E m \in Rigs, kind \in Kinds : OpenForm(p, m, kind)
    \/ \E f \in Fields, v \in Values : Enter(p, f, v)
    \/ \E chosen \in SUBSET Rigs, v \in Values : BulkTags(p, chosen, v)
    \/ \E n \in 1..MaxWrites : Write(p, n) \/ Fails(p, n)

RecordsSpec == RecordsInit /\ [][RecordsNext]_recordVars

(***************************************************************************)
(* Properties.                                                             *)
(***************************************************************************)
PutRequests ==
  [machine : Rigs, kind : Kinds, body : Records, touched : SUBSET Fields, base : Records]

\* Types; a save sends whole records, and changes only what its form owns.
RecordsTypeOK ==
  /\ db \in [Rigs -> Records]
  /\ cache \in [Windows -> [Rigs -> Records]]
  /\ \A p \in Windows : forms[p] # Nil =>
       /\ forms[p].machine \in Rigs /\ forms[p].kind \in Kinds
       /\ forms[p].values \in Records /\ forms[p].touched \subseteq Owned(forms[p].kind)
  /\ puts \in [Windows -> Seq(PutRequests)]
  /\ \A p \in Windows, n \in 1..MaxWrites : n <= Len(puts[p]) =>
       puts[p][n].touched \subseteq Owned(puts[p][n].kind)
  /\ writes \in 0..MaxWrites

\* What a form does not own, or shows but was not changed in, is what the page's copy says
\* at the moment of the save: no form sends back a value the copy no longer had.
UntouchedAsCopied ==
  \A p \in Windows : \A n \in 1..Len(puts[p]) :
    LET put == puts[p][n] IN
    \A f \in Fields \ put.touched : put.body[f] = put.base[f]

\* A save from a copy that is current when the controller executes it changes nothing but
\* what the operator changed, whatever the page's forms showed before and in whatever order
\* its saves arrive.
CurrentCopyKeepsRest ==
  [][\A p \in Windows : \A n \in 1..Len(puts[p]) :
       LET put == puts[p][n] IN
       Write(p, n) /\ put.base = db[put.machine] =>
         \A f \in Fields \ put.touched : db'[put.machine][f] = db[put.machine][f]]_recordVars
=============================================================================
