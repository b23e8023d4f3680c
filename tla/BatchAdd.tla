------------------------------ MODULE BatchAdd ------------------------------
(***************************************************************************)
(* The dialog that adds many machines: their addresses and a credential    *)
(* for all, then the SSH fingerprints fetched from the addresses, of which *)
(* the operator keeps some, then what became of each.  The fields can be   *)
(* edited while the fingerprints are fetched, the choice changed while the *)
(* machines are added, the dialog closed and opened again during both; the *)
(* button stays busy meanwhile.  Results come without an address: it is    *)
(* their position that tells whose they are.  How lines and ranges become  *)
(* addresses is not modelled; a fingerprint is named by the host it is of. *)
(***************************************************************************)
EXTENDS ConsoleObjects, Naturals, Sequences, FiniteSets, SequencesExt

CONSTANTS
  MaxTargets,  \* bound: addresses in a list
  MaxBatches   \* bound: how often the dialog is opened

ASSUME BatchAssumption == Nil \notin Hosts /\ {MaxTargets, MaxBatches} \subseteq Nat

VARIABLES
  times,    \* how often the dialog was opened
  unfolded, \* the dialog is open
  step,     \* 0 the addresses, 1 the fingerprints, 2 the results
  targets,  \* the addresses in the form
  password, \* the credential in the form, named by the opening it was entered in
  rows,     \* the table: host, fingerprint, whether it is included, what became of it
  asking,   \* the request under way: the addresses to probe, or the rows to add
  added     \* the machines, with the fingerprints they were added with

batchVars == <<times, unfolded, step, targets, password, rows, asking, added>>

Lists == UNION {[1..n -> Hosts] : n \in 1..MaxTargets}
Row(h, key) == [host |-> h, key |-> key, include |-> key # Nil, result |-> Nil]

BlankBatch == step' = 0 /\ rows' = <<>> /\ targets' = <<>> /\ password' = Nil

BatchInit ==
  /\ times = 0 /\ unfolded = FALSE /\ step = 0 /\ rows = <<>> /\ targets = <<>> /\ password = Nil
  /\ asking = Nil /\ added = {}

OpenBatch ==
  /\ ~unfolded /\ times < MaxBatches
  /\ unfolded' = TRUE /\ times' = times + 1
  /\ UNCHANGED <<step, targets, password, rows, asking, added>>

\* Closed, also with its last button; what is under way goes on.
CloseBatch ==
  /\ unfolded
  /\ unfolded' = FALSE /\ BlankBatch
  /\ UNCHANGED <<times, asking, added>>

EnterTargets(list) ==
  /\ unfolded /\ step = 0 /\ targets # list
  /\ targets' = list
  /\ UNCHANGED <<times, unfolded, step, password, rows, asking, added>>

EnterPassword ==
  /\ unfolded /\ step = 0 /\ password # times
  /\ password' = times
  /\ UNCHANGED <<times, unfolded, step, targets, rows, asking, added>>

(***************************************************************************)
(* Fingerprints.                                                           *)
(***************************************************************************)
AskKeys ==
  /\ unfolded /\ step = 0 /\ asking = Nil
  /\ targets # <<>> /\ password # Nil
  /\ asking' = [kind |-> "probe", list |-> targets]
  /\ UNCHANGED <<times, unfolded, step, targets, password, rows, added>>

\* Some hosts do not answer.  Sixteen are asked at once and the results sorted: the rows are
\* those asked for, whatever the form says now.
ProbeAnswered ==
  /\ asking # Nil /\ asking.kind = "probe"
  /\ \E reached \in SUBSET DOMAIN asking.list :
       rows' = [n \in DOMAIN asking.list |->
                  Row(asking.list[n], IF n \in reached THEN asking.list[n] ELSE Nil)]
  /\ step' = 1 /\ asking' = Nil
  /\ UNCHANGED <<times, unfolded, targets, password, added>>

RequestFails ==
  /\ asking # Nil
  /\ asking' = Nil
  /\ UNCHANGED <<times, unfolded, step, targets, password, rows, added>>

Back ==
  /\ unfolded /\ step = 1
  /\ step' = 0
  /\ UNCHANGED <<times, unfolded, targets, password, rows, asking, added>>

\* Also while the machines are being added.
Include(n) ==
  /\ unfolded /\ step = 1 /\ rows[n].key # Nil
  /\ rows' = [rows EXCEPT ![n].include = ~@]
  /\ UNCHANGED <<times, unfolded, step, targets, password, asking, added>>

(***************************************************************************)
(* The machines.                                                           *)
(***************************************************************************)

Included(row) == row.include /\ row.key # Nil

\* The rows chosen, from the first to the last.
Chosen == {n \in DOMAIN rows : Included(rows[n])}

InOrder(S) ==
  {q \in [1..Cardinality(S) -> S] : \A j, k \in DOMAIN q : j < k => q[j] < q[k]}

Create ==
  /\ unfolded /\ step = 1 /\ asking = Nil /\ Chosen # {}
  /\ \E q \in InOrder(Chosen) :
       asking' = [kind |-> "create", password |-> password,
                  places |-> [k \in DOMAIN q |-> [at |-> q[k], row |-> rows[q[k]]]]]
  /\ UNCHANGED <<times, unfolded, step, targets, password, rows, added>>

\* Faulty: the results are those of the rows included now.
PairedNow(places, results) ==
  LET now == CHOOSE q \in InOrder(Chosen) : TRUE IN
  [n \in DOMAIN rows |->
     IF \E k \in DOMAIN now \cap DOMAIN results : now[k] = n
       THEN [rows[n] EXCEPT !.result = results[CHOOSE k \in DOMAIN now : now[k] = n]]
       ELSE rows[n]]

\* The results are those of the rows submitted, found again by number and host.
Paired(places, results) ==
  [n \in DOMAIN rows |->
     IF \E k \in DOMAIN places : places[k].at = n /\ places[k].row.host = rows[n].host
       THEN [rows[n] EXCEPT !.result = results[CHOOSE k \in DOMAIN places : places[k].at = n]]
       ELSE rows[n]]

\* The machines are stored one after another, and some refused; without a credential the
\* request is, see RequestFails.
Created ==
  /\ asking # Nil /\ asking.kind = "create" /\ asking.password # Nil
  /\ \E stored \in SUBSET DOMAIN asking.places :
       LET places == asking.places
           results == [k \in DOMAIN places |-> [host |-> places[k].row.host, ok |-> k \in stored]] IN
       /\ added' = added \cup {[host |-> places[k].row.host, key |-> places[k].row.key] : k \in stored}
       /\ rows' = Paired(places, results)
  /\ step' = 2 /\ asking' = Nil
  /\ UNCHANGED <<times, unfolded, targets, password>>

\* The answer is lost.
CreatedUnheard ==
  /\ asking # Nil /\ asking.kind = "create" /\ asking.password # Nil
  /\ added' = added \cup {[host |-> p.row.host, key |-> p.row.key] : p \in ToSet(asking.places)}
  /\ asking' = Nil
  /\ UNCHANGED <<times, unfolded, step, targets, password, rows>>

BatchNext ==
  \/ OpenBatch \/ CloseBatch \/ EnterPassword \/ AskKeys \/ ProbeAnswered \/ RequestFails
  \/ Back \/ Create \/ Created \/ CreatedUnheard
  \/ \E list \in Lists : EnterTargets(list)
  \/ \E n \in DOMAIN rows : Include(n)

BatchSpec == BatchInit /\ [][BatchNext]_batchVars

(***************************************************************************)
(* Properties.                                                             *)
(***************************************************************************)
Fingerprints == Hosts \cup {Nil}
Results == [host : Hosts, ok : BOOLEAN] \cup {Nil}
BatchRows == [host : Hosts, key : Fingerprints, include : BOOLEAN, result : Results]

\* Types; only a row with a fingerprint is included.
BatchTypeOK ==
  /\ times \in 0..MaxBatches /\ unfolded \in BOOLEAN /\ step \in 0..2
  /\ targets \in Lists \cup {<<>>} /\ password \in (1..times) \cup {Nil}
  /\ rows \in Seq(BatchRows) /\ Len(rows) <= MaxTargets
  /\ \A n \in DOMAIN rows : rows[n].include => rows[n].key # Nil
  /\ added \subseteq [host : Hosts, key : Hosts]

\* Every row tells the truth about its host: the fingerprint shown is its own, and so is what
\* became of it; whatever was edited, chosen, closed and opened between a request and its
\* answer.  So no machine is added with the fingerprint of another.
RowsTellTruth ==
  /\ \A n \in DOMAIN rows :
       /\ rows[n].key \in {rows[n].host, Nil}
       /\ rows[n].result # Nil => rows[n].result.host = rows[n].host
  /\ \A m \in added : m.key = m.host
=============================================================================
