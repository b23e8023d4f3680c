--------------------------- MODULE MachineEditor ----------------------------
(***************************************************************************)
(* The dialog that adds or edits a machine: its SSH address with the host  *)
(* key the controller will insist on, and the credential.  An empty host   *)
(* key is fetched from the address, on a button or while saving, and shown *)
(* to the operator; a private key is read from a file.  Both take a while, *)
(* and meanwhile the address or the kind of credential may be changed, the *)
(* dialog closed and opened again, or a save answered that closes it.      *)
(* keyReadVersion, a counter of such changes, is here what its comparison  *)
(* tells: whether a fetch or a reading is still current.  Name, tags, BMC  *)
(* and policy are in MachineRecords.                                       *)
(***************************************************************************)
EXTENDS ConsoleObjects, Naturals, FiniteSets

CONSTANTS
  HostKeys,    \* fingerprints servers may have
  Machine,     \* the stored machine: its host and host key
  MaxOpenings  \* bound: how often the dialog is opened

ASSUME EditorAssumption ==
  /\ Machine \in [host : Hosts, key : HostKeys]
  /\ Nil \notin Hosts \cup HostKeys
  /\ Nil \notin [host : Hosts, current : BOOLEAN, answer : HostKeys \cup {Nil}]
  /\ MaxOpenings \in Nat

VARIABLES
  opening,  \* how often the dialog was opened
  shown,    \* the dialog is open
  form,     \* its fields: host, host_key, auth, secret
  probe,    \* the fetch of a host key: its host, whether it is current, the answer
  sending,  \* the save: its fields, and whether it waits for the probe or the controller
  reading,  \* the key files being read: their dialog, whether it is current
  stored,   \* the machine's host and host key
  trusted   \* history: pairs of host and key the operator typed or confirmed

editorVars == <<opening, shown, form, probe, sending, reading, stored, trusted>>

Auths == {"password", "private_key"}

\* A secret is of the kind it was entered for, in one opening of the dialog.
Secret(kind) == [kind |-> kind, opening |-> opening]

EditorInit ==
  /\ opening = 0 /\ shown = FALSE
  /\ form = [host |-> Machine.host, key |-> Machine.key, auth |-> "password", secret |-> Nil]
  /\ probe = Nil /\ sending = Nil /\ reading = {}
  /\ stored = Machine
  /\ trusted = {Machine}

Stale(reads) == {[r EXCEPT !.current = FALSE] : r \in reads}

\* keyReadVersion is raised: nothing under way is current any more.
Outdate ==
  /\ probe' = IF probe = Nil THEN Nil ELSE [probe EXCEPT !.current = FALSE]
  /\ reading' = Stale(reading)

Busy == sending # Nil
Probing == probe # Nil

\* A confirmation covers the dialog.
Usable == shown /\ (Probing => probe.answer = Nil)

(***************************************************************************)
(* Opening and closing.                                                    *)
(***************************************************************************)
OpenMachine ==
  /\ ~shown /\ opening < MaxOpenings
  /\ shown' = TRUE /\ opening' = opening + 1
  /\ form' = [host |-> stored.host, key |-> stored.key, auth |-> "password", secret |-> Nil]
  /\ Outdate
  /\ UNCHANGED <<sending, stored, trusted>>

CancelMachine ==
  /\ Usable
  /\ shown' = FALSE /\ Outdate
  /\ UNCHANGED <<opening, form, sending, stored, trusted>>

(***************************************************************************)
(* The fields.                                                             *)
(***************************************************************************)

\* Faulty: the host key stays when the address changes.
EnterHostOnly(h) ==
  /\ Usable /\ form.host # h
  /\ form' = [form EXCEPT !.host = h]
  /\ UNCHANGED <<opening, shown, probe, sending, reading, stored, trusted>>

\* Another address or port empties the host key.
EnterHost(h) ==
  /\ Usable /\ form.host # h
  /\ form' = [form EXCEPT !.host = h, !.key = Nil]
  /\ UNCHANGED <<opening, shown, probe, sending, reading, stored, trusted>>

\* A known fingerprint is typed, or emptied to have it fetched.
EnterKey(k) ==
  /\ Usable
  /\ form' = [form EXCEPT !.key = k]
  /\ trusted' = IF k = Nil THEN trusted ELSE trusted \cup {[host |-> form.host, key |-> k]}
  /\ UNCHANGED <<opening, shown, probe, sending, reading, stored>>

\* Faulty: a file being read is not outdated.
EnterAuthOnly(a) ==
  /\ Usable /\ form.auth # a
  /\ form' = [form EXCEPT !.auth = a, !.secret = Nil]
  /\ UNCHANGED <<opening, shown, probe, sending, reading, stored, trusted>>

\* Another kind of credential empties the secret.
EnterAuth(a) ==
  /\ Usable /\ form.auth # a
  /\ form' = [form EXCEPT !.auth = a, !.secret = Nil]
  /\ Outdate
  /\ UNCHANGED <<opening, shown, sending, stored, trusted>>

EnterSecret ==
  /\ Usable
  /\ form' = [form EXCEPT !.secret = Secret(form.auth)]
  /\ UNCHANGED <<opening, shown, probe, sending, reading, stored, trusted>>

\* A key file is chosen: what was under way is outdated, a fetch of the host key as well.
ChooseFile ==
  /\ Usable /\ form.auth = "private_key" /\ Cardinality(reading) < 2
  /\ probe' = IF Probing THEN [probe EXCEPT !.current = FALSE] ELSE Nil
  /\ reading' = Stale(reading) \cup {[opening |-> opening, current |-> TRUE]}
  /\ UNCHANGED <<opening, shown, form, sending, stored, trusted>>

RemoveFile ==
  /\ Usable /\ form.auth = "private_key"
  /\ form' = [form EXCEPT !.secret = Nil]
  /\ Outdate
  /\ UNCHANGED <<opening, shown, sending, stored, trusted>>

\* The file is read: a private key lands in the form, unless the reading is outdated.
FileRead(r) ==
  /\ reading' = reading \ {r}
  /\ form' = IF r.current
               THEN [form EXCEPT !.secret = [kind |-> "private_key", opening |-> r.opening]]
               ELSE form
  /\ UNCHANGED <<opening, shown, probe, sending, stored, trusted>>

(***************************************************************************)
(* The host key.                                                           *)
(***************************************************************************)
Fetch(h) == probe' = [host |-> h, current |-> TRUE, answer |-> Nil]

Probe ==
  /\ Usable /\ ~Busy /\ ~Probing
  /\ Fetch(form.host)
  /\ UNCHANGED <<opening, shown, form, sending, reading, stored, trusted>>

\* The dialog still is about the address the key was fetched from.
Unchanged == probe.current /\ form.host = probe.host

\* A save that waits for the probe ends with it.
EndProbe == probe' = Nil /\ sending' = IF Busy /\ sending.waits THEN Nil ELSE sending

\* The server shows a key, today's; it is shown to the operator.
Fetched(k) ==
  /\ Probing /\ probe.answer = Nil
  /\ IF Unchanged THEN probe' = [probe EXCEPT !.answer = k] /\ UNCHANGED sending ELSE EndProbe
  /\ UNCHANGED <<opening, shown, form, reading, stored, trusted>>

FetchFails ==
  /\ Probing /\ probe.answer = Nil
  /\ EndProbe
  /\ UNCHANGED <<opening, shown, form, reading, stored, trusted>>

\* The operator trusts the server: its key is entered, and a save that waited is sent.
Trust ==
  /\ Probing /\ probe.answer # Nil
  /\ trusted' = trusted \cup {[host |-> probe.host, key |-> probe.answer]}
  /\ IF Unchanged
       THEN /\ form' = [form EXCEPT !.key = probe.answer]
            /\ probe' = Nil
            /\ sending' = IF Busy /\ sending.waits
                            THEN [sending EXCEPT !.key = probe.answer, !.waits = FALSE] ELSE sending
       ELSE EndProbe /\ UNCHANGED form
  /\ UNCHANGED <<opening, shown, reading, stored>>

Distrust ==
  /\ Probing /\ probe.answer # Nil
  /\ EndProbe
  /\ UNCHANGED <<opening, shown, form, reading, stored, trusted>>

(***************************************************************************)
(* Saving.                                                                 *)
(***************************************************************************)

\* The fields are taken at once; an empty host key is fetched first.
SaveMachine ==
  /\ Usable /\ ~Busy /\ ~Probing
  /\ sending' = [host |-> form.host, key |-> form.key, auth |-> form.auth,
                 secret |-> form.secret, waits |-> form.key = Nil]
  /\ IF form.key = Nil THEN Fetch(form.host) ELSE UNCHANGED probe
  /\ UNCHANGED <<opening, shown, form, reading, stored, trusted>>

\* The machine is stored and the dialog closed, even when it was opened again meanwhile.
MachineSaved ==
  /\ Busy /\ ~sending.waits
  /\ stored' = [host |-> sending.host, key |-> sending.key]
  /\ sending' = Nil /\ shown' = FALSE
  /\ UNCHANGED <<opening, form, probe, reading, trusted>>

MachineNotSaved ==
  /\ Busy /\ ~sending.waits
  /\ sending' = Nil
  /\ UNCHANGED <<opening, shown, form, probe, reading, stored, trusted>>

EditorNext ==
  \/ OpenMachine \/ CancelMachine \/ EnterSecret \/ ChooseFile \/ RemoveFile
  \/ Probe \/ FetchFails \/ Trust \/ Distrust \/ SaveMachine \/ MachineSaved \/ MachineNotSaved
  \/ \E h \in Hosts : EnterHost(h)
  \/ \E k \in HostKeys \cup {Nil} : EnterKey(k)
  \/ \E a \in Auths : EnterAuth(a)
  \/ \E r \in reading : FileRead(r)
  \/ \E k \in HostKeys : Fetched(k)

EditorSpec == EditorInit /\ [][EditorNext]_editorVars

(***************************************************************************)
(* Properties.                                                             *)
(***************************************************************************)
Secrets == [kind : Auths, opening : 1..MaxOpenings] \cup {Nil}
Pairs == [host : Hosts, key : HostKeys]

\* Types; a save without a host key waits for a probe.
EditorTypeOK ==
  /\ opening \in 0..MaxOpenings /\ shown \in BOOLEAN
  /\ form \in [host : Hosts, key : HostKeys \cup {Nil}, auth : Auths, secret : Secrets]
  /\ probe \in [host : Hosts, current : BOOLEAN, answer : HostKeys \cup {Nil}] \cup {Nil}
  /\ sending \in [host : Hosts, key : HostKeys \cup {Nil}, auth : Auths, secret : Secrets,
                  waits : BOOLEAN] \cup {Nil}
  /\ reading \subseteq [opening : 1..MaxOpenings, current : BOOLEAN]
  /\ stored \in Pairs /\ trusted \subseteq Pairs
  /\ sending # Nil => (sending.key = Nil <=> sending.waits)
  /\ sending # Nil /\ sending.waits => probe # Nil

\* The machine is only ever stored with a host key the operator typed for, or confirmed of,
\* this very address: a key fetched from one address is never kept for another.
HostKeyIsTrusted == stored \in trusted

\* A credential is sent as the kind it was entered as, and was entered in the dialog that is
\* saved: a key file read late lands neither as a password nor in a dialog opened later.
SecretIsOfThisDialog ==
  /\ form.secret # Nil /\ shown => form.secret.opening = opening /\ form.secret.kind = form.auth
  /\ sending # Nil /\ sending.secret # Nil => sending.secret.kind = sending.auth
=============================================================================
