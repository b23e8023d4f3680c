--------------------------- MODULE MachineProofs ----------------------------
(***************************************************************************)
(* Proofs about MachineEditor, MachineRecords and BatchAdd, for all sets   *)
(* of machines, pages, addresses and host keys, and any number of openings *)
(* of the dialogs and of saves: no machine is stored with a host key that  *)
(* is not trusted for its address, no credential lands where it was not    *)
(* entered, no save sends back what its page's copy no longer had, and the *)
(* results of a batch stand beside their own addresses.                    *)
(***************************************************************************)
EXTENDS MachineEditor, MachineRecords, BatchAdd, FiniteSetTheorems, TLAPS

(***************************************************************************)
(* The editor of a machine.                                                *)
(***************************************************************************)

\* A host key in the form, and one that is sent, is trusted for the address beside it.
KeysAreTrusted ==
  /\ form.key # Nil => [host |-> form.host, key |-> form.key] \in trusted
  /\ sending # Nil /\ ~sending.waits => [host |-> sending.host, key |-> sending.key] \in trusted

\* A save waits for the key of the very address it will send.
WaitsForItsHost == sending # Nil /\ sending.waits => sending.host = probe.host

\* A reading that may still land belongs to the last dialog, and to a private key.
CurrentReadingIsOfThisDialog ==
  \A r \in reading : r.current => r.opening = opening /\ form.auth = "private_key"

\* Also a closed dialog, which is emptied when it is opened, has no secret of another one.
SecretIsOfLastDialog ==
  form.secret # Nil => form.secret.opening = opening /\ form.secret.kind = form.auth

SentSecretFits == sending # Nil /\ sending.secret # Nil => sending.secret.kind = sending.auth

EditorIInv ==
  /\ EditorTypeOK
  /\ shown => opening # 0
  /\ KeysAreTrusted
  /\ WaitsForItsHost
  /\ HostKeyIsTrusted
  /\ CurrentReadingIsOfThisDialog
  /\ SecretIsOfLastDialog
  /\ SentSecretFits

LEMMA EditorInitIInv == EditorInit => EditorIInv
<1> SUFFICES ASSUME EditorInit PROVE EditorIInv
  OBVIOUS
<1>1. Machine \in Pairs /\ Machine = [host |-> Machine.host, key |-> Machine.key]
  BY EditorAssumption DEF Pairs
<1>2. Machine.host \in Hosts /\ Machine.key \in HostKeys
  BY EditorAssumption
<1>3. form \in [host : Hosts, key : HostKeys \cup {Nil}, auth : Auths, secret : Secrets]
  BY <1>2 DEF EditorInit, Auths, Secrets
<1>4. opening \in 0..MaxOpenings /\ shown \in BOOLEAN
  <2>1. opening = 0 /\ shown = FALSE
    BY DEF EditorInit
  <2>2. MaxOpenings \in Nat
    BY EditorAssumption
  <2>3. opening \in 0..MaxOpenings
    BY <2>1, <2>2
  <2>4. shown \in BOOLEAN
    BY <2>1
  <2>5. QED
    BY <2>3, <2>4
<1>5. stored \in Pairs /\ trusted \subseteq Pairs
  BY <1>1 DEF EditorInit
<1>6. EditorTypeOK
  BY <1>3, <1>4, <1>5 DEF EditorInit, EditorTypeOK
<1>7. QED
  BY <1>1, <1>6 DEF EditorInit, EditorIInv, KeysAreTrusted, WaitsForItsHost, HostKeyIsTrusted,
     CurrentReadingIsOfThisDialog, SecretIsOfLastDialog, SentSecretFits

\* What is outdated keeps its type and can land no more.
LEMMA OutdateStep ==
  ASSUME EditorTypeOK, Outdate
  PROVE  /\ probe' \in [host : Hosts, current : BOOLEAN, answer : HostKeys \cup {Nil}] \cup {Nil}
         /\ probe # Nil => probe' # Nil /\ probe'.host = probe.host
         /\ reading' \subseteq [opening : 1..MaxOpenings, current : BOOLEAN]
         /\ \A r \in reading' : ~r.current
<1>1. ASSUME NEW r \in reading'
      PROVE  r \in [opening : 1..MaxOpenings, current : BOOLEAN] /\ ~r.current
  <2>1. PICK q \in reading : r = [q EXCEPT !.current = FALSE]
    BY DEF Outdate, Stale
  <2>2. q \in [opening : 1..MaxOpenings, current : BOOLEAN]
    BY DEF EditorTypeOK
  <2>3. QED
    BY <2>1, <2>2
<1>2. /\ probe' \in [host : Hosts, current : BOOLEAN, answer : HostKeys \cup {Nil}] \cup {Nil}
      /\ probe # Nil => probe' # Nil /\ probe'.host = probe.host
  <2>1. CASE probe = Nil
    BY <2>1 DEF Outdate
  <2>2. CASE probe # Nil
    <3>1. /\ probe \in [host : Hosts, current : BOOLEAN, answer : HostKeys \cup {Nil}]
          /\ probe' = [probe EXCEPT !.current = FALSE]
      BY <2>2 DEF Outdate, EditorTypeOK
    <3>2. QED
      BY <3>1, EditorAssumption
  <2>3. QED
    BY <2>1, <2>2
<1>3. QED
  BY <1>1, <1>2

LEMMA OpenMachineStep == EditorIInv /\ OpenMachine => EditorIInv'
<1> SUFFICES ASSUME EditorIInv, OpenMachine PROVE EditorIInv'
  OBVIOUS
<1> USE DEF EditorIInv
<1>1. Outdate
  BY DEF OpenMachine
<1>2. EditorTypeOK' /\ (shown => opening # 0)'
  BY <1>1, OutdateStep, EditorAssumption DEF OpenMachine, EditorTypeOK, Auths, Secrets, Pairs
<1>3. KeysAreTrusted' /\ WaitsForItsHost' /\ HostKeyIsTrusted'
  <2>1. stored \in Pairs /\ stored = [host |-> stored.host, key |-> stored.key]
    BY DEF EditorTypeOK, Pairs
  <2>2. QED
    BY <2>1, <1>1, OutdateStep
    DEF OpenMachine, KeysAreTrusted, WaitsForItsHost, HostKeyIsTrusted, EditorTypeOK
<1>4. CurrentReadingIsOfThisDialog' /\ SecretIsOfLastDialog' /\ SentSecretFits'
  BY <1>1, OutdateStep DEF OpenMachine, CurrentReadingIsOfThisDialog, SecretIsOfLastDialog,
     SentSecretFits
<1>5. QED
  BY <1>2, <1>3, <1>4

LEMMA CancelMachineStep == EditorIInv /\ CancelMachine => EditorIInv'
<1> SUFFICES ASSUME EditorIInv, CancelMachine PROVE EditorIInv'
  OBVIOUS
<1> USE DEF EditorIInv
<1>1. Outdate
  BY DEF CancelMachine
<1>2. EditorTypeOK' /\ (shown => opening # 0)'
  BY <1>1, OutdateStep DEF CancelMachine, EditorTypeOK
<1>3. KeysAreTrusted' /\ WaitsForItsHost' /\ HostKeyIsTrusted'
  BY <1>1, OutdateStep
  DEF CancelMachine, KeysAreTrusted, WaitsForItsHost, HostKeyIsTrusted, EditorTypeOK
<1>4. CurrentReadingIsOfThisDialog' /\ SecretIsOfLastDialog' /\ SentSecretFits'
  BY <1>1, OutdateStep DEF CancelMachine, CurrentReadingIsOfThisDialog, SecretIsOfLastDialog,
     SentSecretFits
<1>5. QED
  BY <1>2, <1>3, <1>4

LEMMA EnterHostStep == ASSUME NEW h \in Hosts PROVE EditorIInv /\ EnterHost(h) => EditorIInv'
<1> SUFFICES ASSUME EditorIInv, EnterHost(h) PROVE EditorIInv'
  OBVIOUS
<1> USE DEF EditorIInv, EnterHost
<1>1. EditorTypeOK' /\ (shown => opening # 0)'
  BY DEF EditorTypeOK
<1>2. QED
  BY <1>1 DEF EditorTypeOK, KeysAreTrusted, WaitsForItsHost, HostKeyIsTrusted,
     CurrentReadingIsOfThisDialog, SecretIsOfLastDialog, SentSecretFits

LEMMA EnterKeyStep ==
  ASSUME NEW k \in HostKeys \cup {Nil} PROVE EditorIInv /\ EnterKey(k) => EditorIInv'
<1> SUFFICES ASSUME EditorIInv, EnterKey(k) PROVE EditorIInv'
  OBVIOUS
<1> USE DEF EditorIInv, EnterKey
<1>1. EditorTypeOK' /\ (shown => opening # 0)'
  BY DEF EditorTypeOK, Pairs
<1>2. QED
  BY <1>1 DEF EditorTypeOK, KeysAreTrusted, WaitsForItsHost, HostKeyIsTrusted,
     CurrentReadingIsOfThisDialog, SecretIsOfLastDialog, SentSecretFits

LEMMA EnterAuthStep == ASSUME NEW a \in Auths PROVE EditorIInv /\ EnterAuth(a) => EditorIInv'
<1> SUFFICES ASSUME EditorIInv, EnterAuth(a) PROVE EditorIInv'
  OBVIOUS
<1> USE DEF EditorIInv
<1>1. Outdate
  BY DEF EnterAuth
<1>2. EditorTypeOK' /\ (shown => opening # 0)'
  BY <1>1, OutdateStep DEF EnterAuth, EditorTypeOK, Secrets
<1>3. KeysAreTrusted' /\ WaitsForItsHost' /\ HostKeyIsTrusted'
  BY <1>1, OutdateStep
  DEF EnterAuth, KeysAreTrusted, WaitsForItsHost, HostKeyIsTrusted, EditorTypeOK
<1>4. CurrentReadingIsOfThisDialog' /\ SecretIsOfLastDialog' /\ SentSecretFits'
  BY <1>1, OutdateStep DEF EnterAuth, CurrentReadingIsOfThisDialog, SecretIsOfLastDialog,
     SentSecretFits, EditorTypeOK
<1>5. QED
  BY <1>2, <1>3, <1>4

LEMMA EnterSecretStep == EditorIInv /\ EnterSecret => EditorIInv'
<1> SUFFICES ASSUME EditorIInv, EnterSecret PROVE EditorIInv'
  OBVIOUS
<1> USE DEF EditorIInv, EnterSecret, Usable
<1>1. Secret(form.auth) \in Secrets
  BY DEF EditorTypeOK, Secret, Secrets
<1>2. EditorTypeOK' /\ (shown => opening # 0)'
  BY <1>1 DEF EditorTypeOK
<1>3. QED
  BY <1>2 DEF EditorTypeOK, KeysAreTrusted, WaitsForItsHost, HostKeyIsTrusted,
     CurrentReadingIsOfThisDialog, SecretIsOfLastDialog, SentSecretFits, Secret

LEMMA ChooseFileStep == EditorIInv /\ ChooseFile => EditorIInv'
<1> SUFFICES ASSUME EditorIInv, ChooseFile PROVE EditorIInv'
  OBVIOUS
<1> USE DEF EditorIInv
<1> DEFINE new == [opening |-> opening, current |-> TRUE]
<1>1. /\ reading' = Stale(reading) \cup {new}
      /\ probe' = IF probe = Nil THEN Nil ELSE [probe EXCEPT !.current = FALSE]
      /\ UNCHANGED <<opening, shown, form, sending, stored, trusted>>
      /\ form.auth = "private_key" /\ new \in [opening : 1..MaxOpenings, current : BOOLEAN]
  BY DEF ChooseFile, Probing, Usable, EditorTypeOK
<1>2. \A r \in Stale(reading) : r \in [opening : 1..MaxOpenings, current : BOOLEAN] /\ ~r.current
  BY DEF Stale, EditorTypeOK
<1>3. /\ probe' \in [host : Hosts, current : BOOLEAN, answer : HostKeys \cup {Nil}] \cup {Nil}
      /\ probe # Nil => probe' # Nil /\ probe'.host = probe.host
  <2>1. CASE probe = Nil
    BY <1>1, <2>1
  <2>2. CASE probe # Nil
    BY <1>1, <2>2, EditorAssumption DEF EditorTypeOK
  <2>3. QED
    BY <2>1, <2>2
<1>4. EditorTypeOK' /\ (shown => opening # 0)'
  BY <1>1, <1>2, <1>3 DEF EditorTypeOK
<1>5. KeysAreTrusted' /\ WaitsForItsHost' /\ HostKeyIsTrusted'
  BY <1>1, <1>3 DEF KeysAreTrusted, WaitsForItsHost, HostKeyIsTrusted, EditorTypeOK
<1>6. CurrentReadingIsOfThisDialog' /\ SecretIsOfLastDialog' /\ SentSecretFits'
  BY <1>1, <1>2 DEF CurrentReadingIsOfThisDialog, SecretIsOfLastDialog, SentSecretFits
<1>7. QED
  BY <1>4, <1>5, <1>6

LEMMA RemoveFileStep == EditorIInv /\ RemoveFile => EditorIInv'
<1> SUFFICES ASSUME EditorIInv, RemoveFile PROVE EditorIInv'
  OBVIOUS
<1> USE DEF EditorIInv
<1>1. Outdate
  BY DEF RemoveFile
<1>2. EditorTypeOK' /\ (shown => opening # 0)'
  BY <1>1, OutdateStep DEF RemoveFile, EditorTypeOK, Secrets
<1>3. KeysAreTrusted' /\ WaitsForItsHost' /\ HostKeyIsTrusted'
  BY <1>1, OutdateStep
  DEF RemoveFile, KeysAreTrusted, WaitsForItsHost, HostKeyIsTrusted, EditorTypeOK
<1>4. CurrentReadingIsOfThisDialog' /\ SecretIsOfLastDialog' /\ SentSecretFits'
  BY <1>1, OutdateStep DEF RemoveFile, CurrentReadingIsOfThisDialog, SecretIsOfLastDialog,
     SentSecretFits, EditorTypeOK
<1>5. QED
  BY <1>2, <1>3, <1>4

LEMMA FileReadStep == ASSUME NEW r \in reading PROVE EditorIInv /\ FileRead(r) => EditorIInv'
<1> SUFFICES ASSUME EditorIInv, FileRead(r) PROVE EditorIInv'
  OBVIOUS
<1> USE DEF EditorIInv, FileRead
<1>1. [kind |-> "private_key", opening |-> r.opening] \in Secrets
  BY DEF EditorTypeOK, Secrets, Auths
<1>2. EditorTypeOK' /\ (shown => opening # 0)'
  BY <1>1 DEF EditorTypeOK
<1>3. KeysAreTrusted' /\ WaitsForItsHost' /\ HostKeyIsTrusted'
  BY DEF KeysAreTrusted, WaitsForItsHost, HostKeyIsTrusted, EditorTypeOK
<1>4. CurrentReadingIsOfThisDialog' /\ SecretIsOfLastDialog' /\ SentSecretFits'
  BY DEF EditorTypeOK, CurrentReadingIsOfThisDialog, SecretIsOfLastDialog, SentSecretFits
<1>5. QED
  BY <1>2, <1>3, <1>4
-----------------------------------------------------------------------------
\* Steps of the probe and of the save leave dialog, credentials and stored machine alone.
Others == UNCHANGED <<opening, shown, reading, stored>>

LEMMA ProbeStep == EditorIInv /\ Probe => EditorIInv'
<1> SUFFICES ASSUME EditorIInv, Probe PROVE EditorIInv'
  OBVIOUS
<1> USE DEF EditorIInv, Probe, Fetch, Busy
<1>1. EditorTypeOK' /\ (shown => opening # 0)'
  BY EditorAssumption DEF EditorTypeOK
<1>2. QED
  BY <1>1 DEF EditorTypeOK, KeysAreTrusted, WaitsForItsHost, HostKeyIsTrusted,
     CurrentReadingIsOfThisDialog, SecretIsOfLastDialog, SentSecretFits

\* The end of a probe ends the save that waits for it, and keeps any other.
LEMMA EndProbeStep ==
  ASSUME EditorIInv, EndProbe, Others, UNCHANGED form,
         trusted \subseteq trusted', trusted' \subseteq Pairs
  PROVE  EditorIInv'
<1> USE DEF EditorIInv, EndProbe, Busy, Others
<1>1. EditorTypeOK' /\ (shown => opening # 0)'
  BY DEF EditorTypeOK
<1>2. KeysAreTrusted' /\ WaitsForItsHost' /\ HostKeyIsTrusted'
  BY DEF KeysAreTrusted, WaitsForItsHost, HostKeyIsTrusted
<1>3. CurrentReadingIsOfThisDialog' /\ SecretIsOfLastDialog' /\ SentSecretFits'
  BY DEF CurrentReadingIsOfThisDialog, SecretIsOfLastDialog, SentSecretFits
<1>4. QED
  BY <1>1, <1>2, <1>3

LEMMA FetchedStep == ASSUME NEW k \in HostKeys PROVE EditorIInv /\ Fetched(k) => EditorIInv'
<1> SUFFICES ASSUME EditorIInv, Fetched(k) PROVE EditorIInv'
  OBVIOUS
<1>1. CASE Unchanged
  <2>1. /\ probe \in [host : Hosts, current : BOOLEAN, answer : HostKeys \cup {Nil}]
        /\ probe' = [probe EXCEPT !.answer = k]
        /\ UNCHANGED <<opening, shown, form, sending, reading, stored, trusted>>
    BY <1>1 DEF EditorIInv, EditorTypeOK, Fetched, Probing
  <2>2. probe' # Nil /\ probe'.host = probe.host
    BY <2>1, EditorAssumption
  <2>3. QED
    BY <2>1, <2>2 DEF EditorIInv, EditorTypeOK, KeysAreTrusted, WaitsForItsHost,
       HostKeyIsTrusted, CurrentReadingIsOfThisDialog, SecretIsOfLastDialog, SentSecretFits
<1>2. CASE ~Unchanged
  BY <1>2, EndProbeStep DEF Fetched, Others, EditorIInv, EditorTypeOK
<1>3. QED
  BY <1>1, <1>2

LEMMA FetchFailsStep == EditorIInv /\ FetchFails => EditorIInv'
BY EndProbeStep DEF FetchFails, Others, EditorIInv, EditorTypeOK

LEMMA DistrustStep == EditorIInv /\ Distrust => EditorIInv'
BY EndProbeStep DEF Distrust, Others, EditorIInv, EditorTypeOK

LEMMA TrustStep == EditorIInv /\ Trust => EditorIInv'
<1> SUFFICES ASSUME EditorIInv, Trust PROVE EditorIInv'
  OBVIOUS
<1>1. /\ probe \in [host : Hosts, current : BOOLEAN, answer : HostKeys]
      /\ trusted' = trusted \cup {[host |-> probe.host, key |-> probe.answer]}
      /\ Others /\ trusted' \subseteq Pairs
  BY DEF EditorIInv, EditorTypeOK, Trust, Probing, Others, Pairs
<1>2. CASE Unchanged
  <2>1. /\ form' = [form EXCEPT !.key = probe.answer]
        /\ probe' = Nil
        /\ sending' = IF Busy /\ sending.waits
                        THEN [sending EXCEPT !.key = probe.answer, !.waits = FALSE] ELSE sending
        /\ form.host = probe.host
    BY <1>2 DEF Trust, Unchanged
  <2>2. EditorTypeOK' /\ (shown => opening # 0)'
    <3>1. CASE Busy /\ sending.waits
      BY <1>1, <2>1, <3>1, EditorAssumption DEF EditorIInv, EditorTypeOK, Busy, Others
    <3>2. CASE ~(Busy /\ sending.waits)
      BY <1>1, <2>1, <3>2, EditorAssumption DEF EditorIInv, EditorTypeOK, Busy, Others
    <3>3. QED
      BY <3>1, <3>2
  <2>3. KeysAreTrusted' /\ WaitsForItsHost' /\ HostKeyIsTrusted'
    <3>1. CASE Busy /\ sending.waits
      BY <1>1, <2>1, <3>1 DEF EditorIInv, EditorTypeOK, Busy, Others, KeysAreTrusted,
         WaitsForItsHost, HostKeyIsTrusted
    <3>2. CASE ~(Busy /\ sending.waits)
      BY <1>1, <2>1, <3>2 DEF EditorIInv, EditorTypeOK, Busy, Others, KeysAreTrusted,
         WaitsForItsHost, HostKeyIsTrusted
    <3>3. QED
      BY <3>1, <3>2
  <2>4. CurrentReadingIsOfThisDialog' /\ SecretIsOfLastDialog' /\ SentSecretFits'
    BY <1>1, <2>1 DEF EditorIInv, EditorTypeOK, Busy, Others, CurrentReadingIsOfThisDialog,
       SecretIsOfLastDialog, SentSecretFits
  <2>5. QED
    BY <2>2, <2>3, <2>4 DEF EditorIInv
<1>3. CASE ~Unchanged
  BY <1>1, <1>3, EndProbeStep DEF Trust
<1>4. QED
  BY <1>2, <1>3

LEMMA SaveMachineStep == EditorIInv /\ SaveMachine => EditorIInv'
<1> SUFFICES ASSUME EditorIInv, SaveMachine PROVE EditorIInv'
  OBVIOUS
<1> USE DEF EditorIInv, SaveMachine, Fetch
<1>1. probe' \in [host : Hosts, current : BOOLEAN, answer : HostKeys \cup {Nil}] \cup {Nil}
      /\ (form.key = Nil => probe' # Nil /\ probe'.host = form.host)
  <2>1. [host |-> form.host, current |-> TRUE, answer |-> Nil]
          \in [host : Hosts, current : BOOLEAN, answer : HostKeys \cup {Nil}]
    BY DEF EditorTypeOK
  <2>2. CASE form.key = Nil
    <3>1. probe' = [host |-> form.host, current |-> TRUE, answer |-> Nil]
      BY <2>2
    <3>2. QED
      BY <2>1, <3>1, EditorAssumption
  <2>3. CASE form.key # Nil
    BY <2>3 DEF EditorTypeOK
  <2>4. QED
    BY <2>2, <2>3
<1>2. EditorTypeOK' /\ (shown => opening # 0)'
  BY <1>1 DEF EditorTypeOK
<1>3. QED
  BY <1>1, <1>2 DEF EditorTypeOK, KeysAreTrusted, WaitsForItsHost, HostKeyIsTrusted,
     CurrentReadingIsOfThisDialog, SecretIsOfLastDialog, SentSecretFits

LEMMA MachineSavedStep == EditorIInv /\ MachineSaved => EditorIInv'
<1> SUFFICES ASSUME EditorIInv, MachineSaved PROVE EditorIInv'
  OBVIOUS
<1> USE DEF EditorIInv, MachineSaved, Busy
<1>1. stored' \in trusted
  BY DEF KeysAreTrusted
<1>2. EditorTypeOK' /\ (shown => opening # 0)'
  BY <1>1 DEF EditorTypeOK
<1>3. QED
  BY <1>1, <1>2 DEF KeysAreTrusted, WaitsForItsHost, HostKeyIsTrusted,
     CurrentReadingIsOfThisDialog, SecretIsOfLastDialog, SentSecretFits

LEMMA MachineNotSavedStep == EditorIInv /\ MachineNotSaved => EditorIInv'
BY DEF EditorIInv, MachineNotSaved, EditorTypeOK, KeysAreTrusted, WaitsForItsHost,
   HostKeyIsTrusted, CurrentReadingIsOfThisDialog, SecretIsOfLastDialog, SentSecretFits

LEMMA EditorStutters == EditorIInv /\ UNCHANGED editorVars => EditorIInv'
BY DEF editorVars, EditorIInv, EditorTypeOK, KeysAreTrusted, WaitsForItsHost,
   HostKeyIsTrusted, CurrentReadingIsOfThisDialog, SecretIsOfLastDialog, SentSecretFits
-----------------------------------------------------------------------------
LEMMA EditorNextIInv == EditorIInv /\ [EditorNext]_editorVars => EditorIInv'
BY OpenMachineStep, CancelMachineStep, EnterHostStep, EnterKeyStep, EnterAuthStep,
   EnterSecretStep, ChooseFileStep, RemoveFileStep, FileReadStep, ProbeStep, FetchedStep,
   FetchFailsStep, TrustStep, DistrustStep, SaveMachineStep, MachineSavedStep,
   MachineNotSavedStep, EditorStutters
DEF EditorNext

LEMMA EditorKeepsIInv == EditorSpec => []EditorIInv
BY EditorInitIInv, EditorNextIInv, PTL DEF EditorSpec

\* Every machine the dialog stores has a host key that was typed for, or confirmed of, its
\* address (EditorIInv contains it: what is sent is trusted before it is sent).
THEOREM StoredKeyIsTrusted == EditorSpec => []HostKeyIsTrusted
<1>1. EditorIInv => HostKeyIsTrusted
  BY DEF EditorIInv
<1>2. QED
  BY <1>1, EditorKeepsIInv, PTL

\* A credential is kept only of the dialog that is open and as the kind it was entered as.
THEOREM SecretsStayInTheirDialog == EditorSpec => []SecretIsOfThisDialog
<1>1. EditorIInv => SecretIsOfThisDialog
  BY DEF EditorIInv, SecretIsOfLastDialog, SentSecretFits, SecretIsOfThisDialog
<1>2. QED
  BY <1>1, EditorKeepsIInv, PTL

\* The fields, the probe and the save of the dialog keep their types.
THEOREM EditorTypes == EditorSpec => []EditorTypeOK
<1>1. EditorIInv => EditorTypeOK
  BY DEF EditorIInv
<1>2. QED
  BY <1>1, EditorKeepsIInv, PTL

(***************************************************************************)
(* The settings of machines.                                               *)
(***************************************************************************)

\* A save that sends what the copy said, but for what the operator changed in its form.
Faithful ==
  {put \in PutRequests : /\ put.touched \subseteq Owned(put.kind)
                         /\ \A f \in Fields \ put.touched : put.body[f] = put.base[f]}

\* A form shows its page's copy, but for what the operator changed.
FormAsCopied(f, copied) ==
  /\ f \in [machine : Rigs, kind : Kinds, values : Records, touched : SUBSET Fields]
  /\ f.touched \subseteq Owned(f.kind)
  /\ \A k \in Owned(f.kind) \ f.touched : f.values[k] = copied[f.machine][k]

RecordsIInv ==
  /\ db \in [Rigs -> Records] /\ cache \in [Windows -> [Rigs -> Records]]
  /\ DOMAIN forms = Windows
  /\ \A p \in Windows : forms[p] # Nil => FormAsCopied(forms[p], cache[p])
  /\ puts \in [Windows -> Seq(Faithful)]

\* A form is built anew for every field it writes.
LEMMA OwnedAreKeys ==
  ASSUME NEW kind \in Kinds PROVE Owned(kind) \subseteq FormKey(kind) /\ Owned(kind) \subseteq Fields
BY DEF Kinds, Owned, FormKey, Fields, PolicyFields

LEMMA RecordsInitIInv == RecordsInit => RecordsIInv
<1> SUFFICES ASSUME RecordsInit PROVE RecordsIInv
  OBVIOUS
<1>1. db \in [Rigs -> Records]
  BY RecordsAssumption DEF RecordsInit, Records
<1>2. <<>> \in Seq(Faithful)
  OBVIOUS
<1>3. QED
  BY <1>1, <1>2 DEF RecordsInit, RecordsIInv

\* A form that was just built.
LEMMA NewForm ==
  ASSUME NEW m \in Rigs, NEW kind \in Kinds, NEW copied \in [Rigs -> Records]
  PROVE  FormAsCopied(Form(m, kind, copied[m]), copied)
BY OwnedAreKeys DEF Form, FormAsCopied

LEMMA PollMachinesStep ==
  ASSUME RecordsIInv, NEW p \in Windows, PollMachines(p) PROVE RecordsIInv'
<1>1. /\ cache' = [cache EXCEPT ![p] = db]
      /\ forms' = [forms EXCEPT ![p] = Rendered(forms[p], cache[p], db)]
      /\ UNCHANGED <<db, puts>>
  BY DEF PollMachines
<1>2. ASSUME forms'[p] # Nil PROVE FormAsCopied(forms'[p], db)
  <2> DEFINE f == forms[p]
  <2>1. forms'[p] = Rendered(f, cache[p], db)
    BY <1>1 DEF RecordsIInv
  <2>2. f # Nil
    BY <1>2, <2>1 DEF Rendered
  <2>3. FormAsCopied(f, cache[p]) /\ Owned(f.kind) \subseteq FormKey(f.kind)
    BY <2>2, OwnedAreKeys DEF RecordsIInv, FormAsCopied
  <2>4. CASE \E k \in FormKey(f.kind) : cache[p][f.machine][k] # db[f.machine][k]
    <3>1. forms'[p] = Form(f.machine, f.kind, db[f.machine])
      BY <2>1, <2>2, <2>4 DEF Rendered
    <3>2. f.machine \in Rigs /\ f.kind \in Kinds /\ db \in [Rigs -> Records]
      BY <2>3 DEF FormAsCopied, RecordsIInv
    <3>3. QED
      BY <3>1, <3>2, NewForm
  <2>5. CASE \A k \in FormKey(f.kind) : cache[p][f.machine][k] = db[f.machine][k]
    BY <2>1, <2>3, <2>5 DEF Rendered, FormAsCopied
  <2>6. QED
    BY <2>4, <2>5
<1>3. ASSUME NEW q \in Windows, forms'[q] # Nil PROVE FormAsCopied(forms'[q], cache'[q])
  BY <1>1, <1>2, <1>3 DEF RecordsIInv
<1>4. QED
  BY <1>1, <1>3 DEF RecordsIInv

LEMMA OpenFormStep ==
  ASSUME RecordsIInv, NEW p \in Windows, NEW m \in Rigs, NEW kind \in Kinds, OpenForm(p, m, kind)
  PROVE  RecordsIInv'
<1>1. FormAsCopied(Form(m, kind, cache[p][m]), cache[p])
  BY NewForm DEF RecordsIInv
<1>2. QED
  BY <1>1 DEF OpenForm, RecordsIInv

LEMMA CloseFormStep == ASSUME RecordsIInv, NEW p \in Windows, CloseForm(p) PROVE RecordsIInv'
BY DEF CloseForm, RecordsIInv

LEMMA EnterStep ==
  ASSUME RecordsIInv, NEW p \in Windows, NEW f \in Fields, NEW v \in Values, Enter(p, f, v)
  PROVE  RecordsIInv'
<1> DEFINE old == forms[p]
           new == [old EXCEPT !.values[f] = v, !.touched = @ \cup {f}]
<1>1. /\ forms' = [forms EXCEPT ![p] = new] /\ f \in Owned(old.kind)
      /\ FormAsCopied(old, cache[p]) /\ UNCHANGED <<db, cache, puts>>
  BY DEF Enter, RecordsIInv
<1>2. /\ new.machine = old.machine /\ new.kind = old.kind
      /\ new.values = [old.values EXCEPT ![f] = v] /\ new.touched = old.touched \cup {f}
      /\ new \in [machine : Rigs, kind : Kinds, values : Records, touched : SUBSET Fields]
  BY <1>1 DEF FormAsCopied, Records
<1>3. \A k \in Fields : k # f => new.values[k] = old.values[k]
  BY <1>1, <1>2 DEF FormAsCopied, Records
<1> HIDE DEF new
<1>4. FormAsCopied(new, cache[p])
  BY <1>1, <1>2, <1>3, OwnedAreKeys DEF FormAsCopied
<1>5. QED
  BY <1>1, <1>4 DEF RecordsIInv

(***************************************************************************)
(* The saves.                                                              *)
(***************************************************************************)

\* What is sent: the operator's values and the copy's.
LEMMA MergedIsFaithful ==
  ASSUME RecordsIInv, NEW p \in Windows, NEW m \in Rigs, NEW kind \in Kinds,
         NEW values \in Records, NEW touched \in SUBSET Owned(kind),
         \A k \in Owned(kind) \ touched : values[k] = cache[p][m][k]
  PROVE  Put(p, m, kind, Merged(cache[p][m], values, Owned(kind)), touched) \in Faithful
<1> DEFINE body == Merged(cache[p][m], values, Owned(kind))
           put == Put(p, m, kind, body, touched)
<1>1. cache[p][m] \in Records
  BY DEF RecordsIInv
<1>2. /\ body \in Records
      /\ \A k \in Fields : body[k] = IF k \in Owned(kind) THEN values[k] ELSE cache[p][m][k]
  BY <1>1 DEF Merged, Records
<1>3. \A k \in Fields \ touched : body[k] = cache[p][m][k]
  BY <1>2
<1>4. touched \subseteq Fields
  BY OwnedAreKeys
<1> HIDE DEF body
<1>5. /\ put \in PutRequests /\ put.kind = kind
      /\ put.body = body /\ put.base = cache[p][m] /\ put.touched = touched
  BY <1>1, <1>2, <1>4 DEF Put, PutRequests
<1>6. QED
  BY <1>3, <1>5 DEF Faithful, body

LEMMA SaveFormStep == ASSUME RecordsIInv, NEW p \in Windows, SaveForm(p) PROVE RecordsIInv'
<1> DEFINE f == forms[p]
           put == Put(p, f.machine, f.kind,
                      Merged(cache[p][f.machine], f.values, Owned(f.kind)), f.touched)
<1>1. FormAsCopied(f, cache[p])
  BY DEF SaveForm, RecordsIInv
<1>2. put \in Faithful
  BY <1>1, MergedIsFaithful DEF FormAsCopied
<1>3. puts' = [puts EXCEPT ![p] = Append(@, put)] /\ UNCHANGED <<db, cache, forms>>
  BY DEF SaveForm
<1> HIDE DEF put
<1>4. QED
  BY <1>2, <1>3 DEF RecordsIInv

\* A finite set in a sequence: it has as many places as elements, each with one of them.
LEMMA SetInSequence ==
  ASSUME NEW S, IsFiniteSet(S)
  PROVE  Cardinality(S) \in Nat /\ SetToSeq(S) \in [1..Cardinality(S) -> S]
<1>1. Cardinality(S) \in Nat /\ ExistsBijection(1..Cardinality(S), S)
  BY FS_CardinalityType
<1>2. \E f \in [1..Cardinality(S) -> S] : IsInjective(f)
  BY <1>1 DEF ExistsBijection, Bijection, Injection
<1>3. QED
  BY <1>1, <1>2 DEF SetToSeq

LEMMA BulkTagsStep ==
  ASSUME RecordsIInv, NEW p \in Windows, NEW chosen \in SUBSET Rigs, NEW v \in Values,
         BulkTags(p, chosen, v)
  PROVE  RecordsIInv'
<1> DEFINE values == [f \in Fields |-> v]
           new(m) == Merged(cache[p][m], values, {"tags"})
           changed == {m \in chosen : new(m) # cache[p][m]}
           put(n) == Put(p, SetToSeq(changed)[n], "tags", new(SetToSeq(changed)[n]), {"tags"})
           all == [n \in 1..Cardinality(changed) |-> put(n)]
<1>1. puts' = [puts EXCEPT ![p] = all] /\ UNCHANGED <<db, cache, forms>>
  BY DEF BulkTags
<1>2. IsFiniteSet(changed) /\ changed \subseteq Rigs
  BY RecordsAssumption, FS_Subset
<1>3. Cardinality(changed) \in Nat /\ SetToSeq(changed) \in [1..Cardinality(changed) -> changed]
  BY <1>2, SetInSequence
<1>4. ASSUME NEW n \in 1..Cardinality(changed) PROVE put(n) \in Faithful
  <2>1. SetToSeq(changed)[n] \in Rigs
    BY <1>2, <1>3
  <2>2. "tags" \in Kinds /\ Owned("tags") = {"tags"} /\ values \in Records
    BY DEF Kinds, Owned, Records
  <2>3. QED
    BY <2>1, <2>2, MergedIsFaithful
<1>5. all \in Seq(Faithful)
  <2> HIDE DEF put, changed
  <2>1. all \in [1..Cardinality(changed) -> Faithful]
    BY <1>4
  <2> HIDE DEF all
  <2>2. QED
    BY <1>3, <2>1
<1> HIDE DEF all
<1>6. QED
  BY <1>1, <1>5 DEF RecordsIInv

LEMMA SentIsFaithful ==
  ASSUME RecordsIInv, NEW p \in Windows, NEW n \in 1..Len(puts[p])
  PROVE  puts[p][n] \in Faithful
<1>1. puts[p] \in Seq(Faithful)
  BY DEF RecordsIInv
<1>2. QED
  BY <1>1

\* A save is answered.
LEMMA RestOfSaves ==
  ASSUME RecordsIInv, NEW p \in Windows, NEW n \in 1..Len(puts[p]), Rest(p, n)
  PROVE  puts' \in [Windows -> Seq(Faithful)]
<1>1. puts[p] \in Seq(Faithful)
  BY DEF RecordsIInv
<1>2. SubSeq(puts[p], 1, n - 1) \in Seq(Faithful) /\ SubSeq(puts[p], n + 1, Len(puts[p])) \in Seq(Faithful)
  BY <1>1
<1>3. RemoveAt(puts[p], n) \in Seq(Faithful)
  BY <1>2 DEF RemoveAt
<1>4. QED
  BY <1>3 DEF Rest, RecordsIInv

LEMMA WriteStep ==
  ASSUME RecordsIInv, NEW p \in Windows, NEW n \in 1..MaxWrites, Write(p, n) PROVE RecordsIInv'
<1>1. /\ n \in 1..Len(puts[p]) /\ Rest(p, n) /\ UNCHANGED <<cache, forms>>
      /\ db' = [db EXCEPT ![puts[p][n].machine] = puts[p][n].body]
  BY DEF Write
<1>2. puts[p][n] \in PutRequests
  BY <1>1, SentIsFaithful DEF Faithful
<1>3. db' \in [Rigs -> Records]
  BY <1>1, <1>2 DEF PutRequests, RecordsIInv
<1>4. QED
  BY <1>1, <1>3, RestOfSaves DEF RecordsIInv

LEMMA FailsStep ==
  ASSUME RecordsIInv, NEW p \in Windows, NEW n \in 1..MaxWrites, Fails(p, n) PROVE RecordsIInv'
<1>1. n \in 1..Len(puts[p]) /\ Rest(p, n) /\ UNCHANGED <<db, cache, forms>>
  BY DEF Fails
<1>2. QED
  BY <1>1, RestOfSaves DEF RecordsIInv

LEMMA ElsewhereStep ==
  ASSUME RecordsIInv, NEW m \in Rigs, NEW f \in Fields, NEW v \in Values, Elsewhere(m, f, v)
  PROVE  RecordsIInv'
<1>1. db' = [db EXCEPT ![m][f] = v] /\ UNCHANGED <<cache, forms, puts>>
  BY DEF Elsewhere
<1>2. db' \in [Rigs -> Records]
  BY <1>1 DEF RecordsIInv, Records
<1>3. QED
  BY <1>1, <1>2 DEF RecordsIInv

LEMMA RecordsNextIInv == RecordsIInv /\ [RecordsNext]_recordVars => RecordsIInv'
<1>1. RecordsIInv /\ UNCHANGED recordVars => RecordsIInv'
  BY DEF recordVars, RecordsIInv
<1>2. QED
  BY <1>1, PollMachinesStep, OpenFormStep, CloseFormStep, EnterStep, SaveFormStep, BulkTagsStep,
     WriteStep, FailsStep, ElsewhereStep
  DEF RecordsNext

LEMMA RecordsKeepIInv == RecordsSpec => []RecordsIInv
BY RecordsInitIInv, RecordsNextIInv, PTL DEF RecordsSpec

\* A save waiting for its answer sends, in every field the operator did not change, what the
\* page's copy said when it was sent.
LEMMA SavesAreFaithful ==
  ASSUME RecordsIInv, NEW p \in Windows, NEW n \in 1..Len(puts[p]),
         NEW f \in Fields \ puts[p][n].touched
  PROVE  puts[p][n].body[f] = puts[p][n].base[f]
BY SentIsFaithful DEF Faithful

\* What a save that is under way writes to a field the operator left alone is the page's copy.
THEOREM UntouchedFieldsAreCopied == RecordsSpec => []UntouchedAsCopied
<1>1. RecordsIInv => UntouchedAsCopied
  BY SavesAreFaithful DEF UntouchedAsCopied
<1>2. QED
  BY <1>1, RecordsKeepIInv, PTL

WritesBounded == writes \in 0..MaxWrites

LEMMA WritesAreBounded == RecordsSpec => []WritesBounded
<1>. USE DEF WritesBounded
<1>1. RecordsInit => WritesBounded
  BY RecordsAssumption DEF RecordsInit
<1>2. ASSUME writes \in 0..MaxWrites, NEW p \in Windows, NEW chosen \in SUBSET Rigs, NEW v \in Values,
             BulkTags(p, chosen, v)
      PROVE  writes' \in 0..MaxWrites
  <2>. DEFINE changed == {m \in chosen : Merged(cache[p][m], [f \in Fields |-> v], {"tags"}) # cache[p][m]}
  <2>1. writes + Cardinality(changed) <= MaxWrites /\ writes' = writes + Cardinality(changed)
    BY <1>2 DEF BulkTags
  <2>2. IsFiniteSet(changed)
    BY RecordsAssumption, FS_Subset
  <2>. HIDE DEF changed
  <2>3. Cardinality(changed) \in Nat
    BY <2>2, FS_CardinalityType
  <2>4. QED
    BY <1>2, <2>1, <2>3, RecordsAssumption
<1>3. ASSUME [RecordsNext]_recordVars
      PROVE  \/ writes' = writes
             \/ (writes' = writes + 1 /\ writes < MaxWrites)
             \/ \E p \in Windows, chosen \in SUBSET Rigs, v \in Values : BulkTags(p, chosen, v)
  <2>1. ASSUME NEW p \in Windows, PollMachines(p) \/ CloseForm(p) PROVE writes' = writes
    BY <2>1 DEF PollMachines, CloseForm
  <2>2. ASSUME NEW p \in Windows, NEW m, NEW k, OpenForm(p, m, k) \/ Enter(p, m, k)
        PROVE  writes' = writes
    BY <2>2 DEF OpenForm, Enter
  <2>3. ASSUME NEW p \in Windows, NEW n, Write(p, n) \/ Fails(p, n) PROVE writes' = writes
    BY <2>3 DEF Write, Fails
  <2>4. ASSUME NEW p \in Windows, SaveForm(p) PROVE writes' = writes + 1 /\ writes < MaxWrites
    BY <2>4 DEF SaveForm
  <2>5. ASSUME NEW m, NEW f, NEW v, Elsewhere(m, f, v) PROVE writes' = writes + 1 /\ writes < MaxWrites
    BY <2>5 DEF Elsewhere
  <2>6. UNCHANGED recordVars => writes' = writes
    BY DEF recordVars
  <2>7. QED
    BY <1>3, <2>1, <2>2, <2>3, <2>4, <2>5, <2>6 DEF RecordsNext
<1>4. WritesBounded /\ [RecordsNext]_recordVars => WritesBounded'
  BY <1>2, <1>3, RecordsAssumption
<1>. HIDE DEF WritesBounded
<1>5. QED
  BY <1>1, <1>4, PTL DEF RecordsSpec

\* Type correctness: a save changes only what its form owns.
THEOREM RecordsTypes == RecordsSpec => []RecordsTypeOK
<1>1. ASSUME RecordsIInv, WritesBounded PROVE RecordsTypeOK
  <2>1. ASSUME NEW p \in Windows, NEW n \in 1..MaxWrites, n <= Len(puts[p])
        PROVE  puts[p][n].touched \subseteq Owned(puts[p][n].kind)
    <3>1. n \in 1..Len(puts[p])
      BY <1>1, <2>1 DEF RecordsIInv
    <3>2. QED
      BY <1>1, <3>1, SentIsFaithful DEF Faithful
  <2>2. puts \in [Windows -> Seq(PutRequests)]
    <3>1. \A s \in Seq(Faithful) : s \in Seq(PutRequests)
      BY DEF Faithful
    <3>2. QED
      BY <1>1, <3>1 DEF RecordsIInv
  <2>3. ASSUME NEW p \in Windows, forms[p] # Nil
        PROVE  /\ forms[p].machine \in Rigs /\ forms[p].kind \in Kinds
               /\ forms[p].values \in Records /\ forms[p].touched \subseteq Owned(forms[p].kind)
    BY <1>1, <2>3 DEF RecordsIInv, FormAsCopied
  <2>4. QED
    BY <1>1, <2>1, <2>2, <2>3 DEF RecordsTypeOK, RecordsIInv, WritesBounded
<1>2. QED
  BY <1>1, RecordsKeepIInv, WritesAreBounded, PTL

\* If the record is what the copy said, executing the save changes only what the operator did.
THEOREM CurrentCopiesKeepTheRest == RecordsSpec => CurrentCopyKeepsRest
<1>1. ASSUME RecordsIInv, NEW p \in Windows, NEW n \in 1..Len(puts[p]), Write(p, n),
             puts[p][n].base = db[puts[p][n].machine], NEW f \in Fields \ puts[p][n].touched
      PROVE  db'[puts[p][n].machine][f] = db[puts[p][n].machine][f]
  <2>1. puts[p][n] \in PutRequests
    BY <1>1, SentIsFaithful DEF Faithful
  <2>2. db'[puts[p][n].machine] = puts[p][n].body
    BY <1>1, <2>1 DEF Write, PutRequests, RecordsIInv
  <2>3. QED
    BY <1>1, <2>2, SavesAreFaithful
<1>2. RecordsIInv /\ [RecordsNext]_recordVars =>
        [\A p \in Windows : \A n \in 1..Len(puts[p]) :
           LET put == puts[p][n] IN
           Write(p, n) /\ put.base = db[put.machine] =>
             \A f \in Fields \ put.touched :
               db'[put.machine][f] = db[put.machine][f]]_recordVars
  BY <1>1
<1>3. QED
  BY <1>2, RecordsKeepIInv, PTL DEF RecordsSpec, CurrentCopyKeepsRest

(***************************************************************************)
(* The batch of machines.                                                  *)
(***************************************************************************)

TrueRow(row) ==
  /\ row \in BatchRows
  /\ row.include => row.key # Nil
  /\ row.key \in {row.host, Nil}
  /\ row.result # Nil => row.result.host = row.host

TrueTable(table) ==
  table \in Seq(BatchRows) /\ Len(table) <= MaxTargets /\ \A n \in DOMAIN table : TrueRow(table[n])

\* The rows submitted tell the truth too, and stand at places of their own.
TruePlaces(places) ==
  /\ \A k \in DOMAIN places : places[k].row.host \in Hosts /\ places[k].row.key = places[k].row.host
  /\ \A j, k \in DOMAIN places : places[j].at = places[k].at => j = k

TrueMachines == {m \in [host : Hosts, key : Hosts] : m.key = m.host}

\* The property and the types, and what the request under way brings.
BatchIInv ==
  /\ times \in 0..MaxBatches /\ unfolded \in BOOLEAN /\ step \in 0..2
  /\ unfolded => times # 0
  /\ targets \in Lists \cup {<<>>} /\ password \in (1..times) \cup {Nil}
  /\ TrueTable(rows)
  /\ added \subseteq TrueMachines
  /\ asking # Nil => \/ asking.kind = "probe" /\ asking.list \in Lists
                     \/ asking.kind = "create" /\ TruePlaces(asking.places)

LEMMA BatchIInvSays == BatchIInv => BatchTypeOK /\ RowsTellTruth
BY DEF BatchIInv, BatchTypeOK, RowsTellTruth, TrueTable, TrueRow, TrueMachines

\* A table of as many true rows as there may be.
LEMMA TrueRowsWillDo ==
  ASSUME NEW l \in 0..MaxTargets, NEW table, table = [n \in 1..l |-> table[n]],
         \A n \in 1..l : TrueRow(table[n])
  PROVE  TrueTable(table)
<1>1. l \in Nat /\ l <= MaxTargets /\ DOMAIN table = 1..l
  BY BatchAssumption
<1>2. table \in [1..l -> BatchRows]
  BY DEF TrueRow
<1>3. table \in Seq(BatchRows) /\ Len(table) = l
  BY <1>1, <1>2
<1>4. QED
  BY <1>1, <1>3 DEF TrueTable

LEMMA EmptyTable == TrueTable(<<>>)
<1>1. MaxTargets \in Nat /\ Len(<<>>) = 0 /\ <<>> \in Seq(BatchRows) /\ DOMAIN <<>> = {}
  BY BatchAssumption
<1>2. QED
  BY <1>1 DEF TrueTable

LEMMA TableIs ==
  ASSUME NEW table, TrueTable(table)
  PROVE  Len(table) \in 0..MaxTargets /\ DOMAIN table = 1..Len(table)
BY BatchAssumption DEF TrueTable

LEMMA BatchInitIInv == BatchInit => BatchIInv
<1>. SUFFICES ASSUME BatchInit PROVE BatchIInv
  OBVIOUS
<1>1. times = 0 /\ times \in 0..MaxBatches /\ step = 0 /\ step \in 0..2
  BY BatchAssumption DEF BatchInit
<1>2. TrueTable(rows) /\ added \subseteq TrueMachines
  BY EmptyTable DEF BatchInit
<1>3. QED
  BY <1>1, <1>2 DEF BatchInit, BatchIInv

\* The dialog is opened, edited or closed, or a request fails: no row changes, or all go.
LEMMA FieldsStep ==
  ASSUME BatchIInv,
         \/ OpenBatch \/ CloseBatch \/ EnterPassword \/ RequestFails \/ Back
         \/ \E list \in Lists : EnterTargets(list)
  PROVE  BatchIInv'
<1>1. MaxBatches \in Nat /\ times \in Nat
  BY BatchAssumption DEF BatchIInv
<1>2. CASE OpenBatch
  <2>1. times' \in 0..MaxBatches /\ times' # 0 /\ \A n \in 1..times : n \in 1..times'
    BY <1>1, <1>2 DEF OpenBatch, BatchIInv
  <2>2. password' \in (1..times') \cup {Nil}
    BY <1>2, <2>1 DEF OpenBatch, BatchIInv
  <2>3. unfolded' = TRUE /\ UNCHANGED <<step, targets, rows, asking, added>>
    BY <1>2 DEF OpenBatch
  <2>4. unfolded' \in BOOLEAN /\ step' \in 0..2 /\ targets' \in Lists \cup {<<>>}
    BY <2>3 DEF BatchIInv
  <2>5. TrueTable(rows') /\ added' \subseteq TrueMachines
    BY <2>3 DEF BatchIInv
  <2>6. asking' # Nil => \/ asking'.kind = "probe" /\ asking'.list \in Lists
                         \/ asking'.kind = "create" /\ TruePlaces(asking'.places)
    BY <2>3 DEF BatchIInv
  <2>7. times' \in 0..MaxBatches /\ (unfolded' => times' # 0)
    BY <2>1
  <2>8. QED
    BY <2>2, <2>4, <2>5, <2>6, <2>7, Zenon DEF BatchIInv
<1>3. CASE CloseBatch
  <2>1. /\ unfolded' = FALSE /\ UNCHANGED <<times, asking, added>>
        /\ step' = 0 /\ rows' = <<>> /\ targets' = <<>> /\ password' = Nil
    BY <1>3 DEF CloseBatch, BlankBatch
  <2>2. TrueTable(rows') /\ step' \in 0..2
    BY <2>1, EmptyTable
  <2>3. QED
    BY <2>1, <2>2 DEF BatchIInv
<1>4. CASE EnterPassword
  <2>1. times \in 1..times
    BY <1>1, <1>4 DEF EnterPassword, BatchIInv
  <2>2. QED
    BY <1>4, <2>1 DEF EnterPassword, BatchIInv
<1>5. CASE RequestFails
  BY <1>5 DEF RequestFails, BatchIInv
<1>6. CASE Back
  BY <1>6 DEF Back, BatchIInv
<1>7. ASSUME NEW list \in Lists, EnterTargets(list)
      PROVE  BatchIInv'
  BY <1>7 DEF EnterTargets, BatchIInv
<1>8. QED
  BY <1>2, <1>3, <1>4, <1>5, <1>6, <1>7

LEMMA AskKeysStep == BatchIInv /\ AskKeys => BatchIInv'
<1>. SUFFICES ASSUME BatchIInv, AskKeys PROVE BatchIInv'
  OBVIOUS
<1>1. asking'.kind = "probe" /\ asking'.list \in Lists
  BY DEF AskKeys, BatchIInv
<1>2. QED
  BY <1>1 DEF AskKeys, BatchIInv

LEMMA ProbeAnsweredStep == BatchIInv /\ ProbeAnswered => BatchIInv'
<1>. SUFFICES ASSUME BatchIInv, ProbeAnswered PROVE BatchIInv'
  OBVIOUS
<1>1. asking.list \in Lists
  BY DEF ProbeAnswered, BatchIInv
<1>2. PICK l \in 1..MaxTargets : asking.list \in [1..l -> Hosts]
  BY <1>1 DEF Lists
<1>3. PICK reached \in SUBSET DOMAIN asking.list :
        rows' = [n \in DOMAIN asking.list |->
                   Row(asking.list[n], IF n \in reached THEN asking.list[n] ELSE Nil)]
  BY DEF ProbeAnswered
<1>4. ASSUME NEW h \in Hosts, NEW key \in {h, Nil}
      PROVE  TrueRow(Row(h, key))
  BY <1>4 DEF TrueRow, Row, BatchRows, Fingerprints, Results
<1>5. rows' = [n \in 1..l |-> rows'[n]] /\ \A n \in 1..l : TrueRow(rows'[n])
  BY <1>2, <1>3, <1>4
<1>6. TrueTable(rows')
  BY <1>2, <1>5, TrueRowsWillDo, BatchAssumption
<1>7. QED
  BY <1>6 DEF ProbeAnswered, BatchIInv

LEMMA IncludeStep == ASSUME BatchIInv, NEW n \in DOMAIN rows, Include(n) PROVE BatchIInv'
<1>1. Len(rows) \in 0..MaxTargets /\ DOMAIN rows = 1..Len(rows) /\ \A k \in DOMAIN rows : TrueRow(rows[k])
  BY TableIs DEF BatchIInv, TrueTable
<1>2. rows' = [rows EXCEPT ![n] = [rows[n] EXCEPT !.include = ~rows[n].include]]
  BY DEF Include
<1>3. TrueRow([rows[n] EXCEPT !.include = ~rows[n].include])
  BY <1>1 DEF Include, TrueRow, BatchRows
<1>4. rows' = [k \in 1..Len(rows) |-> rows'[k]] /\ \A k \in 1..Len(rows) : TrueRow(rows'[k])
  BY <1>1, <1>2, <1>3
<1>5. TrueTable(rows')
  BY <1>1, <1>4, TrueRowsWillDo
<1>6. QED
  BY <1>5 DEF Include, BatchIInv

\* What is submitted is every row chosen, once.
LEMMA CreateStep == BatchIInv /\ Create => BatchIInv'
<1>. SUFFICES ASSUME BatchIInv, Create PROVE BatchIInv'
  OBVIOUS
<1>1. PICK q \in InOrder(Chosen) :
        asking' = [kind |-> "create", password |-> password,
                   places |-> [k \in DOMAIN q |-> [at |-> q[k], row |-> rows[q[k]]]]]
  BY DEF Create
<1>2. PICK l \in Nat \cup {Cardinality(Chosen)} : l = Cardinality(Chosen)
  OBVIOUS
<1>3. q \in [1..l -> Chosen] /\ \A j, k \in 1..l : j < k => q[j] < q[k]
  BY <1>2 DEF InOrder
<1>4. \A k \in 1..l : q[k] \in DOMAIN rows /\ Included(rows[q[k]])
  BY <1>3 DEF Chosen
<1>5. DOMAIN rows \subseteq Nat
  BY TableIs DEF BatchIInv
<1>6. \A j, k \in 1..l : q[j] = q[k] => j = k
  <2>1. \A j, k \in 1..l : j \in Int /\ k \in Int /\ q[j] \in Nat /\ q[k] \in Nat
    BY <1>4, <1>5
  <2>2. QED
    BY <1>3, <2>1
<1>7. \A k \in 1..l : rows[q[k]].host \in Hosts /\ rows[q[k]].key = rows[q[k]].host
  BY <1>4 DEF BatchIInv, TrueTable, TrueRow, Included, BatchRows
<1>8. PICK places : places = [k \in 1..l |-> [at |-> q[k], row |-> rows[q[k]]]]
  OBVIOUS
<1>9. TruePlaces(places)
  BY <1>6, <1>7, <1>8 DEF TruePlaces
<1>10. asking'.kind = "create" /\ asking'.places = places
  BY <1>1, <1>3, <1>8
<1>11. QED
  BY <1>9, <1>10 DEF Create, BatchIInv

\* The machines stored have the fingerprints of their own rows.
LEMMA StoredAreTrue ==
  ASSUME NEW places, TruePlaces(places), NEW kept \in SUBSET DOMAIN places
  PROVE  {[host |-> places[k].row.host, key |-> places[k].row.key] : k \in kept} \subseteq TrueMachines
<1>1. ASSUME NEW k \in kept
      PROVE  [host |-> places[k].row.host, key |-> places[k].row.key] \in TrueMachines
  BY <1>1 DEF TruePlaces, TrueMachines
<1>2. QED
  BY <1>1

\* A result goes to the row of its host, whatever has become of the table.
LEMMA PairedAreTrue ==
  ASSUME NEW places, TruePlaces(places), NEW kept \in SUBSET DOMAIN places, TrueTable(rows),
         NEW results,
         results = [k \in DOMAIN places |-> [host |-> places[k].row.host, ok |-> k \in kept]]
  PROVE  TrueTable(Paired(places, results))
<1>1. PICK l \in 0..MaxTargets : l = Len(rows) /\ DOMAIN rows = 1..l
  BY TableIs
<1>2. PICK table : table = Paired(places, results)
  OBVIOUS
<1>3. table = [n \in 1..l |-> table[n]]
  BY <1>1, <1>2 DEF Paired
<1>4. ASSUME NEW n \in 1..l
      PROVE  TrueRow(table[n])
  <2>1. TrueRow(rows[n])
    BY <1>1 DEF TrueTable
  <2>2. CASE ~ \E k \in DOMAIN places : places[k].at = n /\ places[k].row.host = rows[n].host
    BY <1>1, <1>2, <2>1, <2>2 DEF Paired
  <2>3. ASSUME NEW k \in DOMAIN places, places[k].at = n, places[k].row.host = rows[n].host
        PROVE  TrueRow(table[n])
    <3>1. k = CHOOSE j \in DOMAIN places : places[j].at = n
      BY <2>3 DEF TruePlaces
    <3>2. table[n] = [rows[n] EXCEPT !.result = results[k]]
      BY <1>1, <1>2, <2>3, <3>1 DEF Paired
    <3>3. results[k] \in [host : Hosts, ok : BOOLEAN] /\ results[k].host = rows[n].host
      BY <2>3 DEF TruePlaces
    <3>4. results[k] \in Results
      BY <3>3 DEF Results
    <3>5. QED
      BY <2>1, <3>2, <3>3, <3>4 DEF TrueRow, BatchRows
  <2>4. QED
    BY <2>2, <2>3
<1>5. QED
  BY <1>2, <1>3, <1>4, TrueRowsWillDo

LEMMA CreatedStep == BatchIInv /\ Created => BatchIInv'
<1>. SUFFICES ASSUME BatchIInv, Created PROVE BatchIInv'
  OBVIOUS
<1>1. PICK places : places = asking.places
  OBVIOUS
<1>2. TruePlaces(places)
  BY <1>1 DEF Created, BatchIInv
<1>3. PICK kept \in SUBSET DOMAIN places :
        /\ added' = added \cup {[host |-> places[k].row.host, key |-> places[k].row.key] : k \in kept}
        /\ rows' = Paired(places, [k \in DOMAIN places |-> [host |-> places[k].row.host, ok |-> k \in kept]])
  BY <1>1 DEF Created
<1>4. TrueTable(rows')
  BY <1>2, <1>3, PairedAreTrue DEF BatchIInv
<1>5. added' \subseteq TrueMachines
  BY <1>2, <1>3, StoredAreTrue DEF BatchIInv
<1>6. QED
  BY <1>4, <1>5 DEF Created, BatchIInv

LEMMA CreatedUnheardStep == BatchIInv /\ CreatedUnheard => BatchIInv'
<1>. SUFFICES ASSUME BatchIInv, CreatedUnheard PROVE BatchIInv'
  OBVIOUS
<1>1. PICK places : places = asking.places
  OBVIOUS
<1>2. TruePlaces(places)
  BY <1>1 DEF CreatedUnheard, BatchIInv
<1>3. added' = added \cup {[host |-> places[k].row.host, key |-> places[k].row.key] : k \in DOMAIN places}
  BY <1>1 DEF CreatedUnheard, ToSet
<1>4. added' \subseteq TrueMachines
  BY <1>2, <1>3, StoredAreTrue DEF BatchIInv
<1>5. QED
  BY <1>4 DEF CreatedUnheard, BatchIInv

LEMMA BatchNextIInv == BatchIInv /\ [BatchNext]_batchVars => BatchIInv'
<1>. SUFFICES ASSUME BatchIInv, [BatchNext]_batchVars PROVE BatchIInv'
  OBVIOUS
<1>1. CASE UNCHANGED batchVars
  BY <1>1 DEF BatchIInv, batchVars
<1>2. QED
  BY <1>1, FieldsStep, AskKeysStep, ProbeAnsweredStep, CreateStep, CreatedStep, CreatedUnheardStep,
     IncludeStep DEF BatchNext

LEMMA BatchKeepsIInv == BatchSpec => []BatchIInv
BY BatchInitIInv, BatchNextIInv, PTL DEF BatchSpec

\* Fingerprints and results stay with their hosts, and machines are added with their own.
THEOREM RowsStayTrue == BatchSpec => []RowsTellTruth
BY BatchKeepsIInv, BatchIInvSays, PTL

\* Type correctness of the batch.
THEOREM BatchTypes == BatchSpec => []BatchTypeOK
BY BatchKeepsIInv, BatchIInvSays, PTL
=============================================================================
