-------------------------- MODULE OverclockProofs ---------------------------
(***************************************************************************)
(* Proofs about Templates and OverclockTab, for all sets of templates,     *)
(* configurations and tabs and any number of saves and jobs: a save of a   *)
(* template never overwrites one it does not know, its revision is no      *)
(* higher than the saves made, and a rig's fields run under the name of a  *)
(* template only if they were that template's.                             *)
(***************************************************************************)
EXTENDS Templates, OverclockTab, TLAPS

(***************************************************************************)
(* Templates.                                                              *)
(***************************************************************************)
Versions == [revision : Nat, save : Nat]

\* What somebody knows of template i is what is stored, or older by its revision.
Known(v, i) ==
  v # Nil =>
    /\ templates[i] # Nil
    /\ v.revision <= templates[i].revision
    /\ v.revision = templates[i].revision => v = templates[i]

\* The types this takes, without the bounds.
Editors == [id : Ids \cup {Nil}, base : Versions \cup {Nil}]
SavesSent ==
  [tab : Tabs, id : Ids \cup {Nil}, base : Versions \cup {Nil}, from : Versions \cup {Nil},
   number : Nat, result : {Nil, "stored", "conflict"}]

VersionsOK ==
  /\ templates \in [Ids -> Versions \cup {Nil}]
  /\ listed \in [Tabs -> [Ids -> Versions \cup {Nil}]]
  /\ editing \in [Tabs -> Editors \cup {Nil}]
  /\ saves \subseteq SavesSent
  /\ saved \in Nat /\ deleted \subseteq Ids

\* A template an editor or a save names was there when they were begun.
BasesAreKnown ==
  /\ \A t \in Tabs : editing[t] # Nil /\ editing[t].id # Nil => editing[t].base # Nil
  /\ \A s \in saves : s.id # Nil => s.base # Nil
  /\ \A s \in saves : s.from = s.base

\* Every copy of a template that was never deleted is known in this sense.
CopiesAreKnown ==
  \A i \in Ids \ deleted :
    /\ \A t \in Tabs : Known(listed[t][i], i)
    /\ \A t \in Tabs : editing[t] # Nil /\ editing[t].id = i => Known(editing[t].base, i)
    /\ \A s \in saves : s.id = i => Known(s.base, i)

TemplatesIInv == VersionsOK /\ BasesAreKnown /\ CopiesAreKnown

LEMMA TemplatesInitIInv == TemplatesInit => TemplatesIInv
<1> SUFFICES ASSUME TemplatesInit PROVE TemplatesIInv
  OBVIOUS
<1>1. \A i \in Ids : templates[i] = Nil \/ templates[i] = [revision |-> 1, save |-> 0]
  BY DEF TemplatesInit, Template
<1>2. templates \in [Ids -> Versions \cup {Nil}]
  BY <1>1 DEF TemplatesInit, Template, Versions
<1>3. VersionsOK /\ BasesAreKnown
  BY <1>2 DEF TemplatesInit, VersionsOK, BasesAreKnown
<1>4. CopiesAreKnown
  BY <1>2 DEF TemplatesInit, CopiesAreKnown, Known, Versions
<1>5. QED
  BY <1>3, <1>4 DEF TemplatesIInv

\* What is stored is known.
LEMMA StoredIsKnown == ASSUME VersionsOK, NEW i \in Ids PROVE Known(templates[i], i)
BY DEF VersionsOK, Known, Versions

LEMMA FetchTemplatesStep ==
  ASSUME TemplatesIInv, NEW t \in Tabs, FetchTemplates(t) PROVE TemplatesIInv'
<1> USE DEF FetchTemplates
<1>1. VersionsOK' /\ BasesAreKnown'
  BY DEF TemplatesIInv, VersionsOK, BasesAreKnown
<1>2. CopiesAreKnown'
  BY StoredIsKnown DEF TemplatesIInv, VersionsOK, CopiesAreKnown, Known
<1>3. QED
  BY <1>1, <1>2 DEF TemplatesIInv

LEMMA EditTemplateStep ==
  ASSUME TemplatesIInv, NEW t \in Tabs, NEW i \in Ids \cup {Nil}, EditTemplate(t, i)
  PROVE  TemplatesIInv'
<1> DEFINE new == [id |-> i, base |-> IF i = Nil THEN Nil ELSE listed[t][i]]
<1>1. /\ editing' = [editing EXCEPT ![t] = new]
      /\ i # Nil => i \in Ids /\ listed[t][i] # Nil
      /\ UNCHANGED <<templates, listed, saves, saved, deleted>>
  BY DEF EditTemplate
<1>2. new.id = i /\ new.base = (IF i = Nil THEN Nil ELSE listed[t][i])
  OBVIOUS
<1>3. new \in Editors
  BY <1>1 DEF TemplatesIInv, VersionsOK, Editors
<1> HIDE DEF new
<1>4. \A u \in Tabs : editing'[u] = IF u = t THEN new ELSE editing[u]
  BY <1>1 DEF TemplatesIInv, VersionsOK
<1>5. VersionsOK' /\ BasesAreKnown'
  BY <1>1, <1>2, <1>3, <1>4 DEF TemplatesIInv, VersionsOK, BasesAreKnown
<1>6. CopiesAreKnown'
  BY <1>1, <1>2, <1>4, TemplatesAssumption DEF TemplatesIInv, VersionsOK, CopiesAreKnown, Known
<1>7. QED
  BY <1>5, <1>6 DEF TemplatesIInv

LEMMA CloseTemplateStep ==
  ASSUME TemplatesIInv, NEW t \in Tabs, CloseTemplate(t) PROVE TemplatesIInv'
BY DEF CloseTemplate, TemplatesIInv, VersionsOK, BasesAreKnown, CopiesAreKnown, Known

LEMMA SaveTemplateStep ==
  ASSUME TemplatesIInv, NEW t \in Tabs, SaveTemplate(t) PROVE TemplatesIInv'
<1> DEFINE new == [tab |-> t, id |-> editing[t].id, base |-> Base(t), from |-> editing[t].base,
                   number |-> saved', result |-> Nil]
<1>1. /\ saves' = saves \cup {new} /\ editing[t] # Nil /\ saved' = saved + 1
      /\ UNCHANGED <<templates, listed, editing, deleted>>
  BY DEF SaveTemplate
<1>2. /\ new.id = editing[t].id /\ new.base = editing[t].base
      /\ new.from = editing[t].base /\ new \in SavesSent
  BY <1>1 DEF Base, TemplatesIInv, VersionsOK, Editors, SavesSent
<1> HIDE DEF new
<1>3. VersionsOK' /\ BasesAreKnown'
  BY <1>1, <1>2 DEF TemplatesIInv, VersionsOK, BasesAreKnown
<1>4. CopiesAreKnown'
  BY <1>1, <1>2 DEF TemplatesIInv, VersionsOK, CopiesAreKnown, Known
<1>5. QED
  BY <1>3, <1>4 DEF TemplatesIInv

\* An answer changes nothing of what a save knows.
LEMMA AnsweredSaves ==
  ASSUME TemplatesIInv, NEW s \in saves, NEW result, Answered(s, result), NEW r \in saves'
  PROVE  \E q \in saves : /\ r.id = q.id /\ r.base = q.base /\ r.from = q.from
                          /\ r.number = q.number
<1>1. CASE r = [s EXCEPT !.result = result]
  BY <1>1 DEF TemplatesIInv, VersionsOK, SavesSent
<1>2. CASE r \in saves
  BY <1>2
<1>3. QED
  BY <1>1, <1>2 DEF Answered

LEMMA AnsweredTypes ==
  ASSUME TemplatesIInv, NEW s \in saves, NEW result \in {"stored", "conflict"},
         Answered(s, result)
  PROVE  saves' \subseteq SavesSent
BY DEF Answered, TemplatesIInv, VersionsOK, SavesSent

LEMMA StoreTemplateStep ==
  ASSUME TemplatesIInv, NEW s \in saves, StoreTemplate(s) PROVE TemplatesIInv'
<1>1. PICK i \in Ids :
        /\ s.id # Nil => i = s.id
        /\ s.id = Nil => i \notin deleted /\ templates[i] = Nil
        /\ templates[i] # Nil => SameRevision(s, i)
        /\ templates' = [templates EXCEPT ![i] = Template(
             IF templates[i] = Nil THEN 1 ELSE templates[i].revision + 1, s.number)]
        /\ Answered(s, "stored")
        /\ UNCHANGED <<listed, editing, saved, deleted>>
  BY DEF StoreTemplate, TemplatesIInv, VersionsOK, SavesSent
<1> DEFINE new == Template(IF templates[i] = Nil THEN 1 ELSE templates[i].revision + 1, s.number)
<1>2. /\ new \in Versions /\ new # Nil
      /\ templates[i] # Nil => new.revision = templates[i].revision + 1
  BY TemplatesAssumption DEF TemplatesIInv, VersionsOK, SavesSent, Versions, Template
<1>3. templates' = [templates EXCEPT ![i] = new]
  BY <1>1
<1> HIDE DEF new
<1>4. VersionsOK'
  BY <1>1, <1>2, <1>3, AnsweredTypes DEF TemplatesIInv, VersionsOK
<1>5. BasesAreKnown'
  BY <1>1, AnsweredSaves DEF TemplatesIInv, BasesAreKnown
<1>6. ASSUME NEW j \in Ids \ deleted, NEW v \in Versions \cup {Nil}, Known(v, j)
      PROVE  Known(v, j)'
  <2>1. CASE i = j /\ v # Nil
    <3>1. /\ templates[j] \in Versions /\ templates'[j] = new
          /\ v \in Versions /\ v.revision <= templates[j].revision
      BY <1>3, <1>6, <2>1 DEF Known, TemplatesIInv, VersionsOK
    <3>2. v.revision < new.revision
      BY <1>2, <1>6, <2>1, <3>1 DEF Known, Versions
    <3>3. QED
      BY <1>2, <3>1, <3>2 DEF Known, Versions
  <2>2. CASE i # j \/ v = Nil
    BY <1>3, <1>6, <2>2 DEF Known, TemplatesIInv, VersionsOK
  <2>3. QED
    BY <2>1, <2>2
<1>7. CopiesAreKnown'
  <2>1. ASSUME NEW j \in Ids \ deleted, NEW t \in Tabs
        PROVE  /\ Known(listed[t][j], j)'
               /\ editing[t] # Nil /\ editing[t].id = j => Known(editing[t].base, j)'
    <3>1. listed[t][j] \in Versions \cup {Nil} /\ Known(listed[t][j], j)
      BY DEF TemplatesIInv, VersionsOK, CopiesAreKnown
    <3>2. editing[t] # Nil /\ editing[t].id = j =>
            editing[t].base \in Versions \cup {Nil} /\ Known(editing[t].base, j)
      BY DEF TemplatesIInv, VersionsOK, CopiesAreKnown, Editors
    <3>3. listed' = listed /\ editing' = editing
      BY <1>1
    <3>4. QED
      BY <1>6, <3>1, <3>2, <3>3 DEF Known
  <2>2. ASSUME NEW j \in Ids \ deleted, NEW r \in saves', r.id = j
        PROVE  Known(r.base, j)'
    <3>1. PICK q \in saves : r.id = q.id /\ r.base = q.base
      BY <1>1, AnsweredSaves
    <3>2. r.base \in Versions \cup {Nil} /\ Known(r.base, j)
      BY <2>2, <3>1 DEF TemplatesIInv, VersionsOK, CopiesAreKnown, SavesSent
    <3>3. QED
      BY <1>6, <3>2 DEF Known
  <2>3. QED
    BY <1>1, <2>1, <2>2 DEF CopiesAreKnown
<1>8. QED
  BY <1>4, <1>5, <1>7 DEF TemplatesIInv

LEMMA RefuseTemplateStep ==
  ASSUME TemplatesIInv, NEW s \in saves, RefuseTemplate(s) PROVE TemplatesIInv'
<1>1. Answered(s, "conflict") /\ UNCHANGED <<templates, listed, editing, saved, deleted>>
  BY DEF RefuseTemplate
<1>2. VersionsOK'
  BY <1>1, AnsweredTypes DEF TemplatesIInv, VersionsOK
<1>3. BasesAreKnown'
  BY <1>1, AnsweredSaves DEF TemplatesIInv, BasesAreKnown
<1>4. ASSUME NEW j \in Ids \ deleted, NEW r \in saves', r.id = j
      PROVE  Known(r.base, j)
  <2>1. PICK q \in saves : r.id = q.id /\ r.base = q.base
    BY <1>1, AnsweredSaves
  <2>2. QED
    BY <1>4, <2>1 DEF TemplatesIInv, CopiesAreKnown
<1>5. CopiesAreKnown'
  BY <1>1, <1>4 DEF TemplatesIInv, CopiesAreKnown, Known
<1>6. QED
  BY <1>2, <1>3, <1>5 DEF TemplatesIInv

LEMMA TemplateSavedStep ==
  ASSUME TemplatesIInv, NEW s \in saves, TemplateSaved(s) PROVE TemplatesIInv'
<1>1. s.tab \in Tabs
  BY DEF TemplatesIInv, VersionsOK, SavesSent
<1>2. VersionsOK' /\ BasesAreKnown'
  BY <1>1 DEF TemplateSaved, TemplatesIInv, VersionsOK, BasesAreKnown
<1>3. CopiesAreKnown'
  BY <1>1, StoredIsKnown DEF TemplateSaved, TemplatesIInv, VersionsOK, CopiesAreKnown, Known
<1>4. QED
  BY <1>2, <1>3 DEF TemplatesIInv

LEMMA TemplateNotSavedStep ==
  ASSUME TemplatesIInv, NEW s \in saves, TemplateNotSaved(s) PROVE TemplatesIInv'
BY DEF TemplateNotSaved, TemplatesIInv, VersionsOK, BasesAreKnown, CopiesAreKnown, Known

LEMMA DeleteTemplateStep ==
  ASSUME TemplatesIInv, NEW t \in Tabs, NEW i \in Ids, DeleteTemplate(t, i)
  PROVE  TemplatesIInv'
<1>1. /\ templates' = [templates EXCEPT ![i] = Nil] /\ deleted' = deleted \cup {i}
      /\ listed' = [listed EXCEPT ![t] = templates'] /\ UNCHANGED <<editing, saves, saved>>
  BY DEF DeleteTemplate
<1>2. VersionsOK' /\ BasesAreKnown'
  BY <1>1 DEF TemplatesIInv, VersionsOK, BasesAreKnown
<1>3. \A j \in Ids \ deleted' : j \in Ids \ deleted /\ templates'[j] = templates[j]
  BY <1>1 DEF TemplatesIInv, VersionsOK
<1>4. CopiesAreKnown'
  BY <1>1, <1>3, StoredIsKnown DEF TemplatesIInv, VersionsOK, CopiesAreKnown, Known
<1>5. QED
  BY <1>2, <1>4 DEF TemplatesIInv

LEMMA TemplatesNextIInv == TemplatesIInv /\ [TemplatesNext]_templateVars => TemplatesIInv'
<1>1. TemplatesIInv /\ UNCHANGED templateVars => TemplatesIInv'
  BY DEF templateVars, TemplatesIInv, VersionsOK, BasesAreKnown, CopiesAreKnown, Known
<1>2. QED
  BY <1>1, FetchTemplatesStep, EditTemplateStep, CloseTemplateStep, SaveTemplateStep,
     StoreTemplateStep, RefuseTemplateStep, TemplateSavedStep, TemplateNotSavedStep,
     DeleteTemplateStep
  DEF TemplatesNext

LEMMA TemplatesKeepIInv == TemplatesSpec => []TemplatesIInv
BY TemplatesInitIInv, TemplatesNextIInv, PTL DEF TemplatesSpec

\* A save of a template that was never deleted replaces the version its editor was opened on:
\* equal revisions are equal templates, by CopiesAreKnown.
THEOREM SavesReplaceWhatTheyKnow == TemplatesSpec => NoTemplateLost
<1>1. ASSUME TemplatesIInv, NEW s \in saves, NEW i \in Ids \ deleted, StoreTemplate(s), s.id = i
      PROVE  s.from.save = templates[i].save
  <2>1. s.base # Nil /\ Known(s.base, i) /\ s.from = s.base
    BY <1>1, TemplatesAssumption DEF TemplatesIInv, BasesAreKnown, CopiesAreKnown
  <2>2. s.base.revision = templates[i].revision
    BY <1>1, <2>1, TemplatesAssumption DEF Known, StoreTemplate, SameRevision
  <2>3. QED
    BY <2>1, <2>2 DEF Known
<1>2. TemplatesIInv /\ [TemplatesNext]_templateVars =>
        [\A s \in saves : \A i \in Ids \ deleted :
           StoreTemplate(s) /\ s.id = i => s.from.save = templates[i].save]_templateVars
  BY <1>1
<1>3. QED
  BY <1>2, TemplatesKeepIInv, PTL DEF TemplatesSpec, NoTemplateLost

\* The version v was stored by one of the first n saves, no more than one revision by each;
\* what is there from the start has the first one.
Within(v, n) == v # Nil => v.revision \in 1..(v.save + 1) /\ v.save <= n

TemplatesBounds ==
  /\ saved <= MaxSaves
  /\ \A i \in Ids : Within(templates[i], saved)
  /\ \A t \in Tabs : \A i \in Ids : Within(listed[t][i], saved)
  /\ \A t \in Tabs : editing[t] # Nil =>
       Within(editing[t].base, saved) /\ (editing[t].id = Nil => editing[t].base = Nil)
  /\ \A s \in saves : /\ s.number \in 1..saved /\ Within(s.base, s.number - 1)
                      /\ s.id = Nil => s.base = Nil

LEMMA WithinMore ==
  ASSUME NEW v \in Versions \cup {Nil}, NEW m \in Nat, NEW n \in Nat, m <= n, Within(v, m)
  PROVE  Within(v, n)
BY DEF Within, Versions

LEMMA TemplatesInitBounds == TemplatesInit => TemplatesBounds
<1> SUFFICES ASSUME TemplatesInit PROVE TemplatesBounds
  OBVIOUS
<1>1. \A i \in Ids : templates[i] = Nil \/ templates[i] = [revision |-> 1, save |-> 0]
  BY DEF TemplatesInit, Template
<1>2. \A i \in Ids : Within(templates[i], 0)
  BY <1>1 DEF Within
<1>3. QED
  BY <1>2, TemplatesAssumption DEF TemplatesInit, TemplatesBounds

\* The steps that neither send a save nor answer one.
LEMMA TabsKeepBounds ==
  ASSUME TemplatesIInv, TemplatesBounds, NEW t \in Tabs,
         \/ FetchTemplates(t) \/ CloseTemplate(t) \/ (\E i \in Ids : DeleteTemplate(t, i))
         \/ \E i \in Ids \cup {Nil} : EditTemplate(t, i)
  PROVE  TemplatesBounds'
<1>1. UNCHANGED <<saves, saved>>
  BY DEF FetchTemplates, CloseTemplate, DeleteTemplate, EditTemplate
<1>2. \A i \in Ids : Within(templates'[i], saved)
  BY DEF FetchTemplates, CloseTemplate, DeleteTemplate, EditTemplate, Within, TemplatesBounds,
         TemplatesIInv, VersionsOK
<1>3. ASSUME NEW u \in Tabs, NEW i \in Ids PROVE Within(listed'[u][i], saved)
  <2>1. listed'[u] = listed[u] \/ listed'[u] = templates'
    BY DEF FetchTemplates, CloseTemplate, DeleteTemplate, EditTemplate, TemplatesIInv, VersionsOK
  <2>2. QED
    BY <1>2, <2>1 DEF TemplatesBounds
<1>4. ASSUME NEW u \in Tabs, editing'[u] # Nil
      PROVE  Within(editing'[u].base, saved) /\ (editing'[u].id = Nil => editing'[u].base = Nil)
  <2>1. CASE editing'[u] = editing[u]
    BY <1>4, <2>1 DEF TemplatesBounds
  <2>2. CASE editing'[u] # editing[u]
    <3>1. PICK i \in Ids \cup {Nil} : EditTemplate(t, i)
      BY <1>4, <2>2 DEF FetchTemplates, CloseTemplate, DeleteTemplate, TemplatesIInv, VersionsOK
    <3>2. editing'[u] = [id |-> i, base |-> IF i = Nil THEN Nil ELSE listed[t][i]]
      BY <2>2, <3>1 DEF EditTemplate, TemplatesIInv, VersionsOK
    <3>3. editing'[u].id = i /\ editing'[u].base = IF i = Nil THEN Nil ELSE listed[t][i]
      BY <3>2
    <3>4. QED
      BY <3>3 DEF TemplatesBounds, Within
  <2>3. QED
    BY <2>1, <2>2
<1>5. QED
  BY <1>1, <1>2, <1>3, <1>4 DEF TemplatesBounds

LEMMA SendKeepsBounds ==
  ASSUME TemplatesIInv, TemplatesBounds, NEW t \in Tabs, SaveTemplate(t)
  PROVE  TemplatesBounds'
<1> DEFINE new == [tab |-> t, id |-> editing[t].id, base |-> Base(t), from |-> editing[t].base,
                   number |-> saved', result |-> Nil]
<1>1. /\ saves' = saves \cup {new} /\ editing[t] # Nil /\ saved' = saved + 1
      /\ saved < MaxSaves /\ UNCHANGED <<templates, listed, editing, deleted>>
  BY DEF SaveTemplate
<1>2. new.id = editing[t].id /\ new.base = editing[t].base /\ new.number = saved'
  BY DEF Base
<1> HIDE DEF new
<1>3. saved \in Nat /\ MaxSaves \in Nat
  BY TemplatesAssumption DEF TemplatesIInv, VersionsOK
<1>4. ASSUME NEW v \in Versions \cup {Nil}, Within(v, saved) PROVE Within(v, saved')
  BY <1>1, <1>3, <1>4, WithinMore
<1>5. \A u \in Tabs : editing[u] # Nil => editing[u].base \in Versions \cup {Nil}
  BY DEF TemplatesIInv, VersionsOK, Editors
<1>6. \A i \in Ids : Within(templates[i], saved')
  BY <1>4 DEF TemplatesIInv, VersionsOK, TemplatesBounds
<1>7. \A u \in Tabs : \A i \in Ids : Within(listed[u][i], saved')
  BY <1>4 DEF TemplatesIInv, VersionsOK, TemplatesBounds
<1>8. \A u \in Tabs : editing[u] # Nil => Within(editing[u].base, saved')
  BY <1>4, <1>5 DEF TemplatesBounds
<1>9. ASSUME NEW s \in saves'
      PROVE  s.number \in 1..saved' /\ Within(s.base, s.number - 1) /\ (s.id = Nil => s.base = Nil)
  <2>1. CASE s \in saves
    BY <1>1, <1>3, <2>1 DEF TemplatesBounds
  <2>2. CASE s = new
    <3>1. s.number - 1 = saved
      BY <1>1, <1>2, <1>3, <2>2
    <3>2. QED
      BY <1>1, <1>2, <1>3, <2>2, <3>1 DEF TemplatesBounds
  <2>3. QED
    BY <1>1, <2>1, <2>2
<1>10. QED
  BY <1>1, <1>3, <1>6, <1>7, <1>8, <1>9 DEF TemplatesBounds

LEMMA StoreKeepsBounds ==
  ASSUME TemplatesIInv, TemplatesBounds, NEW s \in saves, StoreTemplate(s)
  PROVE  TemplatesBounds'
<1>1. PICK i \in Ids :
        /\ templates[i] # Nil => SameRevision(s, i)
        /\ templates' = [templates EXCEPT ![i] = Template(
             IF templates[i] = Nil THEN 1 ELSE templates[i].revision + 1, s.number)]
        /\ Answered(s, "stored")
        /\ UNCHANGED <<listed, editing, saved, deleted>>
  BY DEF StoreTemplate, TemplatesIInv, VersionsOK, SavesSent
<1>2. PICK new : new = Template(IF templates[i] = Nil THEN 1 ELSE templates[i].revision + 1, s.number)
  OBVIOUS
<1>3. /\ saved \in Nat /\ s.number \in 1..saved /\ s.base \in Versions \cup {Nil}
      /\ templates[i] \in Versions \cup {Nil} /\ Within(s.base, s.number - 1)
  BY DEF TemplatesIInv, VersionsOK, SavesSent, TemplatesBounds
<1>4. Within(new, saved)
  <2>1. new.save = s.number
    BY <1>2 DEF Template
  <2>2. CASE templates[i] = Nil
    <3>1. new.revision = 1
      BY <1>2, <2>2 DEF Template
    <3>2. QED
      BY <1>3, <2>1, <3>1 DEF Within
  <2>3. CASE templates[i] # Nil
    <3>1. new.revision = templates[i].revision + 1
      BY <1>2, <2>3 DEF Template
    <3>2. s.base # Nil /\ s.base.revision = templates[i].revision
      BY <1>1, <2>3 DEF SameRevision
    <3>3. templates[i].revision \in Nat /\ s.base.revision >= 1 /\ s.base.revision <= s.number
      BY <1>3, <2>3, <3>2 DEF Within, Versions
    <3>4. QED
      BY <1>3, <2>1, <3>1, <3>2, <3>3 DEF Within
  <2>4. QED
    BY <2>2, <2>3
<1>5. \A j \in Ids : Within(templates'[j], saved)
  BY <1>1, <1>2, <1>4 DEF TemplatesIInv, VersionsOK, TemplatesBounds
<1>6. \A r \in saves' : /\ r.number \in 1..saved /\ Within(r.base, r.number - 1)
                        /\ r.id = Nil => r.base = Nil
  BY <1>1, AnsweredSaves DEF TemplatesBounds
<1>7. QED
  BY <1>1, <1>5, <1>6 DEF TemplatesBounds

LEMMA AnswersKeepBounds ==
  ASSUME TemplatesIInv, TemplatesBounds, NEW s \in saves,
         RefuseTemplate(s) \/ TemplateSaved(s) \/ TemplateNotSaved(s)
  PROVE  TemplatesBounds'
<1>1. UNCHANGED <<templates, saved>> /\ s.tab \in Tabs
  BY DEF RefuseTemplate, TemplateSaved, TemplateNotSaved, TemplatesIInv, VersionsOK, SavesSent
<1>2. \A r \in saves' : /\ r.number \in 1..saved /\ Within(r.base, r.number - 1)
                        /\ r.id = Nil => r.base = Nil
  <2>1. CASE RefuseTemplate(s)
    BY <2>1, AnsweredSaves DEF RefuseTemplate, TemplatesBounds
  <2>2. CASE saves' \subseteq saves
    BY <2>2 DEF TemplatesBounds
  <2>3. QED
    BY <2>1, <2>2 DEF TemplateSaved, TemplateNotSaved
<1>3. \A u \in Tabs : listed'[u] = listed[u] \/ listed'[u] = templates
  BY <1>1 DEF RefuseTemplate, TemplateSaved, TemplateNotSaved, TemplatesIInv, VersionsOK
<1>4. \A u \in Tabs : editing'[u] = editing[u] \/ editing'[u] = Nil
  BY <1>1 DEF RefuseTemplate, TemplateSaved, TemplateNotSaved, TemplatesIInv, VersionsOK
<1>5. \A u \in Tabs : \A i \in Ids : Within(listed'[u][i], saved)
  BY <1>3 DEF TemplatesBounds
<1>6. QED
  BY <1>1, <1>2, <1>4, <1>5 DEF TemplatesBounds

LEMMA TemplatesNextBounds ==
  TemplatesIInv /\ TemplatesBounds /\ [TemplatesNext]_templateVars => TemplatesBounds'
<1>1. TemplatesBounds /\ UNCHANGED templateVars => TemplatesBounds'
  BY DEF templateVars, TemplatesBounds
<1>2. QED
  BY <1>1, TabsKeepBounds, SendKeepsBounds, StoreKeepsBounds, AnswersKeepBounds DEF TemplatesNext

LEMMA WithinIsStored ==
  ASSUME NEW v \in Versions, v # Nil, NEW n \in Nat, n <= MaxSaves, Within(v, n)
  PROVE  v \in Stored
BY TemplatesAssumption DEF Within, Versions, Stored

\* Type correctness: revisions are bounded by the saves sent, since every save adds at most one
\* to the revision its editor was opened on.
THEOREM TemplatesTypes == TemplatesSpec => []TemplatesTypeOK
<1>1. TemplatesIInv /\ TemplatesBounds => TemplatesTypeOK
  <2> SUFFICES ASSUME TemplatesIInv, TemplatesBounds PROVE TemplatesTypeOK
    OBVIOUS
  <2>1. saved \in Nat /\ saved <= MaxSaves /\ MaxSaves \in Nat /\ deleted \subseteq Ids
    BY TemplatesAssumption DEF TemplatesIInv, VersionsOK, TemplatesBounds
  <2>2. templates \in [Ids -> Stored \cup {Nil}]
    <3>1. \A i \in Ids : templates[i] \in Stored \cup {Nil}
      BY <2>1, WithinIsStored DEF TemplatesIInv, VersionsOK, TemplatesBounds
    <3>2. QED
      BY <3>1 DEF TemplatesIInv, VersionsOK
  <2>3. listed \in [Tabs -> [Ids -> Stored \cup {Nil}]]
    <3>1. \A t \in Tabs : \A i \in Ids : listed[t][i] \in Stored \cup {Nil}
      BY <2>1, WithinIsStored DEF TemplatesIInv, VersionsOK, TemplatesBounds
    <3>2. QED
      BY <3>1 DEF TemplatesIInv, VersionsOK
  <2>4. ASSUME NEW t \in Tabs, editing[t] # Nil
        PROVE  IF editing[t].id = Nil THEN editing[t].base = Nil
                                      ELSE editing[t].id \in Ids /\ editing[t].base \in Stored
    <3>1. editing[t].id \in Ids \cup {Nil} /\ editing[t].base \in Versions \cup {Nil}
      BY <2>4 DEF TemplatesIInv, VersionsOK, Editors
    <3>2. editing[t].id # Nil => editing[t].base # Nil
      BY <2>4 DEF TemplatesIInv, BasesAreKnown
    <3>3. QED
      BY <2>1, <2>4, <3>1, <3>2, WithinIsStored DEF TemplatesBounds
  <2>5. ASSUME NEW s \in saves
        PROVE  s.tab \in Tabs /\ s.number \in 1..saved
               /\ IF s.id = Nil THEN s.base = Nil ELSE s.id \in Ids /\ {s.base, s.from} \subseteq Stored
    <3>1. /\ s.tab \in Tabs /\ s.id \in Ids \cup {Nil} /\ s.base \in Versions \cup {Nil}
          /\ s.number \in 1..saved
      BY DEF TemplatesIInv, VersionsOK, SavesSent, TemplatesBounds
    <3>2. s.from = s.base /\ (s.id # Nil => s.base # Nil)
      BY DEF TemplatesIInv, BasesAreKnown
    <3>3. Within(s.base, s.number - 1) /\ s.number - 1 \in Nat /\ s.number - 1 <= MaxSaves
      BY <2>1, <3>1 DEF TemplatesBounds
    <3>4. s.id # Nil => s.base \in Stored
      BY <3>1, <3>2, <3>3, WithinIsStored
    <3>5. s.id = Nil => s.base = Nil
      BY DEF TemplatesBounds
    <3>6. QED
      BY <3>1, <3>2, <3>4, <3>5
  <2>6. saved \in 0..MaxSaves
    BY <2>1
  <2>7. QED
    BY <2>1, <2>2, <2>3, <2>4, <2>5, <2>6 DEF TemplatesTypeOK
<1>2. QED
  BY <1>1, TemplatesInitIInv, TemplatesNextIInv, TemplatesInitBounds, TemplatesNextBounds, PTL
  DEF TemplatesSpec

(***************************************************************************)
(* The overclocking tab.                                                   *)
(***************************************************************************)

\* A name and fields that may be submitted together.
WasTemplate(p) == p.name # Nil => <<p.name, p.config>> \in ever

\* What the page, the tab, the dialogs and the jobs hold under a template's name is what the
\* template was at some time; so nothing has to be the template's present state.
NamesAreTrue ==
  /\ \A i \in Ids : <<i, profiles[i]>> \in ever /\ <<i, copy[i]>> \in ever
  /\ tab.profile # Nil /\ tab.text # Nil => <<tab.profile, tab.text>> \in ever
  /\ chosen # Nil => WasTemplate(chosen) /\ chosen.config # Nil
  /\ asked # Nil /\ asked.own => WasTemplate(asked.profile)
  /\ asked # Nil => (asked.profile.config = Nil => asked.profile.name = Nil)
  /\ \A j \in ocJobs : j.own => WasTemplate(j.profile)

TabIInv == TabTypeOK /\ NamesAreTrue

LEMMA TabInitIInv == TabInit => TabIInv
<1> SUFFICES ASSUME TabInit PROVE TabIInv
  OBVIOUS
<1>1. rig \in Profiles
  BY DEF TabInit, Profile, Profiles
<1>2. submitted \in 0..MaxJobs
  BY TabAssumption DEF TabInit
<1>3. tab \in [profile : Ids \cup {Nil}, text : Configs \cup {Nil}] /\ tab.text = Nil
  BY <1>1 DEF TabInit, Profiles
<1>4. TabTypeOK
  BY <1>1, <1>2, <1>3 DEF TabInit, TabTypeOK
<1>5. NamesAreTrue
  BY <1>3 DEF TabInit, NamesAreTrue
<1>6. QED
  BY <1>4, <1>5 DEF TabIInv

\* The fields get a new name and text, which fit.
LEMMA FillTabStep ==
  ASSUME TabIInv, NEW p \in Ids \cup {Nil}, NEW c \in Configs \cup {Nil}, FillTab(p, c),
         p # Nil /\ c # Nil => <<p, c>> \in ever
  PROVE  TabIInv'
<1>1. TabTypeOK'
  BY DEF FillTab, TabIInv, TabTypeOK
<1>2. NamesAreTrue'
  BY DEF FillTab, TabIInv, NamesAreTrue, WasTemplate
<1>3. QED
  BY <1>1, <1>2 DEF TabIInv

LEMMA LoadTemplateStep == ASSUME TabIInv, NEW i \in Ids, LoadTemplate(i) PROVE TabIInv'
<1>1. FillTab(i, copy[i]) /\ copy[i] \in Configs \cup {Nil} /\ <<i, copy[i]>> \in ever
  BY DEF LoadTemplate, TabIInv, TabTypeOK, NamesAreTrue
<1>2. QED
  BY <1>1, FillTabStep

LEMMA ClearTemplateStep == ASSUME TabIInv, ClearTemplate PROVE TabIInv'
<1>1. FillTab(Nil, tab.text) /\ tab.text \in Configs \cup {Nil}
  BY DEF ClearTemplate, TabIInv, TabTypeOK
<1>2. QED
  BY <1>1, FillTabStep

LEMMA TypeStep == ASSUME TabIInv, NEW c \in Configs, Type(c) PROVE TabIInv'
BY FillTabStep DEF Type

LEMMA DiscardStep == ASSUME TabIInv, Discard PROVE TabIInv'
<1>1. report.name \in Ids \cup {Nil}
  BY DEF TabIInv, TabTypeOK, Profiles
<1>2. QED
  BY <1>1, FillTabStep DEF Discard

\* A confirmation is shown; nothing else changes.
LEMMA AskStep ==
  ASSUME TabIInv, NEW p \in Profiles, NEW own \in BOOLEAN,
         asked' = [profile |-> p, own |-> own],
         own => WasTemplate(p), p.config = Nil => p.name = Nil,
         UNCHANGED <<profiles, copy, tab, chosen, ocJobs, submitted, rig, report, ever>>
  PROVE  TabIInv'
<1>1. asked'.profile = p /\ asked'.own = own /\ asked' \in [profile : Profiles, own : BOOLEAN]
  OBVIOUS
<1>2. TabTypeOK'
  BY <1>1 DEF TabIInv, TabTypeOK
<1>3. NamesAreTrue'
  BY <1>1 DEF TabIInv, NamesAreTrue, WasTemplate
<1>4. QED
  BY <1>2, <1>3 DEF TabIInv

LEMMA AskApplyStep == ASSUME TabIInv, AskApply PROVE TabIInv'
<1> DEFINE c == IF tab.text # Nil THEN tab.text ELSE report.config
           p == Profile(tab.profile, c)
           own == tab.text # Nil
<1>1. /\ asked' = [profile |-> p, own |-> own] /\ c # Nil
      /\ UNCHANGED <<profiles, copy, tab, chosen, ocJobs, submitted, rig, report, ever>>
  BY DEF AskApply
<1>2. p.name = tab.profile /\ p.config = c
  BY DEF Profile
<1>3. p \in Profiles
  BY DEF TabIInv, TabTypeOK, Profile, Profiles
<1>4. own => WasTemplate(p)
  BY <1>2 DEF TabIInv, NamesAreTrue, WasTemplate
<1>5. own \in BOOLEAN
  OBVIOUS
<1> HIDE DEF c, p, own
<1>6. QED
  BY <1>1, <1>2, <1>3, <1>4, <1>5, AskStep

LEMMA AskResetStep == ASSUME TabIInv, AskReset PROVE TabIInv'
<1> DEFINE p == Profile(Nil, Nil)
<1>1. p \in Profiles /\ p.name = Nil
  BY DEF Profile, Profiles
<1>2. WasTemplate(p)
  BY <1>1 DEF WasTemplate
<1>3. QED
  BY <1>1, <1>2, AskStep DEF AskReset

\* A job is submitted whose name and fields fit.
LEMMA SubmitStep ==
  ASSUME TabIInv, NEW p \in Profiles, NEW own, Submit(p, own),
         own => WasTemplate(p), p.config = Nil => p.name = Nil,
         asked' \in {asked, Nil},
         UNCHANGED <<profiles, copy, tab, chosen, rig, report, ever>>
  PROVE  TabIInv'
<1> DEFINE j == [profile |-> p, own |-> own, number |-> submitted']
<1>1. /\ ocJobs' = ocJobs \cup {j} /\ j.profile = p /\ j.own = own
      /\ submitted' = submitted + 1 /\ submitted < MaxJobs
  BY DEF Submit
<1> HIDE DEF j
<1>2. submitted' \in 0..MaxJobs
  BY <1>1, TabAssumption DEF TabIInv, TabTypeOK
<1>3. TabTypeOK'
  BY <1>1, <1>2 DEF TabIInv, TabTypeOK
<1>4. NamesAreTrue'
  BY <1>1 DEF TabIInv, NamesAreTrue, WasTemplate
<1>5. QED
  BY <1>3, <1>4 DEF TabIInv

LEMMA AnswerAskStep == ASSUME TabIInv, NEW yes \in BOOLEAN, AnswerAsk(yes) PROVE TabIInv'
<1>1. CASE yes
  <2>1. /\ Submit(asked.profile, asked.own) /\ asked # Nil /\ asked' = Nil
        /\ UNCHANGED <<profiles, copy, tab, chosen, rig, report, ever>>
    BY <1>1 DEF AnswerAsk
  <2>2. asked.profile \in Profiles
    BY <2>1 DEF TabIInv, TabTypeOK
  <2>3. /\ asked.own => WasTemplate(asked.profile)
        /\ asked.profile.config = Nil => asked.profile.name = Nil
    BY <2>1 DEF TabIInv, NamesAreTrue
  <2>4. QED
    BY <2>1, <2>2, <2>3, SubmitStep
<1>2. CASE ~yes
  BY <1>2 DEF AnswerAsk, TabIInv, TabTypeOK, NamesAreTrue, WasTemplate
<1>3. QED
  BY <1>1, <1>2

\* A template of the page's copy, with its name.
LEMMA CopiedTemplate ==
  ASSUME TabIInv, NEW i \in Ids, copy[i] # Nil
  PROVE  /\ Profile(i, copy[i]) \in Profiles /\ WasTemplate(Profile(i, copy[i]))
         /\ Profile(i, copy[i]).config # Nil
BY DEF TabIInv, TabTypeOK, NamesAreTrue, WasTemplate, Profile, Profiles

LEMMA ChooseTargetsStep == ASSUME TabIInv, NEW i \in Ids, ChooseTargets(i) PROVE TabIInv'
<1>1. TabTypeOK'
  BY CopiedTemplate DEF ChooseTargets, TabIInv, TabTypeOK
<1>2. NamesAreTrue'
  BY CopiedTemplate DEF ChooseTargets, TabIInv, NamesAreTrue, WasTemplate
<1>3. QED
  BY <1>1, <1>2 DEF TabIInv

LEMMA ApplyTemplateStep == ASSUME TabIInv, ApplyTemplate PROVE TabIInv'
<1>1. chosen \in Profiles /\ WasTemplate(chosen) /\ chosen.config # Nil
  BY DEF ApplyTemplate, TabIInv, TabTypeOK, NamesAreTrue
<1>2. QED
  BY <1>1, SubmitStep DEF ApplyTemplate

LEMMA ApplyInBulkStep == ASSUME TabIInv, NEW i \in Ids, ApplyInBulk(i) PROVE TabIInv'
BY CopiedTemplate, SubmitStep DEF ApplyInBulk

LEMMA CloseApplyStep == ASSUME TabIInv, CloseApply PROVE TabIInv'
BY DEF CloseApply, TabIInv, TabTypeOK, NamesAreTrue, WasTemplate

LEMMA FetchProfilesStep == ASSUME TabIInv, FetchProfiles PROVE TabIInv'
BY DEF FetchProfiles, TabIInv, TabTypeOK, NamesAreTrue, WasTemplate

LEMMA StoreProfileStep ==
  ASSUME TabIInv, NEW i \in Ids, NEW c \in Configs \cup {Nil}, StoreProfile(i, c)
  PROVE  TabIInv'
<1>1. TabTypeOK'
  BY DEF StoreProfile, TabIInv, TabTypeOK
<1>2. NamesAreTrue'
  BY DEF StoreProfile, TabIInv, TabTypeOK, NamesAreTrue, WasTemplate
<1>3. QED
  BY <1>1, <1>2 DEF TabIInv

LEMMA RunProfileStep == ASSUME TabIInv, NEW j \in ocJobs, RunProfile(j) PROVE TabIInv'
<1>1. TabTypeOK'
  BY DEF RunProfile, TabIInv, TabTypeOK
<1>2. NamesAreTrue'
  BY DEF RunProfile, TabIInv, NamesAreTrue, WasTemplate
<1>3. QED
  BY <1>1, <1>2 DEF TabIInv

LEMMA RigReportsStep == ASSUME TabIInv, RigReports PROVE TabIInv'
BY DEF RigReports, TabIInv, TabTypeOK, NamesAreTrue, WasTemplate

LEMMA TabNextIInv == TabIInv /\ [TabNext]_tabVars => TabIInv'
<1>1. TabIInv /\ UNCHANGED tabVars => TabIInv'
  BY DEF tabVars, TabIInv, TabTypeOK, NamesAreTrue, WasTemplate
<1>2. QED
  BY <1>1, LoadTemplateStep, ClearTemplateStep, TypeStep, DiscardStep, AskApplyStep,
     AskResetStep, AnswerAskStep, ChooseTargetsStep, ApplyTemplateStep, ApplyInBulkStep,
     CloseApplyStep, FetchProfilesStep, StoreProfileStep, RunProfileStep, RigReportsStep
  DEF TabNext

LEMMA TabKeepsIInv == TabSpec => []TabIInv
BY TabInitIInv, TabNextIInv, PTL DEF TabSpec

\* Fields an operator chose are submitted under a template's name only if they were the
\* template's (NamesAreTrue says it of every place they pass).
THEOREM NamesTellFields == TabSpec => []NameTellsFields
<1>1. TabIInv => NameTellsFields
  BY DEF TabIInv, NamesAreTrue, WasTemplate, NameTellsFields
<1>2. QED
  BY <1>1, TabKeepsIInv, PTL
=============================================================================
