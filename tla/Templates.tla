----------------------------- MODULE Templates ------------------------------
(***************************************************************************)
(* Overclocking templates, listed, edited and deleted in several browser   *)
(* tabs.  The controller stores a template if its revision still is the    *)
(* one that was edited.  The dialogs are not locked while their save is    *)
(* under way, and answers may be lost.  Name and fields of a template are  *)
(* not modelled: a template is told apart by the save that wrote it.       *)
(***************************************************************************)
EXTENDS ConsoleObjects, Naturals

CONSTANT MaxSaves   \* bound: saves sent

ASSUME TemplatesAssumption ==
  /\ Nil \notin Ids /\ Nil \notin [revision : Nat, save : Nat]
  /\ MaxSaves \in Nat

VARIABLES
  templates, \* the oc_profiles table: the revision, and which save it is (history)
  listed,    \* each tab's copy of it
  editing,   \* the editor a tab shows: the template and the version it was opened on
  saves,     \* saves without an answer; from: what their editor was opened on (history)
  saved,     \* saves sent so far
  deleted    \* history: the templates that were deleted

templateVars == <<templates, listed, editing, saves, saved, deleted>>

Template(revision, save) == [revision |-> revision, save |-> save]

\* Some templates are there from the start.
TemplatesInit ==
  /\ \E there \in SUBSET Ids :
       templates = [i \in Ids |-> IF i \in there THEN Template(1, 0) ELSE Nil]
  /\ listed = [t \in Tabs |-> templates]
  /\ editing = [t \in Tabs |-> Nil]
  /\ saves = {} /\ saved = 0 /\ deleted = {}

FetchTemplates(t) ==
  /\ listed[t] # templates
  /\ listed' = [listed EXCEPT ![t] = templates]
  /\ UNCHANGED <<templates, editing, saves, saved, deleted>>

\* An editor keeps the item it was opened on; Nil is a new template, in the editor or in the
\* dialog that makes one of a rig's fields.
EditTemplate(t, i) ==
  /\ editing[t] = Nil
  /\ i # Nil => listed[t][i] # Nil
  /\ editing' = [editing EXCEPT ![t] =
       [id |-> i, base |-> IF i = Nil THEN Nil ELSE listed[t][i]]]
  /\ UNCHANGED <<templates, listed, saves, saved, deleted>>

CloseTemplate(t) ==
  /\ editing[t] # Nil
  /\ editing' = [editing EXCEPT ![t] = Nil]
  /\ UNCHANGED <<templates, listed, saves, saved, deleted>>

\* Faulty: the revision is that of the tab's copy.
BaseListed(t) == IF editing[t].id = Nil THEN Nil ELSE listed[t][editing[t].id]

Base(t) == editing[t].base

SaveTemplate(t) ==
  /\ editing[t] # Nil /\ saved < MaxSaves
  /\ saved' = saved + 1
  /\ saves' = saves \cup {[tab |-> t, id |-> editing[t].id, base |-> Base(t),
       from |-> editing[t].base, number |-> saved', result |-> Nil]}
  /\ UNCHANGED <<templates, listed, editing, deleted>>

Answered(s, result) == saves' = (saves \ {s}) \cup {[s EXCEPT !.result = result]}

SameRevision(s, i) == s.base # Nil /\ s.base.revision = templates[i].revision

\* A template that is not there is inserted, be it new or deleted meanwhile.
StoreTemplate(s) ==
  \E i \in IF s.id # Nil THEN {s.id} ELSE {j \in Ids \ deleted : templates[j] = Nil} :
    /\ s.result = Nil
    /\ templates[i] # Nil => SameRevision(s, i)
    /\ templates' = [templates EXCEPT ![i] = Template(
         IF templates[i] = Nil THEN 1 ELSE templates[i].revision + 1, s.number)]
    /\ Answered(s, "stored")
    /\ UNCHANGED <<listed, editing, saved, deleted>>

RefuseTemplate(s) ==
  /\ s.result = Nil /\ s.id # Nil /\ templates[s.id] # Nil /\ ~SameRevision(s, s.id)
  /\ Answered(s, "conflict")
  /\ UNCHANGED <<templates, listed, editing, saved, deleted>>

\* The list is fetched, and whatever editor the tab shows is closed.
TemplateSaved(s) ==
  /\ s.result = "stored"
  /\ saves' = saves \ {s}
  /\ listed' = [listed EXCEPT ![s.tab] = templates]
  /\ editing' = [editing EXCEPT ![s.tab] = Nil]
  /\ UNCHANGED <<templates, saved, deleted>>

\* Refused, or lost on the way there or back: the editor stays.
TemplateNotSaved(s) ==
  /\ saves' = saves \ {s}
  /\ UNCHANGED <<templates, listed, editing, saved, deleted>>

\* Deleting does not look at the revision.
DeleteTemplate(t, i) ==
  /\ editing[t] = Nil /\ listed[t][i] # Nil
  /\ templates' = [templates EXCEPT ![i] = Nil]
  /\ deleted' = deleted \cup {i}
  /\ listed' = [listed EXCEPT ![t] = templates']
  /\ UNCHANGED <<editing, saves, saved>>

TemplatesNext ==
  \/ \E t \in Tabs :
    \/ FetchTemplates(t) \/ CloseTemplate(t) \/ SaveTemplate(t)
    \/ \E i \in Ids : DeleteTemplate(t, i)
    \/ \E i \in Ids \cup {Nil} : EditTemplate(t, i)
  \/ \E s \in saves :
       StoreTemplate(s) \/ RefuseTemplate(s) \/ TemplateSaved(s) \/ TemplateNotSaved(s)

TemplatesSpec == TemplatesInit /\ [][TemplatesNext]_templateVars

(***************************************************************************)
(* Properties.                                                             *)
(***************************************************************************)
Stored == [revision : 1..(MaxSaves + 1), save : 0..MaxSaves]

\* Types; an editor and a save that name a template know a version of it.
TemplatesTypeOK ==
  /\ templates \in [Ids -> Stored \cup {Nil}] /\ listed \in [Tabs -> [Ids -> Stored \cup {Nil}]]
  /\ \A t \in Tabs : editing[t] # Nil =>
       IF editing[t].id = Nil THEN editing[t].base = Nil
                              ELSE editing[t].id \in Ids /\ editing[t].base \in Stored
  /\ \A s \in saves : s.tab \in Tabs /\ s.number \in 1..saved
       /\ IF s.id = Nil THEN s.base = Nil ELSE s.id \in Ids /\ {s.base, s.from} \subseteq Stored
  /\ saved \in 0..MaxSaves /\ deleted \subseteq Ids

\* A save replaces only the version its editor was opened on: what another operator stored
\* meanwhile is not lost, however often, late and with whichever copy of the list saves are
\* sent.  Not so for a template that was deleted: a late save inserts it again, with the
\* first revision, and the next one takes that for its own.
NoTemplateLost ==
  [][\A s \in saves : \A i \in Ids \ deleted :
       StoreTemplate(s) /\ s.id = i => s.from.save = templates[i].save]_templateVars
=============================================================================
