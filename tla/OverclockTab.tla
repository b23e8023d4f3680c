---------------------------- MODULE OverclockTab ----------------------------
(***************************************************************************)
(* Overclocking a rig under the name of a template.  The overclocking tab  *)
(* of a rig starts from what the rig reports, loads a template, edits or   *)
(* imports fields and applies them; a template is also applied from the    *)
(* list of templates, and in bulk.  Meanwhile templates are stored and     *)
(* deleted in other tabs (see Templates), jobs run late, and the rig       *)
(* reports late.  The fields are one configuration; a template is named by *)
(* its id.                                                                 *)
(***************************************************************************)
EXTENDS ConsoleObjects, Naturals

CONSTANT MaxJobs    \* bound: jobs submitted

ASSUME TabAssumption == Nil \notin Ids \cup Configs /\ MaxJobs \in Nat

VARIABLES
  profiles,  \* the templates: their configuration
  copy,      \* the page's copy of them
  tab,       \* the rig's tab: the name and the operator's fields, or Nil to follow the rig
  chosen,    \* a template in the apply dialog, as it was when that was opened
  asked,     \* the confirmation: what it will submit
  ocJobs,    \* jobs submitted and not executed; own: an operator chose the fields
  submitted, \* jobs submitted so far
  rig,       \* what the rig applied last: the name and the configuration
  report,    \* what the page knows of it
  ever       \* history: which template had which configuration

tabVars == <<profiles, copy, tab, chosen, asked, ocJobs, submitted, rig, report, ever>>

Profile(name, c) == [name |-> name, config |-> c]

TabInit ==
  /\ profiles \in [Ids -> Configs \cup {Nil}] /\ copy = profiles
  /\ rig \in {Profile(i, profiles[i]) : i \in {j \in Ids : profiles[j] # Nil}} \cup {Profile(Nil, Nil)}
  /\ report = rig
  /\ tab = [profile |-> rig.name, text |-> Nil] /\ chosen = Nil /\ asked = Nil
  /\ ocJobs = {} /\ submitted = 0
  /\ ever = {<<i, profiles[i]>> : i \in Ids}

(***************************************************************************)
(* The fields.                                                             *)
(***************************************************************************)
FillTab(profile, text) ==
  /\ asked = Nil /\ chosen = Nil
  /\ tab' = [profile |-> profile, text |-> text]
  /\ UNCHANGED <<profiles, copy, chosen, asked, ocJobs, submitted, rig, report, ever>>

\* A template is selected.
LoadTemplate(i) == copy[i] # Nil /\ FillTab(i, copy[i])

\* The selection is cleared, the fields stay.
ClearTemplate == tab.profile # Nil /\ FillTab(Nil, tab.text)

\* Faulty: the name of the template stays.
TypeOnly(c) == tab.text # c /\ FillTab(tab.profile, c)

\* Edited or imported fields are no template's any more.
Type(c) == tab.text # c /\ FillTab(Nil, c)

\* Back to what the rig reports, or the tab is opened again.
Discard == FillTab(report.name, Nil)

(***************************************************************************)
(* Applying.                                                               *)
(***************************************************************************)

\* The confirmation keeps what it shows.
AskApply ==
  LET c == IF tab.text # Nil THEN tab.text ELSE report.config IN
  /\ asked = Nil /\ chosen = Nil /\ c # Nil
  /\ asked' = [profile |-> Profile(tab.profile, c), own |-> tab.text # Nil]
  /\ UNCHANGED <<profiles, copy, tab, chosen, ocJobs, submitted, rig, report, ever>>

AskReset ==
  /\ asked = Nil /\ chosen = Nil
  /\ asked' = [profile |-> Profile(Nil, Nil), own |-> TRUE]
  /\ UNCHANGED <<profiles, copy, tab, chosen, ocJobs, submitted, rig, report, ever>>

Submit(profile, own) ==
  /\ submitted < MaxJobs
  /\ submitted' = submitted + 1
  /\ ocJobs' = ocJobs \cup {[profile |-> profile, own |-> own, number |-> submitted']}

AnswerAsk(yes) ==
  /\ asked # Nil
  /\ asked' = Nil
  /\ IF yes THEN Submit(asked.profile, asked.own) ELSE UNCHANGED <<ocJobs, submitted>>
  /\ UNCHANGED <<profiles, copy, tab, chosen, rig, report, ever>>

ChooseTargets(i) ==
  /\ asked = Nil /\ chosen = Nil /\ copy[i] # Nil
  /\ chosen' = Profile(i, copy[i])
  /\ UNCHANGED <<profiles, copy, tab, asked, ocJobs, submitted, rig, report, ever>>

\* The apply dialog stays until the answer is there, and after an error.
ApplyTemplate ==
  /\ chosen # Nil
  /\ Submit(chosen, TRUE)
  /\ UNCHANGED <<profiles, copy, tab, chosen, asked, rig, report, ever>>

CloseApply ==
  /\ chosen # Nil
  /\ chosen' = Nil
  /\ UNCHANGED <<profiles, copy, tab, asked, ocJobs, submitted, rig, report, ever>>

\* The bulk dialog takes the template as it is listed when it is applied.
ApplyInBulk(i) ==
  /\ asked = Nil /\ chosen = Nil /\ copy[i] # Nil
  /\ Submit(Profile(i, copy[i]), TRUE)
  /\ UNCHANGED <<profiles, copy, tab, chosen, asked, rig, report, ever>>

(***************************************************************************)
(* Elsewhere.                                                              *)
(***************************************************************************)
FetchProfiles ==
  /\ copy # profiles
  /\ copy' = profiles
  /\ UNCHANGED <<profiles, tab, chosen, asked, ocJobs, submitted, rig, report, ever>>

StoreProfile(i, c) ==
  /\ profiles[i] # c
  /\ profiles' = [profiles EXCEPT ![i] = c]
  /\ ever' = ever \cup {<<i, c>>}
  /\ UNCHANGED <<copy, tab, chosen, asked, ocJobs, submitted, rig, report>>

RunProfile(j) ==
  /\ ocJobs' = ocJobs \ {j}
  /\ rig' = j.profile
  /\ UNCHANGED <<profiles, copy, tab, chosen, asked, submitted, report, ever>>

RigReports ==
  /\ report # rig
  /\ report' = rig
  /\ UNCHANGED <<profiles, copy, tab, chosen, asked, ocJobs, submitted, rig, ever>>

TabNext ==
  \/ ClearTemplate \/ Discard \/ AskApply \/ AskReset \/ ApplyTemplate \/ CloseApply
  \/ FetchProfiles \/ RigReports
  \/ \E i \in Ids : LoadTemplate(i) \/ ChooseTargets(i) \/ ApplyInBulk(i)
                      \/ \E c \in Configs \cup {Nil} : StoreProfile(i, c)
  \/ \E c \in Configs : Type(c)
  \/ \E yes \in BOOLEAN : AnswerAsk(yes)
  \/ \E j \in ocJobs : RunProfile(j)

TabSpec == TabInit /\ [][TabNext]_tabVars

(***************************************************************************)
(* Properties.                                                             *)
(***************************************************************************)
Profiles == [name : Ids \cup {Nil}, config : Configs \cup {Nil}]

\* Types; a job either has fields or is a reset, which has no name.
TabTypeOK ==
  /\ {profiles, copy} \subseteq [Ids -> Configs \cup {Nil}]
  /\ tab \in [profile : Ids \cup {Nil}, text : Configs \cup {Nil}]
  /\ {rig, report} \subseteq Profiles /\ chosen \in Profiles \cup {Nil}
  /\ asked # Nil => asked \in [profile : Profiles, own : BOOLEAN]
  /\ submitted \in 0..MaxJobs
  /\ \A j \in ocJobs : j.profile \in Profiles /\ (j.profile.config = Nil => j.profile.name = Nil)

\* Fields an operator chose run under the name of a template only if that template has had
\* exactly these fields, whatever was loaded, edited, imported, discarded and reported before,
\* and whatever happens to the template.  The rig's own fields, applied once more, may run
\* under a name the tab has kept from an earlier report.
NameTellsFields ==
  \A j \in ocJobs : j.own /\ j.profile.name # Nil => <<j.profile.name, j.profile.config>> \in ever
=============================================================================
