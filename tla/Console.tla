------------------------------- MODULE Console -------------------------------
(***************************************************************************)
(* The web console: its pages and dialogs, each a component of its own.    *)
(* They share no state but what the controller stores, which every         *)
(* component has in its own form, changed behind its back.  So a behaviour *)
(* follows one of them, the one that is visited, and the properties of all *)
(* are checked of the same specification.                                  *)
(***************************************************************************)
EXTENDS FlightSheets, FlightComposer, MachineRecords, MachineEditor, BatchAdd,
        Freshness, Submissions, Templates, OverclockTab, Terminals, FleetList, Alerts

VARIABLE visited  \* the component that is followed

consoleVars ==
  <<visited, sheetVars, composerVars, recordVars, editorVars, batchVars, freshVars, submitVars,
    templateVars, tabVars, terminalVars, listVars, alertVars>>

Components ==
  {"sheets", "composer", "records", "machine", "batch", "fleet", "submit", "templates",
   "overclock", "terminals", "list", "alerts"}

\* What is there from the start matters to the component that is followed only.
ConsoleInit ==
  /\ visited \in Components
  /\ SheetsInit /\ ComposerInit /\ RecordsInit /\ EditorInit /\ BatchInit
  /\ FreshInit /\ SubmitInit /\ TemplatesInit /\ TabInit /\ TerminalsInit
  /\ FleetListInit /\ AlertsInit
  /\ visited # "sheets" => \A s \in Sheets : store[s] = Nil
  /\ visited # "composer" => \A w \in Wallets : coinOf[w] = Nil
  /\ visited # "templates" => \A i \in Ids : templates[i] = Nil
  /\ visited # "alerts" => popups
  /\ visited # "overclock" => rig = Profile(Nil, Nil) /\ \A i \in Ids : profiles[i] = Nil

ConsoleNext ==
  \/ /\ visited = "sheets" /\ UNCHANGED <<visited, composerVars, recordVars, editorVars, batchVars,
                    freshVars, submitVars, templateVars, tabVars, terminalVars, listVars, alertVars>>
     /\ SheetsNext
  \/ /\ visited = "composer" /\ UNCHANGED <<visited, sheetVars, recordVars, editorVars, batchVars,
                    freshVars, submitVars, templateVars, tabVars, terminalVars, listVars, alertVars>>
     /\ ComposerNext
  \/ /\ visited = "records" /\ UNCHANGED <<visited, sheetVars, composerVars, editorVars, batchVars,
                    freshVars, submitVars, templateVars, tabVars, terminalVars, listVars, alertVars>>
     /\ RecordsNext
  \/ /\ visited = "machine" /\ UNCHANGED <<visited, sheetVars, composerVars, recordVars, batchVars,
                    freshVars, submitVars, templateVars, tabVars, terminalVars, listVars, alertVars>>
     /\ EditorNext
  \/ /\ visited = "batch" /\ UNCHANGED <<visited, sheetVars, composerVars, recordVars, editorVars,
                    freshVars, submitVars, templateVars, tabVars, terminalVars, listVars, alertVars>>
     /\ BatchNext
  \/ /\ visited = "fleet" /\ UNCHANGED <<visited, sheetVars, composerVars, recordVars, editorVars,
                    batchVars, submitVars, templateVars, tabVars, terminalVars, listVars, alertVars>>
     /\ FreshNext
  \/ /\ visited = "submit" /\ UNCHANGED <<visited, sheetVars, composerVars, recordVars, editorVars,
                    batchVars, freshVars, templateVars, tabVars, terminalVars, listVars, alertVars>>
     /\ SubmitNext
  \/ /\ visited = "templates" /\ UNCHANGED <<visited, sheetVars, composerVars, recordVars, editorVars,
                    batchVars, freshVars, submitVars, tabVars, terminalVars, listVars, alertVars>>
     /\ TemplatesNext
  \/ /\ visited = "overclock" /\ UNCHANGED <<visited, sheetVars, composerVars, recordVars, editorVars,
                    batchVars, freshVars, submitVars, templateVars, terminalVars, listVars, alertVars>>
     /\ TabNext
  \/ /\ visited = "terminals" /\ UNCHANGED <<visited, sheetVars, composerVars, recordVars, editorVars,
                    batchVars, freshVars, submitVars, templateVars, tabVars, listVars, alertVars>>
     /\ TerminalsNext
  \/ /\ visited = "list" /\ UNCHANGED <<visited, sheetVars, composerVars, recordVars, editorVars,
                    batchVars, freshVars, submitVars, templateVars, tabVars, terminalVars, alertVars>>
     /\ FleetListNext
  \/ /\ visited = "alerts" /\ UNCHANGED <<visited, sheetVars, composerVars, recordVars, editorVars,
                    batchVars, freshVars, submitVars, templateVars, tabVars, terminalVars, listVars>>
     /\ AlertsNext

ConsoleSpec == ConsoleInit /\ [][ConsoleNext]_consoleVars

\* The types of the component that moves.
ConsoleTypeOK ==
  CASE visited = "sheets" -> SheetsTypeOK
    [] visited = "composer" -> ComposerTypeOK
    [] visited = "records" -> RecordsTypeOK
    [] visited = "machine" -> EditorTypeOK
    [] visited = "batch" -> BatchTypeOK
    [] visited = "fleet" -> FreshTypeOK
    [] visited = "submit" -> SubmitTypeOK
    [] visited = "templates" -> TemplatesTypeOK
    [] visited = "overclock" -> TabTypeOK
    [] visited = "terminals" -> TerminalsTypeOK
    [] visited = "list" -> FleetListTypeOK
    [] visited = "alerts" -> AlertsTypeOK
=============================================================================
