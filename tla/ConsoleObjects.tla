--------------------------- MODULE ConsoleObjects ---------------------------
(***************************************************************************)
(* What several components of the web console deal with.                   *)
(***************************************************************************)
CONSTANTS
  Sheets,   \* ids of flight sheets
  Rigs,     \* machines
  Hosts,    \* SSH addresses with their ports
  Tabs,     \* tabs of a browser
  Ids,      \* ids of overclocking templates
  Configs,  \* overclocking configurations
  Nil       \* nothing: an empty field, no row, no request, no dialog
=============================================================================
