------------------------------ MODULE FleetList ------------------------------
(***************************************************************************)
(* The fleet list: which rows it shows, of a list of machines and statuses *)
(* that is polled, and which machines the operator has selected for the    *)
(* bulk operations.  Names, tags and measures are abstracted to what       *)
(* search, sorting and filters make of them: the set of machines that      *)
(* match and the order of the rows.  A row with another problem is         *)
(* filtered as one whose pool is offline.                                  *)
(***************************************************************************)
EXTENDS ConsoleObjects, Naturals, SequencesExt

CONSTANT PageSizes   \* the rows a page may have: 25, 50, 100, 250

\* A list that is opened has the largest.
ASSUME FleetListAssumption ==
  PageSizes \subseteq Nat \ {0} /\ \E n \in PageSizes : \A k \in PageSizes : k <= n

VARIABLES
  fleet,     \* the machines, in the order of the list
  condition, \* what is reported of each
  matching,  \* the machines that group and search text let pass
  filter,    \* the status filter that is pressed
  page, pageSize,
  selected,  \* the machines that are selected
  favorites  \* the machines with a star, which the browser keeps

listVars == <<fleet, condition, matching, filter, page, pageSize, selected, favorites>>

Filters == {"all", "online", "offline", "pool", "favorites", "selected"}
Conditions == {"online", "offline", "pool"}
Fleets == {f \in SeqOf(Rigs, Cardinality(Rigs)) : IsInjective(f)}

\* A list that is opened shows everything and has nothing ticked.
Mounted ==
  /\ matching' = Rigs /\ filter' = "all" /\ page' = 1
  /\ pageSize' = CHOOSE n \in PageSizes : \A k \in PageSizes : k <= n
  /\ selected' = {}

FleetListInit ==
  /\ fleet = <<>> /\ condition = [m \in Rigs |-> "offline"]
  /\ matching = Rigs /\ filter = "all" /\ page = 1
  /\ pageSize = CHOOSE n \in PageSizes : \A k \in PageSizes : k <= n
  /\ selected = {} /\ favorites = {}

Passes(m) ==
  /\ m \in matching
  /\ filter = "online" => condition[m] # "offline"
  /\ filter = "offline" => condition[m] = "offline"
  /\ filter = "pool" => condition[m] = "pool"
  /\ filter = "favorites" => m \in favorites
  /\ filter = "selected" => m \in selected

Filtered == {m \in ToSet(fleet) : Passes(m)}

Before(f, k, m) == \E i, j \in DOMAIN f : i < j /\ f[i] = k /\ f[j] = m

\* The rows of the page: what is filtered is shown in the order of the list.
Visible ==
  {m \in Filtered : Cardinality({k \in Filtered : Before(fleet, k, m)})
                     \in ((page - 1) * pageSize)..(page * pageSize - 1)}

\* Polls and a change of the order leave the page where it is.
PollList ==
  \/ fleet' \in Fleets /\ UNCHANGED condition
  \/ \E m \in Rigs, c \in Conditions :
       condition' = [condition EXCEPT ![m] = c] /\ UNCHANGED fleet

Sort == fleet' \in {f \in Fleets : ToSet(f) = ToSet(fleet)}

\* The summary band's link to the machines whose pool is offline.
FollowLink == filter' = "pool" /\ page' = 1

\* A pill; that of the ticked machines is there when there are some.
SetFilter(f) ==
  /\ f = "selected" => selected # {}
  /\ filter' = f /\ page' = 1

Narrow(machines) == matching' = machines /\ page' = 1

SetPageSize(n) == pageSize' = n /\ page' = 1

PreviousPage == Cardinality(Filtered) > pageSize /\ page > 1 /\ page' = page - 1

NextPage ==
  Cardinality(Filtered) > pageSize /\ page * pageSize < Cardinality(Filtered) /\ page' = page + 1

Toggled(set, m) == IF m \in set THEN set \ {m} ELSE set \cup {m}

Star(m) == m \in Visible /\ favorites' = Toggled(favorites, m)

TickRow(m) == m \in Visible /\ selected' = Toggled(selected, m)

\* Faulty: all machines the filters let pass are ticked, on whichever page.
TickFiltered ==
  selected' = IF Visible # {} /\ Visible \subseteq selected THEN selected \ Visible
                                                       ELSE selected \cup Filtered

\* The box of the page ticks what is not ticked yet; when all is ticked, it unticks.
TickPage ==
  selected' = IF Visible # {} /\ Visible \subseteq selected THEN selected \ Visible
                                                       ELSE selected \cup Visible

Unselect == selected # {} /\ selected' = {}

\* The records of the ticked machines are deleted one by one, some may fail.
RemoveTicked ==
  /\ selected # {}
  /\ \E gone \in SUBSET (selected \cap ToSet(fleet)) :
       fleet' \in {f \in Fleets : ToSet(f) = ToSet(fleet) \ gone
                     /\ \A k, m \in ToSet(f) : Before(f, k, m) = Before(fleet, k, m)}
  /\ selected' = {}

FleetListNext ==
  \/ PollList /\ UNCHANGED <<matching, filter, page, pageSize, selected, favorites>>
  \/ Sort /\ UNCHANGED <<condition, matching, filter, page, pageSize, selected, favorites>>
  \/ \E f \in Filters :
       SetFilter(f) /\ UNCHANGED <<fleet, condition, matching, pageSize, selected, favorites>>
  \/ FollowLink /\ UNCHANGED <<fleet, condition, matching, pageSize, selected, favorites>>
  \/ \E machines \in SUBSET Rigs :
       Narrow(machines) /\ UNCHANGED <<fleet, condition, filter, pageSize, selected, favorites>>
  \/ \E n \in PageSizes :
       SetPageSize(n) /\ UNCHANGED <<fleet, condition, matching, filter, selected, favorites>>
  \/ /\ PreviousPage \/ NextPage
     /\ UNCHANGED <<fleet, condition, matching, filter, pageSize, selected, favorites>>
  \/ \E m \in Rigs :
       Star(m) /\ UNCHANGED <<fleet, condition, matching, filter, page, pageSize, selected>>
  \/ /\ TickPage \/ Unselect \/ \E m \in Rigs : TickRow(m)
     /\ UNCHANGED <<fleet, condition, matching, filter, page, pageSize, favorites>>
  \/ RemoveTicked /\ UNCHANGED <<condition, matching, filter, page, pageSize, favorites>>
  \/ Mounted /\ UNCHANGED <<fleet, condition, favorites>>

FleetListSpec == FleetListInit /\ [][FleetListNext]_listVars

(***************************************************************************)
(* Properties.                                                             *)
(***************************************************************************)
\* Types.  The page may be one the list no longer has.
FleetListTypeOK ==
  /\ fleet \in Fleets /\ condition \in [Rigs -> Conditions]
  /\ matching \subseteq Rigs /\ filter \in Filters
  /\ pageSize \in PageSizes /\ page \in {1} \cup 1..Cardinality(Rigs)
  /\ selected \subseteq Rigs /\ favorites \subseteq Rigs

\* A machine gets its tick, or loses it while others keep theirs, only while the operator sees
\* its row.  What the list hides, by its filters, its pages or because the machine was deleted
\* elsewhere, stays selected until all ticks are cleared, and a bulk operation is for it, too.
TicksChangeInSight ==
  [][selected' # {} => \A m \in Rigs : (m \in selected) # (m \in selected') => m \in Visible]_listVars
=============================================================================
