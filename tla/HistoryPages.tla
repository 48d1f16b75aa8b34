------------------------------ MODULE HistoryPages ------------------------------
(***************************************************************************)
(* The terminal history of a pool, page by page: read_resource_history_page*)
(* (conductor_store.py) under the panel's drawer (conductor_gui.py).       *)
(* Requests go on being released while the operator pages, several in one  *)
(* second, and their ids are in no order of time.  Each page is one        *)
(* read-only snapshot; the cursor is the last row it gave.                 *)
(***************************************************************************)
EXTENDS Integers, FiniteSets

CONSTANTS MaxId,       \* the requests are 1 .. MaxId, by the order of their ids
          MaxSecond,   \* bound on the clock
          PageSize

VARIABLES released,  \* when each request was released, -1 before
          second,
          open,      \* the drawer is open
          shown,     \* _history_items: how often each request is in the list
          nextRow,   \* _history_cursor, an id; 0: none
          more,      \* _history_has_more: the button is enabled
          then       \* what had been released at the last reset (history)

drawerVars == <<open, shown, nextRow, more, then>>
historyVars == <<released, second, drawerVars>>

NothingShown == [r \in 1 .. MaxId |-> 0]
Terminal == {r \in 1 .. MaxId : released[r] >= 0}

HistoryInit ==
  /\ released = [r \in 1 .. MaxId |-> -1] /\ second = 0 /\ open = FALSE
  /\ shown = NothingShown /\ nextRow = 0 /\ more = FALSE /\ then = {}

Released(r) ==
  /\ released[r] < 0 /\ released' = [released EXCEPT ![r] = second]
  /\ UNCHANGED <<second, drawerVars>>

SecondPasses == second < MaxSecond /\ second' = second + 1 /\ UNCHANGED <<released, drawerVars>>

-------------------------------------------------------------------------------
(* A page *)

\* Mutant: the cursor compares times only.
FaultyOlder(r, c) == released[r] < released[c]

\* What a cursor leaves: earlier, or released with it and of a smaller id.
Older(r, c) == \/ released[r] < released[c]
               \/ released[r] = released[c] /\ r < c

\* ORDER BY
Newer(r, s) == \/ released[r] > released[s]
               \/ released[r] = released[s] /\ r > s

Rows(c)   == IF c = 0 THEN Terminal ELSE {r \in Terminal : Older(r, c)}
Fit(rows) == Cardinality(rows) <= PageSize

\* The first PageSize rows.
IsPage(page, rows) == /\ IF Fit(rows) THEN page = rows ELSE Cardinality(page) = PageSize
                      /\ \A r \in page, s \in rows \ page : Newer(r, s)

\* load_history_page: a page joins the list; if there are more rows, its last
\* one is the next cursor.
Load(sofar, c) ==
  \E page \in SUBSET Rows(c) :
    /\ IsPage(page, Rows(c))
    /\ shown' = [r \in 1 .. MaxId |-> IF r \in page THEN sofar[r] + 1 ELSE sofar[r]]
    /\ more' = ~Fit(Rows(c))
    /\ nextRow' \in IF Fit(Rows(c)) THEN {0}
                    ELSE {l \in page : \A r \in page \ {l} : Newer(r, l)}

\* toggle_history: an empty drawer is filled, another shows what it held.
Opens ==
  /\ ~open /\ open' = TRUE
  /\ IF shown = NothingShown THEN Load(NothingShown, 0) /\ then' = Terminal
     ELSE UNCHANGED <<shown, nextRow, more, then>>
  /\ UNCHANGED <<released, second>>

Closes == open /\ open' = FALSE /\ UNCHANGED <<released, second, shown, nextRow, more, then>>

\* load_more_history
LoadsMore == open /\ more /\ Load(shown, nextRow) /\ UNCHANGED <<released, second, open, then>>

HistoryNext == (\E r \in 1 .. MaxId : Released(r)) \/ SecondPasses \/ Opens \/ Closes \/ LoadsMore

-------------------------------------------------------------------------------
(* Property *)

\* Paging to the end shows every request that was released when the drawer was
\* filled, once each, whatever is released in between.
PagesMissNothing ==
  /\ \A r \in 1 .. MaxId : shown[r] <= 1
  /\ ~more => \A r \in then : shown[r] = 1
===============================================================================
