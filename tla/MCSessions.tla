------------------------------- MODULE MCSessions -------------------------------
(***************************************************************************)
(* The machines that owe something in the end, in one run: a session's     *)
(* verdict file, the pytest wrappers, the operator panel and the reaper of *)
(* session files.  They share no variables: which picks the one whose      *)
(* behaviour this is, the others rest in a state they start in.            *)
(***************************************************************************)
EXTENDS SessionVerdict, PytestAdapter, GatePanel, StateReaper

VARIABLE which

\* Only the chosen machine has all its initial states.
Only(m, resting) == which # m => resting

InitOne ==
  /\ which \in {"verdict", "pytest", "panel", "reaper"}
  /\ Init
  /\ PytestInit
  /\ PanelInit /\ Only("panel", ages)
  /\ ReaperInit /\ Only("reaper", pinned = {})

NextOne ==
  \/ which = "verdict" /\ Next /\ UNCHANGED <<which, pytestVars, panelVars, reaperVars>>
  \/ which = "pytest" /\ PytestNext /\ UNCHANGED <<which, vars, panelVars, reaperVars>>
  \/ which = "panel" /\ PanelNext /\ UNCHANGED <<which, vars, pytestVars, reaperVars>>
  \/ which = "reaper" /\ ReaperNext /\ UNCHANGED <<which, vars, pytestVars, panelVars>>

\* The fairness of each module, for the behaviours of its machine.
Fairness ==
  /\ WF_vars(which = "verdict" /\ GoesStale)
  /\ \A c \in Client : WF_vars(which = "verdict" /\ Continue(c))
  /\ \A w \in Wrappers :
       /\ WF_pytestVars(which = "pytest" /\ Wrap(w))
       /\ WF_pytestVars(which = "pytest" /\ LeaseLapses(w))
       /\ SF_pytestVars(which = "pytest" /\ Reconcile(w))
  /\ WF_panelVars(which = "panel" /\ Worker)
  /\ WF_panelVars(which = "panel" /\ Ui)
  /\ WF_panelVars(which = "panel" /\ MinutePasses)
  /\ WF_reaperVars(which = "reaper" /\ Reaper)

SpecOne == InitOne /\ [][NextOne]_<<which, vars, pytestVars, panelVars, reaperVars>> /\ Fairness

\* GatePanel's promise, where the panel is the machine that runs: once the store is
\* quiet the panel comes to show it.
PanelShowsStore == which = "panel" => PanelCatchesUp
===============================================================================
