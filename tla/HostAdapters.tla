----------------------------- MODULE HostAdapters -----------------------------
(***************************************************************************)
(* The installers of the Codex and Cursor session hooks: they merge their  *)
(* handler into files other programs also edit, comparing each file with   *)
(* what they read just before they replace it, and roll both files back    *)
(* together.  Codex has two targets, Cursor the first of them.             *)
(***************************************************************************)
EXTENDS Naturals

CONSTANTS MaxEdits  \* bound on the edits by other programs

VARIABLES
  host,    \* "codex" or "cursor"
  cfg,     \* [Cfgs -> [ours, edits], the content of the file]
  readings,  \* what the installer read of them, or the backups it goes back to
  receipt, \* {} or {the contents before and after} of the install manifest
  place,   \* where the installer stands: <<step>> or <<step, target>>
  undo,    \* targets a failed rollback has to put back
  late     \* history: targets edited since the installer last compared them

adapterVars == <<host, cfg, readings, receipt, place, undo, late>>
Cfgs        == {"hooks", "registry"}
Managed     == IF host = "codex" THEN Cfgs ELSE {"hooks"}
With(c)     == [c EXCEPT !.ours = TRUE]

AdapterInit ==
  /\ host \in {"codex", "cursor"}
  /\ cfg = [t \in Cfgs |-> [ours |-> FALSE, edits |-> 0]]
  /\ readings = cfg /\ receipt = {} /\ place = <<"off">> /\ undo = {} /\ late = {}

OthersEdit(t) ==
  /\ cfg[t].edits < MaxEdits /\ cfg' = [cfg EXCEPT ![t].edits = @ + 1]
  /\ late' = late \cup {t}
  /\ UNCHANGED <<host, readings, receipt, place, undo>>

BeginAdapter ==
  /\ place = <<"off">> /\ readings' = cfg
  /\ \E t \in Managed : ~cfg[t].ours
  /\ place' = <<"check", "hooks">> /\ undo' = {}
  /\ UNCHANGED <<host, cfg, receipt, late>>

FaultyUnchanged(t, content) == TRUE

\* _assert_unchanged.
Unchanged(t, content) == cfg[t] = content

CheckTarget(t) ==
  /\ place = <<"check", t>>
  /\ place' = IF Unchanged(t, readings[t]) THEN <<"write", t>> ELSE <<"restore">>
  /\ late' = late \ {t}
  /\ UNCHANGED <<host, cfg, readings, receipt, undo>>

ReplaceTarget(t) ==
  /\ place = <<"write", t>>
  /\ cfg' = [cfg EXCEPT ![t] = With(readings[t])]
  /\ place' = IF t = "hooks" /\ host = "codex" THEN <<"check", "registry">> ELSE <<"manifest">>
  /\ UNCHANGED <<host, readings, receipt, undo, late>>

\* The manifest, or its failure.
WriteReceipt ==
  /\ place = <<"manifest">>
  /\ \/ /\ receipt' = {[old |-> readings, new |-> [t \in Cfgs |-> With(readings[t])]]}
        /\ place' = <<"off">>
     \/ UNCHANGED receipt /\ place' = <<"restore">>
  /\ UNCHANGED <<host, cfg, readings, undo, late>>

\* _restore_if_installed, for each target that still holds what was written.
RestoreInstalled ==
  /\ place = <<"restore">> /\ place' = <<"off">>
  /\ cfg' = [t \in Cfgs |-> IF cfg[t] = With(readings[t]) THEN readings[t] ELSE cfg[t]]
  /\ UNCHANGED <<host, readings, receipt, undo, late>>

\* --rollback: every target must still hold what was installed.  Codex compares
\* again before each replacement, Cursor does not.
BeginRollback ==
  /\ place = <<"off">>
  /\ \E r \in receipt : (\A t \in Managed : cfg[t] = r.new[t]) /\ readings' = r.old
  /\ place' = IF host = "codex" THEN <<"sure", "registry">> ELSE <<"back", "hooks">>
  /\ undo' = {} /\ late' = {}
  /\ UNCHANGED <<host, cfg, receipt>>

\* On a difference, what was rolled back already is installed again, unlooked at.
SureOfTarget(t) ==
  /\ place = <<"sure", t>> /\ late' = late \ {t}
  /\ IF Unchanged(t, With(readings[t]))
     THEN place' = <<"back", t>> /\ UNCHANGED cfg
     ELSE /\ cfg' = [u \in Cfgs |-> IF u \in undo THEN With(readings[u]) ELSE cfg[u]]
          /\ place' = <<"off">>
  /\ UNCHANGED <<host, readings, receipt, undo>>

RollbackTarget(t) ==
  /\ place = <<"back", t>>
  /\ cfg' = [cfg EXCEPT ![t] = readings[t]] /\ undo' = undo \cup {t}
  /\ place' = IF t = "registry" THEN <<"sure", "hooks">> ELSE <<"off">>
  /\ UNCHANGED <<host, readings, receipt, late>>

AdapterDies == /\ place # <<"off">> /\ place' = <<"off">>
               /\ UNCHANGED <<host, cfg, readings, receipt, undo, late>>

AdapterNext == \/ BeginAdapter \/ WriteReceipt \/ RestoreInstalled \/ BeginRollback \/ AdapterDies
               \/ \E t \in Cfgs : \/ OthersEdit(t) \/ CheckTarget(t) \/ ReplaceTarget(t)
                                  \/ SureOfTarget(t) \/ RollbackTarget(t)

-------------------------------------------------------------------------------
(* Properties *)

\* An edit another program made to a hook file survives every install, failed
\* install and rollback, unless it was made after the installer's last look at
\* that file: between the comparison and the replacement, or between a file's
\* rollback and its reinstallation when the other file's rollback failed.
OthersKept ==
  [][\A t \in Cfgs : cfg'[t].edits < cfg[t].edits => t \in late]_adapterVars
===============================================================================
