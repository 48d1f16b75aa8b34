----------------------------- MODULE MCWorkstation -----------------------------
(***************************************************************************)
(* The machines of the workstation that share no state with one another,   *)
(* in one run: which picks the one whose behaviour this is, the others     *)
(* rest in a state they start in.                                          *)
(***************************************************************************)
EXTENDS LaneLock, WorktreeCustody, HookInstaller, OwnedInstall, HostAdapters,
        SnapshotRead, CuratorPacket, TruthDeck, ModelTeam, StoreSchema, SessionEvidence,
        HistoryPages

VARIABLE which

MCSentences == {{"change"}, {"commit", "ci"}, {"change", "test"}}

\* Only the chosen machine has all its initial states.
Only(m, resting) == which # m => resting

Init ==
  /\ which \in {"lane", "tree", "hook", "owned", "adapter", "read", "curator", "truth", "team",
             "schema", "evidence", "history"}
  /\ SchemaInit /\ Only("schema", schema.version = 0)
  /\ LaneInit /\ Only("lane", posix)
  /\ TreeInit /\ Only("tree", branch = "detached" /\ trunk = 0)
  /\ HookInit /\ Only("hook", handlers = {})
  /\ OwnedInit /\ Only("owned", product = "conductor")
  /\ AdapterInit /\ Only("adapter", host = "codex")
  /\ ReadInit
  /\ CuratorInit /\ Only("curator", bound /\ ~dirty0
       /\ claim = [classes |-> {"change"}, artifact |-> "none", commit |-> {}])
  /\ TruthInit /\ Only("truth", pr = [head |-> 0, checks |-> "pending"]
       /\ landed = {} /\ ~applicable)
  /\ TeamInit /\ Only("team", role = "ox" /\ request.primary /\ lane = "ready")
  /\ EvidenceInit /\ Only("evidence", baseline = {})
  /\ HistoryInit

\* The machine that moves is m.
Rest(m) ==
  /\ UNCHANGED which
  /\ m # "lane" => UNCHANGED laneVars
  /\ m # "tree" => UNCHANGED treeVars
  /\ m # "hook" => UNCHANGED hookVars
  /\ m # "owned" => UNCHANGED ownedVars
  /\ m # "adapter" => UNCHANGED adapterVars
  /\ m # "read" => UNCHANGED readVars
  /\ m # "curator" => UNCHANGED curatorVars
  /\ m # "truth" => UNCHANGED truthVars
  /\ m # "team" => UNCHANGED teamVars
  /\ m # "schema" => UNCHANGED schemaVars
  /\ m # "evidence" => UNCHANGED evidenceVars
  /\ m # "history" => UNCHANGED historyVars

Next ==
  \/ which = "lane" /\ LaneNext /\ Rest("lane")
  \/ which = "tree" /\ TreeNext /\ Rest("tree")
  \/ which = "hook" /\ HookNext /\ Rest("hook")
  \/ which = "owned" /\ OwnedNext /\ Rest("owned")
  \/ which = "adapter" /\ AdapterNext /\ Rest("adapter")
  \/ which = "read" /\ ReadNext /\ Rest("read")
  \/ which = "curator" /\ CuratorNext /\ Rest("curator")
  \/ which = "truth" /\ TruthNext /\ Rest("truth")
  \/ which = "team" /\ TeamNext /\ Rest("team")
  \/ which = "schema" /\ SchemaNext /\ Rest("schema")
  \/ which = "evidence" /\ EvidenceNext /\ Rest("evidence")
  \/ which = "history" /\ HistoryNext /\ Rest("history")

vars == <<which, laneVars, treeVars, hookVars, ownedVars, adapterVars, readVars, curatorVars,
          truthVars, teamVars, schemaVars, evidenceVars, historyVars>>

\* All there is to tell two states apart: the others rest.
Seen ==
  CASE which = "lane" -> <<which, laneVars>>
    [] which = "tree" -> <<which, treeVars>>
    [] which = "hook" -> <<which, hookVars>>
    [] which = "owned" -> <<which, ownedVars>>
    [] which = "adapter" -> <<which, adapterVars>>
    [] which = "read" -> <<which, readVars>>
    [] which = "curator" -> <<which, curatorVars>>
    [] which = "truth" -> <<which, truthVars>>
    [] which = "team" -> <<which, teamVars>>
    [] which = "schema" -> <<which, schemaVars>>
    [] which = "evidence" -> <<which, evidenceVars>>
    [] which = "history" -> <<which, historyVars>>

Spec == Init /\ [][Next]_vars
===============================================================================
