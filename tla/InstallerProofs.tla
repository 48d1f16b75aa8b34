---------------------------- MODULE InstallerProofs ----------------------------
(***************************************************************************)
(* Theorems about what is installed beside the programs of others, for any *)
(* number of checkouts, runs, versions, edits, processes and items: the    *)
(* owned runtimes (OwnedInstall), the adapters in a host's hook files      *)
(* (HostAdapters), the managed hook block (HookInstaller) and the schema   *)
(* of the store (StoreSchema).  Each has its specification, its inductive  *)
(* invariant and the theorem.                                              *)
(***************************************************************************)
EXTENDS OwnedInstall, HostAdapters, HookInstaller, StoreSchema, TLAPS

------------------------------------------------------------------------------
(* The owned runtimes (OwnedInstall) *)

OwnedSpec == OwnedInit /\ [][OwnedNext]_ownedVars

Versions == [Targets -> Int]
Trees    == [files : Versions, tree : Int, calm : BOOLEAN]

OwnedTypeOK ==
  /\ source \in Int /\ disk \in Versions
  /\ manifest \in SUBSET Trees /\ fresh \in Trees
  /\ before \in [disk : Versions, manifest : SUBSET Trees]
  /\ undigested \subseteq todo /\ todo \subseteq Targets
  /\ job # "write" => undigested = {}

\* The manifest of a calm install names one version of every target, the one to
\* go back to as well, and so does a calm install under way; the target whose
\* digest it takes next is then still what it wrote.
ManifestsAreWhole ==
  /\ \A m \in manifest \cup before.manifest :
        m.calm => \A t \in Targets : m.files[t] = m.tree
  /\ job = "write" /\ fresh.calm =>
        /\ \A t \in Targets : fresh.files[t] = source
        /\ \A t \in undigested : disk[t] = source

OwnedInv == OwnedTypeOK /\ ManifestsAreWhole

LEMMA OwnedInitInv == OwnedInit => OwnedInv
<1> SUFFICES ASSUME OwnedInit PROVE OwnedInv
  OBVIOUS
<1>1. OwnedTypeOK
  BY DEF OwnedInit, OwnedTypeOK, Versions, Trees
<1>2. manifest = {} /\ before.manifest = {} /\ job = "off" /\ undigested = {}
  BY DEF OwnedInit
<1> QED
  BY <1>1, <1>2 DEF OwnedInv, ManifestsAreWhole

\* A manifest is written last, of what has been copied.
LEMMA OwnedStep ==
  ASSUME OwnedInv, [OwnedNext]_ownedVars
  PROVE  OwnedInv'
<1> USE DEF OwnedInv, OwnedTypeOK, ManifestsAreWhole
<1>1. CASE UNCHANGED ownedVars
  BY <1>1 DEF ownedVars
<1>2. CASE SourceChanges
  <2>1. source' = source + 1 /\ UNCHANGED <<disk, manifest, job, todo, undigested, before>>
    BY <1>2 DEF SourceChanges
  <2>2. fresh' = [fresh EXCEPT !.calm = FALSE] \/ (job # "write" /\ fresh' = fresh)
    BY <1>2 DEF SourceChanges, Disturbed
  <2>3. fresh' \in Trees /\ ~(job = "write" /\ fresh'.calm)
    BY <2>2 DEF Trees
  <2>4. OwnedTypeOK'
    BY <2>1, <2>3
  <2>5. ManifestsAreWhole'
    BY <2>1, <2>3
  <2> QED
    BY <2>4, <2>5
<1>3. CASE SomebodyWrites
  <2>1. PICK t \in Targets :
          /\ disk' = [disk EXCEPT ![t] = -1]
          /\ fresh' = [fresh EXCEPT !.calm = FALSE] \/ (t \notin undigested /\ fresh' = fresh)
    BY <1>3 DEF SomebodyWrites, Disturbed
  <2>2. UNCHANGED <<source, manifest, job, todo, undigested, before>>
    BY <1>3 DEF SomebodyWrites
  <2>3. disk' \in Versions
    BY <2>1, disk \in Versions DEF Versions
  <2>4. fresh' \in Trees
    BY <2>1, fresh \in Trees DEF Trees
  <2>5. fresh'.calm => fresh' = fresh /\ t \notin undigested
    BY <2>1, fresh \in Trees DEF Trees
  <2>6. \A u \in Targets \ {t} : disk'[u] = disk[u]
    BY <2>1 DEF Versions
  <2>7. OwnedTypeOK'
    BY <2>2, <2>3, <2>4
  <2>8. (\A m \in manifest \cup before.manifest :
           m.calm => \A u \in Targets : m.files[u] = m.tree)'
    BY <2>2
  <2>9. ASSUME job' = "write", fresh'.calm
        PROVE  (\A u \in Targets : fresh'.files[u] = source') /\
               (\A u \in undigested' : disk'[u] = source')
    BY <2>2, <2>5, <2>6, <2>9
  <2> QED
    BY <2>7, <2>8, <2>9
<1>4. CASE DaemonTurns
  BY <1>4 DEF DaemonTurns
<1>5. CASE BeginOwned
  <2>1. undigested = {} /\ \A t \in Targets : fresh'.files[t] = source
    BY <1>5 DEF BeginOwned
  <2>2. fresh' \in Trees /\ before' \in [disk : Versions, manifest : SUBSET Trees]
    BY <1>5 DEF BeginOwned, Versions, Trees
  <2> QED
    BY <1>5, <2>1, <2>2 DEF BeginOwned
<1>6. ASSUME NEW t \in Targets, WriteTarget(t) PROVE OwnedInv'
  BY <1>6 DEF WriteTarget, Versions, Trees
<1>7. CASE TakeDigest
  BY <1>7 DEF TakeDigest, Versions, Trees
<1>8. CASE WriteManifest
  <2> DEFINE m == [fresh EXCEPT !.tree = source]
  <2>1. m \in Trees /\ manifest' = {m} /\ job' = "off"
    BY <1>8 DEF WriteManifest, Trees
  <2>2. m.calm => \A t \in Targets : m.files[t] = m.tree
    BY <1>8, fresh \in Trees DEF WriteManifest, Trees
  <2>3. undigested = {}
    BY <1>8, undigested \subseteq todo DEF WriteManifest
  <2> QED
    BY <1>8, <2>1, <2>2, <2>3 DEF WriteManifest
<1>9. CASE RollBack
  BY <1>9 DEF RollBack
<1>10. CASE BeginRemoval
  BY <1>10 DEF BeginRemoval
<1>11. CASE RemoveTarget
  BY <1>11 DEF RemoveTarget, Versions
<1>12. CASE InstallerDies
  BY <1>12 DEF InstallerDies
<1> QED
  BY <1>1, <1>2, <1>3, <1>4, <1>5, <1>6, <1>7, <1>8, <1>9, <1>10, <1>11,
     <1>12 DEF OwnedNext

\* However installs, removals, rollbacks, crashes and writes of others follow one
\* another, what status calls installed is one version of the whole runtime, but
\* for an install that its checkout or a write before a digest disturbed
\* (conductor_install.py, truthdeck_install.py).
THEOREM OwnedCorrect == OwnedSpec => []InstalledIsWhole
<1>1. OwnedInv => InstalledIsWhole
  BY DEF OwnedInv, ManifestsAreWhole, InstalledIsWhole, Absent, Clean
<1> QED
  BY <1>1, OwnedInitInv, OwnedStep, PTL DEF OwnedSpec

------------------------------------------------------------------------------
(* The adapters in a host's hook files (HostAdapters) *)

AdapterSpec == AdapterInit /\ [][AdapterNext]_adapterVars

Contents == [ours : BOOLEAN, edits : Nat]
Configs  == [Cfgs -> Contents]

AdapterTypeOK ==
  /\ cfg \in Configs /\ readings \in Configs
  /\ receipt \in SUBSET [old : Configs, new : Configs]
  /\ undo \subseteq Cfgs

\* A file about to be replaced holds the edits the installer has read, unless
\* another program has edited it since the last comparison.
AboutToWrite == \A t \in Cfgs :
    place \in {<<"write", t>>, <<"back", t>>} => t \in late \/ cfg[t].edits = readings[t].edits

\* So does a file that has been rolled back, while the other is.
RolledBack == place[1] \in {"sure", "back"} =>
    \A u \in undo : u \in late \/ cfg[u].edits = readings[u].edits

\* What was installed is what was read, with the handler in it.
ReceiptIsRead == \A r \in receipt : \A t \in Cfgs : r.new[t].edits = r.old[t].edits

AdapterInv == AdapterTypeOK /\ AboutToWrite /\ RolledBack /\ ReceiptIsRead

LEMMA AdapterInitInv == AdapterInit => AdapterInv
<1> SUFFICES ASSUME AdapterInit PROVE AdapterInv
  OBVIOUS
<1>1. AdapterTypeOK
  BY DEF AdapterInit, AdapterTypeOK, Configs, Contents
<1>2. place = <<"off">> /\ receipt = {}
  BY DEF AdapterInit
<1> QED
  BY <1>1, <1>2 DEF AdapterInv, AboutToWrite, RolledBack, ReceiptIsRead

\* The types.
LEMMA AdapterTypesStep ==
  ASSUME AdapterTypeOK, [AdapterNext]_adapterVars
  PROVE  AdapterTypeOK'
<1> USE DEF AdapterTypeOK, Configs, Contents, With
<1>1. CASE UNCHANGED adapterVars
  BY <1>1 DEF adapterVars
<1>2. CASE BeginAdapter
  BY <1>2 DEF BeginAdapter
<1>3. CASE WriteReceipt
  <2>1. [t \in Cfgs |-> With(readings[t])] \in Configs
    OBVIOUS
  <2>2. [old |-> readings, new |-> [t \in Cfgs |-> With(readings[t])]] \in [old : Configs, new : Configs]
    BY <2>1
  <2> HIDE DEF Configs, With
  <2> QED
    BY <1>3, <2>2 DEF WriteReceipt
<1>4. CASE RestoreInstalled
  BY <1>4 DEF RestoreInstalled
<1>5. CASE BeginRollback
  BY <1>5 DEF BeginRollback
<1>6. CASE AdapterDies
  BY <1>6 DEF AdapterDies
<1>7. ASSUME NEW t \in Cfgs, OthersEdit(t) PROVE AdapterTypeOK'
  BY <1>7 DEF OthersEdit
<1>8. ASSUME NEW t \in Cfgs, CheckTarget(t) PROVE AdapterTypeOK'
  BY <1>8 DEF CheckTarget
<1>9. ASSUME NEW t \in Cfgs, ReplaceTarget(t) PROVE AdapterTypeOK'
  BY <1>9 DEF ReplaceTarget
<1>10. ASSUME NEW t \in Cfgs, SureOfTarget(t) PROVE AdapterTypeOK'
  <2>1. \/ UNCHANGED cfg
        \/ cfg' = [u \in Cfgs |-> IF u \in undo THEN With(readings[u]) ELSE cfg[u]]
    BY <1>10 DEF SureOfTarget
  <2>2. \A u \in Cfgs : With(readings[u]) \in Contents
    OBVIOUS
  <2>3. cfg' \in Configs
    BY <2>1, <2>2
  <2> QED
    BY <1>10, <2>3 DEF SureOfTarget
<1>11. ASSUME NEW t \in Cfgs, RollbackTarget(t) PROVE AdapterTypeOK'
  BY <1>11 DEF RollbackTarget
<1> QED
  BY <1>1, <1>2, <1>3, <1>4, <1>5, <1>6, <1>7, <1>8, <1>9, <1>10, <1>11 DEF AdapterNext

\* What is about to be written keeps the rest of the file as it was read.
LEMMA AdapterStep ==
  ASSUME AdapterInv, [AdapterNext]_adapterVars
  PROVE  AdapterInv'
<1>0. AdapterTypeOK'
  BY AdapterTypesStep DEF AdapterInv
<1> USE DEF AdapterInv, AdapterTypeOK, Configs, Contents, AboutToWrite, RolledBack, ReceiptIsRead, With
<1>1. CASE UNCHANGED adapterVars
  BY <1>0, <1>1 DEF adapterVars
<1>2. CASE BeginAdapter
  BY <1>0, <1>2 DEF BeginAdapter
<1>3. CASE WriteReceipt
  BY <1>0, <1>3 DEF WriteReceipt
<1>4. CASE RestoreInstalled
  BY <1>0, <1>4 DEF RestoreInstalled
<1>5. CASE BeginRollback
  BY <1>0, <1>5 DEF BeginRollback, Managed, Cfgs
<1>6. CASE AdapterDies
  BY <1>0, <1>6 DEF AdapterDies
<1>7. ASSUME NEW t \in Cfgs, OthersEdit(t) PROVE AdapterInv'
  BY <1>0, <1>7 DEF OthersEdit
<1>8. ASSUME NEW t \in Cfgs, CheckTarget(t) PROVE AdapterInv'
  BY <1>0, <1>8 DEF CheckTarget, Unchanged
<1>9. ASSUME NEW t \in Cfgs, ReplaceTarget(t) PROVE AdapterInv'
  BY <1>0, <1>9 DEF ReplaceTarget
<1>10. ASSUME NEW t \in Cfgs, SureOfTarget(t) PROVE AdapterInv'
  BY <1>0, <1>10 DEF SureOfTarget, Unchanged
<1>11. ASSUME NEW t \in Cfgs, RollbackTarget(t) PROVE AdapterInv'
  BY <1>0, <1>11 DEF RollbackTarget
<1> QED
  BY <1>1, <1>2, <1>3, <1>4, <1>5, <1>6, <1>7, <1>8, <1>9, <1>10, <1>11 DEF AdapterNext

\* A step after which a file holds fewer edits of others replaces it, and its
\* place is one the invariant speaks of.
LEMMA AdapterKeeps ==
  ASSUME AdapterInv, [AdapterNext]_adapterVars,
         NEW t \in Cfgs, cfg'[t].edits < cfg[t].edits
  PROVE  t \in late
<1> USE DEF AdapterInv, AdapterTypeOK, Configs, Contents, With
<1>1. cfg' # cfg
  OBVIOUS
<1>2. CASE RestoreInstalled
  BY <1>2 DEF RestoreInstalled
<1>3. ASSUME NEW u \in Cfgs, OthersEdit(u) PROVE FALSE
  BY <1>3 DEF OthersEdit
<1>4. ASSUME NEW u \in Cfgs, ReplaceTarget(u) PROVE t \in late
  BY <1>4 DEF ReplaceTarget, AboutToWrite
<1>5. ASSUME NEW u \in Cfgs, SureOfTarget(u) PROVE t \in late
  BY <1>1, <1>5 DEF SureOfTarget, RolledBack
<1>6. ASSUME NEW u \in Cfgs, RollbackTarget(u) PROVE t \in late
  BY <1>6 DEF RollbackTarget, AboutToWrite
<1> QED
  BY <1>1, <1>2, <1>3, <1>4, <1>5, <1>6
     DEF AdapterNext, BeginAdapter, WriteReceipt, BeginRollback, AdapterDies, CheckTarget, adapterVars

\* However many other programs edit the hook files, and whatever install and
\* rollback meet and whenever they die, the installers of the host adapters undo
\* only an edit made after their last look at that file.
THEOREM AdapterCorrect == AdapterSpec => OthersKept
<1>1. AdapterInv /\ [AdapterNext]_adapterVars =>
        [\A t \in Cfgs : cfg'[t].edits < cfg[t].edits => t \in late]_adapterVars
  BY AdapterKeeps
<1> QED
  BY <1>1, AdapterInitInv, AdapterStep, PTL DEF AdapterSpec, OthersKept

------------------------------------------------------------------------------
(* The managed hook block (HookInstaller) *)

HookSpec == HookInit /\ [][HookNext]_hookVars

Steps == {"off", "pending", "settings", "installed", "clear", "unlink"}
Sidecars == [state : {"none", "pending", "installed"}, root : Checkouts \cup {NoCheckout},
             previous : SUBSET Checkouts]
RunRecords == [at : Steps, root : Checkouts \cup {NoCheckout},
               after : SUBSET (Checkouts \cup {HandWired}), previous : SUBSET Checkouts]

HookTypeOK ==
  /\ exists \subseteq Checkouts /\ handlers \subseteq Checkouts \cup {HandWired}
  /\ sidecar \in Sidecars /\ run \in [Runs -> RunRecords]

\* Of the handlers in hs, those the ecosystem installed from a checkout still there.
OursIn(hs) == (hs \ {HandWired}) \cap exists

\* One run at a time, unless runs overlapped.
OneRun == \A r, q \in Runs : run[r].at # "off" /\ run[q].at # "off" => r = q

\* The sidecar knows every handler left, also between two writes of a run; once
\* an install is complete only its own handler is left.
SidecarKnows ==
  /\ OursIn(handlers) \subseteq OwnedRoots
  /\ sidecar.state = "installed" => OursIn(handlers) \subseteq {sidecar.root}

\* What a run has decided still fits what it is going to write it over.
RunFits == \A r \in Runs :
  /\ run[r].at = "pending" => OwnedRoots \subseteq run[r].previous \cup {run[r].root}
  /\ run[r].at \in {"pending", "settings"} => OursIn(run[r].after) \subseteq {run[r].root}
  /\ run[r].at \in {"settings", "installed"} =>
       sidecar = [state |-> "pending", root |-> run[r].root, previous |-> run[r].previous]
  /\ run[r].at = "installed" => OursIn(handlers) \subseteq {run[r].root}
  /\ run[r].at = "clear" => OursIn(run[r].after) = {}
  /\ run[r].at = "unlink" => OursIn(handlers) = {}

HookInv == HookTypeOK /\ (~muddled => OneRun /\ SidecarKnows /\ RunFits)

LEMMA HookInitInv == HookInit => HookInv
<1> SUFFICES ASSUME HookInit PROVE HookInv
  OBVIOUS
<1>1. HookTypeOK
  BY DEF HookInit, HookTypeOK, NoSidecar, Idle, Sidecars, RunRecords, Steps
<1>2. \A r \in Runs : run[r].at = "off"
  BY DEF HookInit, Idle
<1>3. SidecarKnows
  BY DEF HookInit, SidecarKnows, OursIn, NoSidecar
<1> QED
  BY <1>1, <1>2, <1>3 DEF HookInv, OneRun, RunFits

\* The types, the handlers that are the installer's included.
LEMMA HookTypesStep ==
  ASSUME HookTypeOK, [HookNext]_hookVars
  PROVE  HookTypeOK'
<1> USE DEF HookTypeOK, Sidecars, RunRecords, Steps, Idle, Next_, WriteSidecar
<1>1. CASE UNCHANGED hookVars
  BY <1>1 DEF hookVars
<1>2. CASE CheckoutRemoved
  BY <1>2 DEF CheckoutRemoved
<1>3. ASSUME NEW r \in Runs, NEW c \in Checkouts, NEW reconcile \in BOOLEAN,
             BeginInstall(r, c, reconcile)
      PROVE  HookTypeOK'
  BY <1>3 DEF BeginInstall, Previous, OwnedRoots
<1>4. ASSUME NEW r \in Runs, Pending(r) PROVE HookTypeOK'
  BY <1>4 DEF Pending
<1>5. ASSUME NEW r \in Runs, WriteSettings(r) PROVE HookTypeOK'
  BY <1>5 DEF WriteSettings
<1>6. ASSUME NEW r \in Runs, Installed(r) PROVE HookTypeOK'
  BY <1>6 DEF Installed
<1>7. ASSUME NEW r \in Runs, BeginUninstall(r) PROVE HookTypeOK'
  BY <1>7 DEF BeginUninstall
<1>8. ASSUME NEW r \in Runs, RemoveSidecar(r) PROVE HookTypeOK'
  BY <1>8 DEF RemoveSidecar, NoSidecar
<1>9. ASSUME NEW r \in Runs, RunDies(r) PROVE HookTypeOK'
  BY <1>9 DEF RunDies
<1> QED
  BY <1>1, <1>2, <1>3, <1>4, <1>5, <1>6, <1>7, <1>8, <1>9 DEF HookNext

\* One run at a time: what it writes is what it planned on the settings it read.
LEMMA HookStep ==
  ASSUME HookInv, [HookNext]_hookVars
  PROVE  HookInv'
<1>0. HookTypeOK'
  BY HookTypesStep DEF HookInv
<1> SUFFICES ASSUME ~muddled' PROVE OneRun' /\ SidecarKnows' /\ RunFits'
  BY <1>0 DEF HookInv
<1>a. HookTypeOK
  BY DEF HookInv
<1>b. ~muddled
  BY DEF HookNext, hookVars, CheckoutRemoved, BeginInstall, Pending, WriteSettings, Installed,
     BeginUninstall, RemoveSidecar, RunDies
<1>c. OneRun /\ SidecarKnows /\ RunFits
  BY <1>b DEF HookInv
<1> USE <1>a, <1>c DEF HookTypeOK, OneRun, SidecarKnows, RunFits, OursIn, OwnedRoots,
        Next_, WriteSidecar
<1>1. CASE UNCHANGED hookVars
  BY <1>1 DEF hookVars
<1>2. CASE CheckoutRemoved
  BY <1>2 DEF CheckoutRemoved
<1>3. ASSUME NEW r \in Runs, NEW c \in Checkouts, NEW reconcile \in BOOLEAN,
             BeginInstall(r, c, reconcile)
      PROVE  OneRun' /\ SidecarKnows' /\ RunFits'
  BY <1>3 DEF BeginInstall, Previous, Ours, Quiet
<1>4. ASSUME NEW r \in Runs, Pending(r) PROVE OneRun' /\ SidecarKnows' /\ RunFits'
  BY <1>4 DEF Pending, RunRecords
<1>5. ASSUME NEW r \in Runs, WriteSettings(r) PROVE OneRun' /\ SidecarKnows' /\ RunFits'
  BY <1>5 DEF WriteSettings, RunRecords
<1>6. ASSUME NEW r \in Runs, Installed(r) PROVE OneRun' /\ SidecarKnows' /\ RunFits'
  BY <1>6 DEF Installed, Idle
<1>7. ASSUME NEW r \in Runs, BeginUninstall(r) PROVE OneRun' /\ SidecarKnows' /\ RunFits'
  <2>1. Quiet /\ sidecar.state = "installed"
    BY <1>7 DEF BeginUninstall, Sidecars
  <2>2. OursIn(handlers) \subseteq {sidecar.root}
    BY <2>1
  <2> DEFINE begun == [Idle EXCEPT !.at = IF sidecar.root \in handlers THEN "clear" ELSE "unlink",
                                   !.after = handlers \ {sidecar.root}]
  <2>3. /\ begun.at \in {"clear", "unlink"} /\ begun.after = handlers \ {sidecar.root}
        /\ begun.at = "unlink" => sidecar.root \notin handlers
    BY DEF Idle
  <2>4. run' = [run EXCEPT ![r] = begun] /\ UNCHANGED <<exists, handlers, sidecar>>
    BY <1>7 DEF BeginUninstall
  <2> HIDE DEF begun
  <2>5. \A q \in Runs : run'[q] = IF q = r THEN begun ELSE run[q]
    BY <2>4
  <2>6. \A q \in Runs : q # r => run'[q].at = "off"
    BY <2>1, <2>5 DEF Quiet
  <2>7. OneRun'
    BY <2>6
  <2>8. SidecarKnows'
    BY <2>4
  <2>9. run'[r] = begun
    BY <2>5
  <2>10. RunFits'
    BY <2>2, <2>3, <2>4, <2>6, <2>9
  <2> QED
    BY <2>7, <2>8, <2>10
<1>8. ASSUME NEW r \in Runs, RemoveSidecar(r) PROVE OneRun' /\ SidecarKnows' /\ RunFits'
  BY <1>8 DEF RemoveSidecar, NoSidecar, Idle
<1>9. ASSUME NEW r \in Runs, RunDies(r) PROVE OneRun' /\ SidecarKnows' /\ RunFits'
  BY <1>9 DEF RunDies, Idle
<1> QED
  BY <1>1, <1>2, <1>3, <1>4, <1>5, <1>6, <1>7, <1>8, <1>9 DEF HookNext

\* Whatever a run died between two of its writes, from whichever checkout, the
\* next one recognises every handler an earlier one left (hooks_install.py,
\* classify_handler), and status calls none of them a collision; for any number
\* of checkouts and runs, as long as runs do not overlap and no interrupted
\* install is uninstalled.
THEOREM HookCorrect == HookSpec => []HandlersRecognised
<1>1. HookInv => HandlersRecognised
  <2> SUFFICES ASSUME HookTypeOK, SidecarKnows PROVE
        /\ (handlers \ {HandWired}) \cap exists \subseteq OwnedRoots
        /\ \A c \in Checkouts : Report(c) = "COLLISION" => ~(handlers \subseteq exists)
    BY DEF HookInv, HandlersRecognised
  <2>1. (handlers \ {HandWired}) \cap exists \subseteq OwnedRoots
    BY DEF SidecarKnows, OursIn
  <2>2. ASSUME NEW c \in Checkouts, Report(c) = "COLLISION", handlers \subseteq exists PROVE FALSE
    <3>1. handlers # {h \in handlers : Ours(h, c, FALSE)}
      BY <2>2 DEF Report
    <3>2. PICK h \in handlers : ~Ours(h, c, FALSE)
      BY <3>1
    <3> QED
      BY <2>1, <2>2, <3>2, HookAssumption DEF Ours, HookTypeOK
  <2> QED
    BY <2>1, <2>2
<1> QED
  BY <1>1, HookInitInv, HookStep, PTL DEF HookSpec

------------------------------------------------------------------------------
(* The schema of the store (StoreSchema) *)

SchemaSpec == SchemaInit /\ [][SchemaNext]_schemaVars

\* The layouts in the wild, and among them the one of this build.
Layout(v, lacks) ==
  [version |-> v, pools |-> PoolsOf(v),
   columns |-> (ColumnsOf(v) \cup IF v > 8 THEN Fencing ELSE {}) \ lacks]
Known(s) == \E v \in 0 .. 10, lacks \in {{}, {"lease_generation"}} :
               (lacks = {} \/ v \in {8, 9}) /\ s = Layout(v, lacks)
Final == [version |-> 9, columns |-> ColumnsOf(9) \cup Fencing, pools |-> PoolsOf(9)]

ItemRecords == [state : {"QUEUED", "RUNNING", "RECOVERY_REQUIRED"}, claims : Seq(Nat), owner : Nat]

SchemaTypeOK ==
  /\ Known(schema)
  /\ items \in [Items -> ItemRecords]
  /\ opener \in [Openers -> {"away", "must_migrate", "locked", "open", "refused"}]

\* Who has the store open found it complete or made it so; who holds the lock
\* found no newer database.
OpenIsFinal == \A p \in Openers :
  /\ opener[p] = "open" => schema = Final
  /\ opener[p] = "locked" => schema.version <= 9

\* A live item is owned by its latest claim, and claims are numbered in order.
IsFenced(item) ==
  /\ item.claims = Ordered(Len(item.claims))
  /\ item.state \in Live => item.claims # <<>> /\ item.owner = Len(item.claims)

\* From version 9 on the items are fenced, before it none has an owner.
ItemsFollow == \A i \in Items :
  IF schema.version > 8 THEN IsFenced(items[i]) ELSE items[i].owner = 0

SchemaInv == SchemaTypeOK /\ OpenIsFinal /\ ItemsFollow

\* The sequence of the first n numbers, and what a claim more makes of it.
LEMMA OrderedIsSeq ==
  ASSUME NEW n \in Nat
  PROVE  /\ Ordered(n) \in Seq(Nat) /\ Len(Ordered(n)) = n
         /\ [k \in 1 .. n |-> 0] \in Seq(Nat) /\ Len([k \in 1 .. n |-> 0]) = n
         /\ n > 0 => Ordered(n) # <<>> /\ Ordered(n)[n] = n
         /\ Append(Ordered(n), n + 1) = Ordered(n + 1)
  BY DEF Ordered

\* This build's layout is that of version 9 with nothing missing.
LEMMA FinalIsLayout == Final = Layout(9, {})
<1>1. (ColumnsOf(9) \cup IF 9 > 8 THEN Fencing ELSE {}) \ {} = ColumnsOf(9) \cup Fencing
  OBVIOUS
<1> QED
  BY <1>1 DEF Layout, Final

\* Of the layouts only this build's is complete, and none before version 9 has a
\* column for the generation of a claim.
LEMMA LayoutFacts ==
  ASSUME NEW s, Known(s)
  PROVE  /\ s.version \in 0 .. 10
         /\ s.version = 9 /\ Fencing \subseteq s.columns => s = Final
         /\ s.version <= 8 => "claim_generation" \notin s.columns
         /\ s.version > 8 => {"claim_generation", "current_claim"} \subseteq s.columns
         /\ Known(Final) /\ Final.version = 9 /\ Fencing \subseteq Final.columns
<1>1. ASSUME NEW v \in 0 .. 10 PROVE "claim_generation" \notin ColumnsOf(v)
  BY DEF ColumnsOf, Brings
<1>2. PICK v \in 0 .. 10, lacks \in {{}, {"lease_generation"}} :
        (lacks = {} \/ v \in {8, 9}) /\ s = Layout(v, lacks)
  BY DEF Known
<1>3. /\ s.version = v /\ s.pools = PoolsOf(v)
      /\ s.columns = (ColumnsOf(v) \cup IF v > 8 THEN Fencing ELSE {}) \ lacks
  BY <1>2 DEF Layout
<1>4. ASSUME s.version = 9, Fencing \subseteq s.columns PROVE s = Final
  <2>1. v = 9 /\ lacks = {}
    BY <1>3, <1>4 DEF Fencing
  <2>2. Layout(9, {}) = Final
    BY FinalIsLayout
  <2> QED
    BY <1>2, <2>1, <2>2
<1>5. s.version <= 8 => "claim_generation" \notin s.columns
  <2>v. s.version = v
    BY <1>3
  <2> SUFFICES ASSUME v <= 8 PROVE "claim_generation" \notin s.columns
    BY <2>v
  <2>1. s.columns \subseteq ColumnsOf(v)
    BY <1>3
  <2> QED
    BY <1>1, <2>1
<1>6. s.version > 8 => {"claim_generation", "current_claim"} \subseteq s.columns
  BY <1>2, <1>3 DEF Fencing
<1>7. Known(Final)
  <2>1. \E lacks_ \in {{}, {"lease_generation"}} :
          (lacks_ = {} \/ 9 \in {8, 9}) /\ Final = Layout(9, lacks_)
    BY FinalIsLayout
  <2> QED
    BY <2>1, 9 \in 0 .. 10, Zenon DEF Known
<1> QED
  BY <1>3, <1>4, <1>5, <1>6, <1>7 DEF Final

\* The columns and the pools up to v and those after it, up to 9.
LEMMA UpToNine ==
  ASSUME NEW v \in 0 .. 9
  PROVE  /\ ColumnsOf(v) \cup UNION {Brings(w) : w \in v + 1 .. 9} = ColumnsOf(9)
         /\ PoolsOf(v) \cup UNION {Seeds(w) : w \in v + 1 .. 9} = PoolsOf(9)
<1>1. 1 .. 9 = (1 .. v) \cup (v + 1 .. 9)
  OBVIOUS
<1> QED
  BY <1>1 DEF ColumnsOf, PoolsOf

\* Whatever layout up to version 9 a migration starts from, it ends in this build's.
LEMMA MigratedIsFinal ==
  ASSUME Known(schema), schema.version <= 9
  PROVE  Migrated = Final
<1>1. PICK v \in 0 .. 10, lacks \in {{}, {"lease_generation"}} :
        (lacks = {} \/ v \in {8, 9}) /\ schema = Layout(v, lacks)
  BY DEF Known
<1>6. /\ schema.version = v /\ schema.pools = PoolsOf(v)
      /\ schema.columns = (ColumnsOf(v) \cup IF v > 8 THEN Fencing ELSE {}) \ lacks
  BY <1>1 DEF Layout
<1>7. schema.version = v
  BY <1>6
<1>2. v \in 0 .. 9
  BY <1>7
<1>3. schema.columns \cup Fencing = ColumnsOf(v) \cup Fencing
  BY <1>6 DEF Fencing
<1>4. schema.columns \cup Fencing \cup UNION {Brings(w) : w \in v + 1 .. 9} = ColumnsOf(9) \cup Fencing
  BY <1>2, <1>3, <1>6, UpToNine
<1>5. schema.pools \cup UNION {Seeds(w) : w \in v + 1 .. 9} = PoolsOf(9)
  BY <1>2, <1>6, UpToNine
<1> QED
  BY <1>4, <1>5, <1>6 DEF Migrated, Final, Latest

LEMMA SchemaInitInv == SchemaInit => SchemaInv
<1> SUFFICES ASSUME SchemaInit PROVE SchemaInv
  OBVIOUS
<1>0. PICK v \in 0 .. Latest + 1, lacks \in {{}, {"lease_generation"}} :
        /\ lacks = {} \/ v \in {8, 9}
        /\ schema = [version |-> v, pools |-> PoolsOf(v),
                     columns |-> (ColumnsOf(v) \cup IF v > 8 THEN Fencing ELSE {}) \ lacks]
        /\ items \in [Items -> [state : {"QUEUED", "RUNNING"},
                        claims : {[k \in 1 .. n |-> IF v > 8 THEN k ELSE 0] : n \in 0 .. MaxClaims},
                        owner : {0}] \cup
                       [state : {"QUEUED", "RUNNING"},
                        claims : {Ordered(n) : n \in 1 .. MaxClaims}, owner : 1 .. MaxClaims]]
        /\ \A i \in Items : LET n == Len(items[i].claims) IN
             /\ v = 0 => items[i].state = "QUEUED" /\ n = 0
             /\ items[i].owner = IF v > 8 THEN n ELSE 0
             /\ v > 8 /\ items[i].state \in Live => n > 0
  BY Zenon DEF SchemaInit
<1>1. v \in 0 .. 10 /\ schema = Layout(v, lacks)
  BY <1>0 DEF Latest, Layout
<1>2. Known(schema) /\ schema.version = v
  <2>1. Known(schema)
    BY <1>0, <1>1, Zenon DEF Known
  <2>2. schema.version = v
    BY <1>1 DEF Layout
  <2> QED
    BY <2>1, <2>2
<1>3. \A p \in Openers : opener[p] = "away"
  BY DEF SchemaInit
<1>4. opener \in [Openers -> {"away", "must_migrate", "locked", "open", "refused"}]
  BY DEF SchemaInit
<1>5. ASSUME NEW i \in Items
      PROVE  items[i] \in ItemRecords /\ IF v > 8 THEN IsFenced(items[i]) ELSE items[i].owner = 0
  <2>1. items[i].state \in {"QUEUED", "RUNNING"}
    BY <1>0
  <2>2. PICK n \in Nat : \/ items[i].claims = [k \in 1 .. n |-> IF v > 8 THEN k ELSE 0]
                         \/ items[i].claims = Ordered(n)
    <3>1. \/ items[i].claims \in {[k \in 1 .. n |-> IF v > 8 THEN k ELSE 0] : n \in 0 .. MaxClaims}
          \/ items[i].claims \in {Ordered(n) : n \in 1 .. MaxClaims}
      BY <1>0
    <3>2. 0 .. MaxClaims \subseteq Nat /\ 1 .. MaxClaims \subseteq Nat
      BY SchemaAssumption
    <3> QED
      BY <3>1, <3>2, Zenon
  <2>3. \/ items[i].claims = [k \in 1 .. n |-> 0] /\ ~(v > 8)
        \/ items[i].claims = Ordered(n)
    BY <2>2 DEF Ordered
  <2>4. Len(items[i].claims) = n /\ items[i].claims \in Seq(Nat)
    BY <2>3, OrderedIsSeq
  <2>5. items[i].owner = IF v > 8 THEN n ELSE 0
    BY <1>0, <2>4
  <2>6. items[i] = [state |-> items[i].state, claims |-> items[i].claims, owner |-> items[i].owner]
    BY <1>0
  <2>7. items[i] \in ItemRecords
    BY <2>1, <2>4, <2>5, <2>6 DEF ItemRecords
  <2>8. ASSUME v > 8 PROVE IsFenced(items[i])
    <3>1. items[i].claims = Ordered(Len(items[i].claims))
      BY <2>3, <2>4, <2>8
    <3>2. items[i].state \in Live => n > 0
      BY <1>0, <2>4, <2>8
    <3>3. items[i].state \in Live => items[i].claims # <<>>
      BY <2>4, <3>1, <3>2, OrderedIsSeq
    <3> QED
      BY <2>4, <2>5, <2>8, <3>1, <3>3 DEF IsFenced
  <2> QED
    BY <2>5, <2>7, <2>8
<1>6. items \in [Items -> ItemRecords]
  BY <1>0, <1>5
<1> QED
  BY <1>2, <1>3, <1>4, <1>5, <1>6 DEF SchemaInv, SchemaTypeOK, OpenIsFinal, ItemsFollow

\* The migration of an item of an older version numbers its claims and gives a
\* live item the last of them.
LEMMA FencedIsFenced ==
  ASSUME Known(schema), schema.version <= 9, NEW item \in ItemRecords,
         IF schema.version > 8 THEN IsFenced(item) ELSE item.owner = 0
  PROVE  Fenced(item) \in ItemRecords /\ IsFenced(Fenced(item))
<1>1. schema.version \in 0 .. 10
  BY LayoutFacts
<1>2. CASE schema.version > 8
  <2>1. schema.version = 9 /\ "claim_generation" \in schema.columns
    BY <1>1, <1>2, LayoutFacts
  <2>2. Fenced(item) = item
    BY <2>1 DEF Fenced, Latest
  <2> QED
    BY <1>2, <2>2
<1>3. CASE schema.version <= 8
  <2> DEFINE n == Len(item.claims)
             counted == [item EXCEPT !.claims = Ordered(n)]
  <2>1. schema.version < 9 /\ "claim_generation" \notin schema.columns
    BY <1>1, <1>3, LayoutFacts
  <2>2. Fenced(item) = Backfilled(counted)
    BY <2>1 DEF Fenced, Latest
  <2>3. n \in Nat /\ Ordered(n) \in Seq(Nat) /\ Len(Ordered(n)) = n
    BY OrderedIsSeq DEF ItemRecords
  <2>4. /\ counted \in ItemRecords /\ counted.claims = Ordered(n)
        /\ counted.state = item.state
    BY <2>3 DEF ItemRecords
  <2> HIDE DEF counted, n
  <2>5. CASE counted.claims = <<>>
    <3>1. CASE counted.state \in Live
      <4>1. Backfilled(counted) = [counted EXCEPT !.state = "RECOVERY_REQUIRED"]
        BY <2>5, <3>1 DEF Backfilled
      <4>2. /\ Backfilled(counted) \in ItemRecords
            /\ Backfilled(counted).claims = Ordered(n)
            /\ Backfilled(counted).state = "RECOVERY_REQUIRED"
        BY <2>4, <4>1 DEF ItemRecords
      <4> QED
        BY <2>2, <2>3, <4>2 DEF IsFenced, Live
    <3>2. CASE counted.state \notin Live
      <4>1. Backfilled(counted) = counted
        BY <2>5, <3>2 DEF Backfilled
      <4> QED
        BY <2>2, <2>3, <2>4, <3>2, <4>1 DEF IsFenced
    <3> QED
      BY <3>1, <3>2
  <2>6. CASE counted.claims # <<>>
    <3>1. Backfilled(counted) = [counted EXCEPT !.owner = n]
      BY <2>3, <2>4, <2>6 DEF Backfilled
    <3>2. /\ Backfilled(counted) \in ItemRecords
          /\ Backfilled(counted).claims = Ordered(n) /\ Backfilled(counted).owner = n
      BY <2>3, <2>4, <3>1 DEF ItemRecords
    <3> QED
      BY <2>2, <2>3, <2>4, <2>6, <3>2 DEF IsFenced
  <2> QED
    BY <2>5, <2>6
<1> QED
  BY <1>1, <1>2, <1>3

\* Each migration leaves what the later ones and the opened store need.
LEMMA SchemaStep ==
  ASSUME SchemaInv, [SchemaNext]_schemaVars
  PROVE  SchemaInv'
<1> USE DEF SchemaInv, SchemaTypeOK
<1>0. schema.version \in 0 .. 10
  BY LayoutFacts
<1>1. CASE UNCHANGED schemaVars
  BY <1>1 DEF schemaVars, OpenIsFinal, ItemsFollow, IsFenced, Known
<1>2. ASSUME NEW p \in Openers, Open(p) \/ Lock(p) \/ Vanish(p) PROVE SchemaInv'
  <2>1. UNCHANGED <<schema, items>>
    BY <1>2 DEF Open, Lock, Vanish
  <2>2. PICK to \in {"away", "must_migrate", "locked", "open", "refused"} :
          /\ opener' = [opener EXCEPT ![p] = to]
          /\ to = "open" => Complete
          /\ to = "locked" => schema.version <= 9
    BY <1>0, <1>2 DEF Open, Lock, Vanish, Moves, Latest
  <2>3. Complete => schema = Final
    BY LayoutFacts DEF Complete, Latest
  <2>4. SchemaTypeOK' /\ ItemsFollow'
    BY <2>1, <2>2 DEF ItemsFollow, IsFenced, Known
  <2>5. OpenIsFinal'
    BY <2>1, <2>2, <2>3 DEF OpenIsFinal
  <2> QED
    BY <2>4, <2>5
<1>3. ASSUME NEW p \in Openers, Migrate(p) PROVE SchemaInv'
  <2>1. schema.version <= 9 /\ opener' = [opener EXCEPT ![p] = "open"]
    BY <1>3 DEF Migrate, Moves, OpenIsFinal
  <2>2. schema' = Final /\ items' = [i \in Items |-> Fenced(items[i])]
    BY <1>3, <2>1, MigratedIsFinal DEF Migrate
  <2>3. Known(Final) /\ Final.version = 9
    BY LayoutFacts
  <2>4. \A i \in Items : Fenced(items[i]) \in ItemRecords /\ IsFenced(Fenced(items[i]))
    BY <2>1, FencedIsFenced DEF ItemsFollow
  <2>5. items' \in [Items -> ItemRecords] /\ \A i \in Items : IsFenced(items'[i])
    BY <2>2, <2>4
  <2>6. SchemaTypeOK' /\ OpenIsFinal'
    BY <2>1, <2>2, <2>3, <2>5 DEF OpenIsFinal
  <2>7. ItemsFollow'
    BY <2>2, <2>3, <2>5 DEF ItemsFollow, IsFenced
  <2> QED
    BY <2>6, <2>7
<1>4. ASSUME NEW p \in Openers, NEW i \in Items, ClaimsItem(p, i) PROVE SchemaInv'
  <2>1. schema = Final /\ Final.version = 9
    BY <1>4, LayoutFacts DEF ClaimsItem, OpenIsFinal
  <2>2. PICK item \in ItemRecords : item = items[i] /\ IsFenced(item)
    BY <2>1 DEF ItemsFollow
  <2>3. PICK n \in Nat : n = Len(item.claims) /\ item.claims = Ordered(n)
    <3>1. Len(item.claims) \in Nat
      <4>1. item.claims \in Seq(Nat)
        BY <2>2 DEF ItemRecords
      <4> QED
        BY <4>1
    <3>2. item.claims = Ordered(Len(item.claims))
      BY <2>2 DEF IsFenced
    <3> QED
      BY <3>1, <3>2, Zenon
  <2> DEFINE g == IF item.claims = <<>> THEN 1 ELSE item.claims[Len(item.claims)] + 1
             claimed == [state |-> "RUNNING", claims |-> Append(item.claims, g), owner |-> g]
  <2>4. g = n + 1
    <3>1. CASE n = 0
      <4>1. item.claims = <<>>
        BY <2>3, <3>1, OrderedIsSeq DEF Ordered
      <4> QED
        BY <3>1, <4>1
    <3>2. CASE n > 0
      <4>1. item.claims # <<>> /\ item.claims[n] = n
        BY <2>3, <3>2, OrderedIsSeq
      <4> QED
        BY <2>3, <4>1
    <3> QED
      BY <3>1, <3>2
  <2>5. items' = [items EXCEPT ![i] = claimed] /\ UNCHANGED <<schema, opener>>
    BY <1>4, <2>2 DEF ClaimsItem
  <2> HIDE DEF g
  <2>6. claimed.claims = Ordered(n + 1) /\ claimed.owner = n + 1 /\ claimed.state = "RUNNING"
    BY <2>3, <2>4, OrderedIsSeq
  <2>7. Ordered(n + 1) \in Seq(Nat) /\ Len(Ordered(n + 1)) = n + 1 /\ Ordered(n + 1) # <<>>
    <3>1. n + 1 \in Nat /\ n + 1 > 0
      OBVIOUS
    <3> QED
      BY <3>1, OrderedIsSeq
  <2>8. claimed \in ItemRecords
    BY <2>4, <2>6, <2>7 DEF ItemRecords
  <2> HIDE DEF claimed
  <2>9. IsFenced(claimed)
    BY <2>6, <2>7 DEF IsFenced
  <2>10. items' = [j \in Items |-> IF j = i THEN claimed ELSE items[j]]
    BY <2>5
  <2>11. items' \in [Items -> ItemRecords] /\ \A j \in Items : IsFenced(items'[j])
    BY <2>1, <2>8, <2>9, <2>10 DEF ItemsFollow
  <2>12. SchemaTypeOK' /\ OpenIsFinal'
    BY <2>5, <2>11 DEF OpenIsFinal, Known
  <2>13. ItemsFollow'
    BY <2>1, <2>5, <2>11 DEF ItemsFollow, IsFenced
  <2> QED
    BY <2>12, <2>13
<1> QED
  BY <1>1, <1>2, <1>3, <1>4 DEF SchemaNext

\* Whatever layout the database came from, whoever migrated it, claimed in it and
\* died trying, a process that has it open finds it complete and its live items
\* owned by their latest claims (conductor_store.py, _init_db and
\* _migrate_to_v9_locked).
THEOREM SchemaCorrect == SchemaSpec => []OpenedIsComplete
<1>1. SchemaInv => OpenedIsComplete
  <2> SUFFICES ASSUME SchemaInv, NEW p \in Openers, opener[p] = "open"
               PROVE  schema = Final /\ \A i \in Items : IsFenced(items[i])
    BY DEF OpenedIsComplete, Final, IsFenced, Latest
  <2>1. schema = Final /\ Final.version = 9
    BY LayoutFacts DEF SchemaInv, SchemaTypeOK, OpenIsFinal
  <2> QED
    BY <2>1 DEF SchemaInv, ItemsFollow
<1> QED
  BY <1>1, SchemaInitInv, SchemaStep, PTL DEF SchemaSpec

===============================================================================
