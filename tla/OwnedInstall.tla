----------------------------- MODULE OwnedInstall -----------------------------
(***************************************************************************)
(* conductor_install.py and truthdeck_install.py: files copied one by one  *)
(* from a checkout, then a manifest with their digests; the manifest and   *)
(* the digests decide what a later install or uninstall may touch.  An     *)
(* error rolls back, a crash does not.  Conductor reads its sources before *)
(* it writes, TruthDeck as it copies.                                      *)
(***************************************************************************)
EXTENDS Integers

CONSTANTS MaxSource  \* bound on the versions of the checkout

Targets == {"runtime", "skill"}

VARIABLES
  product,   \* "conductor" or "truthdeck"
  source,    \* version of the checkout
  disk,      \* [Targets -> version on disk, 0 for none, -1 for somebody else's]
  manifest,  \* {} or {[files, tree, calm]}
  daemon,    \* a Conductor leader is active
  job,       \* where the installer stands: "off", "write", "remove"
  todo,      \* targets without a digest yet, or not yet removed
  undigested,  \* the target replaced last, its digest not yet taken
  fresh,     \* [files, tree, calm] being installed: the payloads, then the digests
  before     \* [disk, manifest] to roll back to

\* calm is history: neither the checkout changed during that install nor did
\* somebody write a target between its replacement and its digest.
ownedVars == <<product, source, disk, manifest, daemon, job, todo, undigested, fresh, before>>

FaultyClean == \A m \in manifest : \A t \in Targets : disk[t] # 0

\* The digests of the manifest are those on disk: INSTALLED, or SOURCE_MISMATCH.
Clean == \A m \in manifest : disk = m.files
Absent == manifest = {}

OwnedInit ==
  /\ product \in {"conductor", "truthdeck"}
  /\ source = 1 /\ disk = [t \in Targets |-> 0] /\ manifest = {} /\ daemon = FALSE
  /\ job = "off" /\ todo = {} /\ undigested = {}
  /\ fresh = [files |-> disk, tree |-> 0, calm |-> TRUE]
  /\ before = [disk |-> disk, manifest |-> {}]

Disturbed == fresh' = [fresh EXCEPT !.calm = FALSE]

SourceChanges ==
  /\ source < MaxSource /\ source' = source + 1
  /\ IF job = "write" THEN Disturbed ELSE UNCHANGED fresh
  /\ UNCHANGED <<product, disk, manifest, daemon, job, todo, undigested, before>>

SomebodyWrites ==
  /\ \E t \in Targets : /\ disk' = [disk EXCEPT ![t] = -1]
                        /\ IF t \in undigested THEN Disturbed ELSE UNCHANGED fresh
  /\ UNCHANGED <<product, source, manifest, daemon, job, todo, undigested, before>>

DaemonTurns ==
  /\ product = "conductor" /\ daemon' = ~daemon
  /\ UNCHANGED <<product, source, disk, manifest, job, todo, undigested, fresh, before>>

\* A clean install, if any; no leader on an upgrade; no foreign file in the way.
BeginOwned ==
  /\ job = "off" /\ Clean
  /\ product = "conductor" => /\ ~Absent => ~daemon
                              /\ Absent => \A t \in Targets : disk[t] = 0
  /\ job' = "write" /\ todo' = Targets
  /\ before' = [disk |-> disk, manifest |-> manifest]
  /\ fresh' = [files |-> [t \in Targets |-> source], tree |-> source, calm |-> TRUE]
  /\ UNCHANGED <<product, source, disk, manifest, daemon, undigested>>

\* TruthDeck refuses a foreign skill only here.
WriteTarget(t) ==
  /\ job = "write" /\ t \in todo /\ undigested = {}
  /\ ~(product = "truthdeck" /\ t = "skill" /\ Absent /\ disk[t] # 0)
  /\ disk' = [disk EXCEPT ![t] = IF product = "conductor" THEN fresh.files[t] ELSE source]
  /\ undigested' = {t}
  /\ UNCHANGED <<product, source, manifest, daemon, job, todo, fresh, before>>

\* Of what is read back from the disk.
TakeDigest ==
  /\ \E t \in undigested : /\ fresh' = [fresh EXCEPT !.files[t] = disk[t]]
                           /\ todo' = todo \ {t}
  /\ undigested' = {}
  /\ UNCHANGED <<product, source, disk, manifest, daemon, job, before>>

WriteManifest ==
  /\ job = "write" /\ todo = {}
  /\ manifest' = {[fresh EXCEPT !.tree = source]} /\ job' = "off"
  /\ UNCHANGED <<product, source, disk, daemon, todo, undigested, fresh, before>>

RollBack ==
  /\ job = "write" /\ job' = "off" /\ todo' = {} /\ undigested' = {}
  /\ disk' = before.disk /\ manifest' = before.manifest
  /\ UNCHANGED <<product, source, daemon, fresh, before>>

BeginRemoval ==
  /\ job = "off" /\ ~Absent /\ Clean /\ ~daemon
  /\ job' = "remove" /\ todo' = Targets
  /\ UNCHANGED <<product, source, disk, manifest, daemon, undigested, fresh, before>>

RemoveTarget ==
  /\ job = "remove"
  /\ IF todo = {} THEN manifest' = {} /\ job' = "off" /\ UNCHANGED <<disk, todo>>
     ELSE \E t \in todo : /\ disk' = [disk EXCEPT ![t] = 0] /\ todo' = todo \ {t}
                          /\ UNCHANGED <<manifest, job>>
  /\ UNCHANGED <<product, source, daemon, undigested, fresh, before>>

InstallerDies ==
  /\ job # "off" /\ job' = "off" /\ todo' = {}
  /\ undigested' = {}
  /\ UNCHANGED <<product, source, disk, manifest, daemon, fresh, before>>

OwnedNext == \/ SourceChanges \/ SomebodyWrites \/ DaemonTurns
             \/ BeginOwned \/ (\E t \in Targets : WriteTarget(t)) \/ TakeDigest
             \/ WriteManifest \/ RollBack
             \/ BeginRemoval \/ RemoveTarget \/ InstallerDies

-------------------------------------------------------------------------------
(* Properties *)

\* What status calls installed is one version of the whole runtime, and the one
\* its manifest names, however many installs and removals died or were rolled
\* back before and whatever others wrote meanwhile.  Only an install whose
\* checkout changed under it, or into which somebody wrote just before a digest
\* was taken, leaves a manifest that calls something else installed.
InstalledIsWhole ==
  ~Absent /\ Clean /\ job = "off" =>
    \E m \in manifest : m.calm => \A t \in Targets : disk[t] = m.tree
===============================================================================
