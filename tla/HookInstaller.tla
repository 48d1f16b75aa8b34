----------------------------- MODULE HookInstaller -----------------------------
(***************************************************************************)
(* hooks_install.py: the managed hook block of ~/.claude/settings.json and *)
(* the sidecar manifest that records who wrote it.  The ecosystem may be   *)
(* installed from several checkouts; a handler is recognised as ours by    *)
(* the checkout it is rooted in, and what nobody recognises stays in place *)
(* beside the next block.  One managed script; a run may die between any   *)
(* two of its writes, and two runs may overlap.                            *)
(***************************************************************************)
EXTENDS Naturals, FiniteSets

CONSTANTS Checkouts, HandWired, NoCheckout, Runs

ASSUME HookAssumption == HandWired \notin Checkouts /\ NoCheckout \notin Checkouts

VARIABLES
  exists,    \* checkouts still on disk
  handlers,  \* the handlers of the script in settings.json, by their root
  sidecar,   \* [state |-> "none", "pending" or "installed", root, previous]
  run,       \* [Runs -> [at, root, after, previous]]
  muddled    \* history: runs overlapped, or a pending install was uninstalled

hookVars == <<exists, handlers, sidecar, run, muddled>>
NoSidecar == [state |-> "none", root |-> NoCheckout, previous |-> {}]
Idle      == [at |-> "off", root |-> NoCheckout, after |-> {}, previous |-> {}]
Quiet     == \A r \in Runs : run[r].at = "off"
Next_(r, to) == run' = [run EXCEPT ![r].at = to]

\* Recorded roots prove ownership while they are still checkouts.
OwnedRoots == ({sidecar.root} \cup sidecar.previous) \cap exists

HookInit == /\ exists = Checkouts /\ handlers \in {{}, {HandWired}}
            /\ sidecar = NoSidecar /\ run = [r \in Runs |-> Idle] /\ muddled = FALSE

FaultyPrevious(c) == {}

\* The roots a new sidecar carries over.
Previous(c) == OwnedRoots \ {c}

\* classify_handler for an install from c; reconcile claims whatever runs the script.
Ours(h, c, reconcile) == h = c \/ h = sidecar.root \/ h \in OwnedRoots \/ reconcile

\* Everything is read and merged before the first write; a block that is
\* canonical already, with a healthy sidecar, is left alone.
BeginInstall(r, c, reconcile) ==
  LET after == {h \in handlers : ~Ours(h, c, reconcile)} \cup {c} IN
  /\ run[r].at = "off" /\ c \in exists
  /\ ~(after = handlers /\ sidecar.state = "installed")
  /\ run' = [run EXCEPT ![r] = [at |-> "pending", root |-> c, after |-> after,
                                previous |-> Previous(c)]]
  /\ muddled' = (muddled \/ ~Quiet)
  /\ UNCHANGED <<exists, handlers, sidecar>>

WriteSidecar(r, state) ==
  sidecar' = [state |-> state, root |-> run[r].root, previous |-> run[r].previous]

Pending(r) == /\ run[r].at = "pending" /\ WriteSidecar(r, "pending") /\ Next_(r, "settings")
              /\ UNCHANGED <<exists, handlers, muddled>>

WriteSettings(r) ==
  /\ run[r].at \in {"settings", "clear"} /\ handlers' = run[r].after
  /\ Next_(r, IF run[r].at = "clear" THEN "unlink" ELSE "installed")
  /\ UNCHANGED <<exists, sidecar, muddled>>

Installed(r) == /\ run[r].at = "installed" /\ WriteSidecar(r, "installed")
                /\ run' = [run EXCEPT ![r] = Idle]
                /\ UNCHANGED <<exists, handlers, muddled>>

\* uninstall removes the exact commands the sidecar lists, then the sidecar.
BeginUninstall(r) ==
  /\ run[r].at = "off" /\ sidecar.state # "none"
  /\ run' = [run EXCEPT ![r] = [Idle EXCEPT !.at = IF sidecar.root \in handlers
                                                   THEN "clear" ELSE "unlink",
                                            !.after = handlers \ {sidecar.root}]]
  /\ muddled' = (muddled \/ ~Quiet \/ sidecar.state = "pending")
  /\ UNCHANGED <<exists, handlers, sidecar>>

RemoveSidecar(r) == /\ run[r].at = "unlink" /\ sidecar' = NoSidecar
                    /\ run' = [run EXCEPT ![r] = Idle]
                    /\ UNCHANGED <<exists, handlers, muddled>>

RunDies(r) == /\ run[r].at # "off" /\ run' = [run EXCEPT ![r] = Idle]
              /\ UNCHANGED <<exists, handlers, sidecar, muddled>>

CheckoutRemoved == /\ \E c \in exists : exists' = exists \ {c}
                   /\ UNCHANGED <<handlers, sidecar, run, muddled>>

\* status, as its verdicts roll up for the checkout c.
Report(c) ==
  LET ours == {h \in handlers : Ours(h, c, FALSE)} IN
  CASE c \notin exists -> "SOURCE_MANIFEST_UNREADABLE"
    [] sidecar.state = "pending" -> "INCOMPLETE_INSTALL"
    [] ours \ {c} # {} -> "DRIFTED"
    [] c \notin handlers -> IF ours = {} /\ sidecar = NoSidecar THEN "NEVER_INSTALLED" ELSE "MISSING"
    [] handlers # ours -> "COLLISION"
    [] OTHER -> IF sidecar = NoSidecar THEN "UNVERIFIED_PRESENT" ELSE "OK"

HookNext == CheckoutRemoved \/ \E r \in Runs :
  \/ \E c \in Checkouts, reconcile \in BOOLEAN : BeginInstall(r, c, reconcile)
  \/ Pending(r) \/ WriteSettings(r) \/ Installed(r)
  \/ BeginUninstall(r) \/ RemoveSidecar(r) \/ RunDies(r)

-------------------------------------------------------------------------------
(* Properties *)

\* The settings and sidecar pair is crash-recoverable: whenever no run is at
\* work the next install recognises every handler an earlier one left, from any
\* checkout that still exists, so none fires twice, and what status calls a
\* collision is not a handler of ours.  Overlapping runs, and the uninstall of an
\* interrupted install, are the ways to lose that.
HandlersRecognised ==
  Quiet /\ ~muddled =>
    /\ (handlers \ {HandWired}) \cap exists \subseteq OwnedRoots
    /\ \A c \in Checkouts : Report(c) = "COLLISION" => ~(handlers \subseteq exists)
===============================================================================
