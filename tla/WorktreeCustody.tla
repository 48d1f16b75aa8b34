---------------------------- MODULE WorktreeCustody ----------------------------
(***************************************************************************)
(* One linked worktree and everything that may remove it: the receipt a    *)
(* session close records and the operator applies (worktree_lifecycle.py), *)
(* and the janitor (git_hygiene.py) that reaps worktrees and branches and  *)
(* overlays merged files into the primary checkout.  Each reads git more   *)
(* than once and then acts, while a session goes on working in the tree.   *)
(* git is external: it refuses to remove a dirty or locked worktree, and   *)
(* branch -d refuses a branch that is not merged.                          *)
(***************************************************************************)
EXTENDS Naturals

CONSTANTS MaxTip, \* bound on the commits of the worktree
          NoHead      \* no receipt, nothing looked at

Cleaners == {"apply", "hygiene"}

VARIABLES
  tree,     \* "linked" or "gone"
  branch,   \* "detached", "branch" or "deleted"
  tip,      \* number of commits the worktree's HEAD, or its branch, holds
  trunk,    \* how many of them are on the base branch
  dirty,    \* uncommitted changes in the worktree
  locked,   \* git worktree lock
  closed,  \* the head an eligible close receipt names
  look,     \* [Cleaners -> the head the cleaner last read]
  does,     \* [Cleaners -> where it stands]
  wip,      \* uncommitted change to a file of the primary checkout
  planned,  \* the deploy plan overlays that file
  retouched   \* that file was edited since the plan was made

treeVars == <<tree, branch, tip, trunk, dirty, locked, closed, look, does, wip, planned, retouched>>
work     == <<tip, trunk, dirty, locked>>
primary  == <<wip, planned, retouched>>

Merged     == tip <= trunk
Reachable  == Merged \/ tree = "linked" \/ branch = "branch"
Go(c, to)  == does' = [does EXCEPT ![c] = to]
See(c)     == look' = [look EXCEPT ![c] = tip]

TreeInit ==
  /\ tree = "linked" /\ branch \in {"detached", "branch"}
  /\ tip = 1 /\ trunk \in {0, 1} /\ dirty = FALSE /\ locked = FALSE
  /\ closed = NoHead /\ look = [c \in Cleaners |-> NoHead]
  /\ does = [c \in Cleaners |-> "off"]
  /\ wip = FALSE /\ planned = FALSE /\ retouched = FALSE

\* The session, other sessions, and the operator outside these programs.
Works ==
  /\ \/ /\ tree = "linked" /\ dirty' = TRUE
        /\ UNCHANGED <<tree, tip, trunk, locked, wip, retouched>>
     \/ /\ tree = "linked" /\ tip < MaxTip /\ tip' = tip + 1 /\ dirty' = FALSE
        /\ UNCHANGED <<tree, trunk, locked, wip, retouched>>
     \/ /\ trunk' = tip /\ UNCHANGED <<tree, tip, dirty, locked, wip, retouched>>
     \/ /\ tree = "linked" /\ locked' = ~locked
        /\ UNCHANGED <<tree, tip, trunk, dirty, wip, retouched>>
     \/ /\ branch = "branch" /\ ~dirty /\ ~locked
        /\ tree' = IF tree = "gone" THEN "linked" ELSE "gone"
        /\ UNCHANGED <<tip, trunk, dirty, locked, wip, retouched>>
     \/ /\ wip' = TRUE /\ retouched' = TRUE
        /\ UNCHANGED <<tree, tip, trunk, dirty, locked>>
  /\ UNCHANGED <<branch, closed, look, does, planned>>

FaultyEligible(clean, unlocked) == clean /\ unlocked

\* classify_terminal, for a linked worktree git can read.
Eligible(clean, unlocked) == clean /\ unlocked /\ Merged

\* record_session_close, for a verdict that makes a receipt worth applying.
RecordClose ==
  /\ tree = "linked" /\ Eligible(~dirty, ~locked)
  /\ closed' = tip
  /\ UNCHANGED <<tree, branch, work, look, does, primary>>

\* apply_receipt: the status read that gives HEAD, branch and dirty paths, then
\* the reads of the worktree list and of the ancestry.
ApplyStatus ==
  /\ does["apply"] = "off" /\ tree = "linked"
  /\ closed = tip /\ ~dirty
  /\ See("apply") /\ Go("apply", "classify")
  /\ UNCHANGED <<tree, branch, work, closed, primary>>

ApplyClassify ==
  /\ does["apply"] = "classify"
  /\ Go("apply", IF tree = "linked" /\ Eligible(TRUE, ~locked) THEN "remove" ELSE "off")
  /\ UNCHANGED <<tree, branch, work, closed, look, primary>>

\* analyze: ancestry and lock first, the status of the worktree after.
HygieneLook ==
  /\ does["hygiene"] = "off"
  /\ Merged /\ See("hygiene")
  /\ \/ tree = "linked" /\ ~locked /\ Go("hygiene", "status")
     \/ tree = "gone" /\ branch = "branch" /\ Go("hygiene", "branch")
  /\ UNCHANGED <<tree, branch, work, closed, primary>>

HygieneStatus ==
  /\ does["hygiene"] = "status"
  /\ Go("hygiene", IF tree = "linked" /\ ~dirty THEN "remove" ELSE "off")
  /\ UNCHANGED <<tree, branch, work, closed, look, primary>>

\* git worktree remove.  apply goes on to the branch, unless git did not answer
\* in time; the janitor meets the branch in its next run.
Remove(c) ==
  /\ does[c] = "remove"
  /\ IF tree = "linked" /\ ~dirty /\ ~locked
     THEN /\ tree' = "gone"
          /\ \/ c = "apply" /\ branch = "branch" /\ Go(c, "branch")
             \/ Go(c, "off")
     ELSE UNCHANGED tree /\ Go(c, "off")
  /\ UNCHANGED <<branch, work, closed, look, primary>>

\* git branch -d; the janitor, refused because HEAD is not the base, proves the
\* ancestry again and forces.
DeleteBranch(c) ==
  /\ does[c] = "branch"
  /\ \/ /\ branch' = IF Merged /\ tree = "gone" THEN "deleted" ELSE branch
        /\ Go(c, "off") /\ UNCHANGED look
     \/ /\ c = "hygiene" /\ Merged /\ See(c)
        /\ Go(c, "force") /\ UNCHANGED branch
  /\ UNCHANGED <<tree, work, closed, primary>>

ForceDelete ==
  /\ does["hygiene"] = "force"
  /\ branch' = IF tree = "gone" THEN "deleted" ELSE branch
  /\ Go("hygiene", "off")
  /\ UNCHANGED <<tree, work, closed, look, primary>>

CleanerDies(c) ==
  /\ does[c] # "off" /\ Go(c, "off")
  /\ UNCHANGED <<tree, branch, work, closed, look, primary>>

\* deploy_plan and do_deploy.
DeployPlan ==
  /\ ~wip /\ planned' = TRUE /\ retouched' = FALSE
  /\ UNCHANGED <<tree, branch, work, closed, look, does, wip>>

Deploy ==
  /\ planned /\ planned' = FALSE /\ wip' = FALSE
  /\ UNCHANGED <<tree, branch, work, closed, look, does, retouched>>

Cleans == \/ RecordClose \/ ApplyStatus \/ ApplyClassify \/ HygieneLook \/ HygieneStatus
          \/ ForceDelete \/ DeployPlan \/ Deploy
          \/ \E c \in Cleaners : Remove(c) \/ DeleteBranch(c) \/ CleanerDies(c)

TreeNext == Works \/ Cleans

-------------------------------------------------------------------------------
(* Properties *)

\* Cleaning up loses no work the cleaner had looked at: the last reference to an
\* unmerged commit goes only when HEAD has moved since the cleaner read it, and
\* an uncommitted change in the primary checkout only when it came after the plan.
LostOnlyUnseen ==
  [][/\ Reachable /\ ~Reachable' =>
          \E c \in Cleaners : does'[c] # does[c] /\ look[c] # tip
     /\ wip /\ ~wip' => retouched]_treeVars
===============================================================================
