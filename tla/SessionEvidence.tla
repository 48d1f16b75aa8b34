---------------------------- MODULE SessionEvidence ----------------------------
(***************************************************************************)
(* How SessionEnd reaches its verdict (session_lifecycle.py): a handful of *)
(* git commands, each a process of its own that reads the repository as it *)
(* is just then, and a decision over what they said.  The checkout is      *)
(* shared: while the commands run somebody else may edit, commit, pull,    *)
(* switch or push.  SessionVerdict begins where this module ends, with the *)
(* verdict file.                                                           *)
(*                                                                         *)
(* A commit carries its tree and all its ancestors.  The transcript is     *)
(* left out: collect_evidence calls it incomplete whatever it holds, and   *)
(* the paths it names matter only beside a dirt that decides UNKNOWN.      *)
(***************************************************************************)
EXTENDS Naturals, Sequences

CONSTANTS File,
          MaxShifts  \* bound on what happens to the repository

VARIABLES
  log,       \* the commits: [past, tree]; the second is start_sha
  HEAD, origin, \* HEAD and origin/main
  files,     \* the worktree
  baseline,  \* start_dirty_paths
  doing,     \* the next git command of the hook
  seen,      \* the evidence so far
  outcome,   \* the verdict
  happened,
  left,      \* the worktree and HEAD when the hook began (history)
  disturbed  \* the files somebody changed in the worktree since (history)

repoVars == <<log, HEAD, origin, files>>
evidenceVars == <<repoVars, baseline, doing, seen, outcome, happened, left, disturbed>>

Start == 2
Mine == {"mine", "again"}
Tree(c) == log[c].tree
Past(c) == log[c].past
Diff(t, u) == {f \in File : t[f] # u[f]}
Dirty == Diff(files, Tree(HEAD))

Nothing == [ok |-> TRUE, dirty |-> {}, commits |-> {}, paths |-> {}, reached |-> FALSE]

EvidenceInit ==
  \E dirt \in SUBSET File :
    /\ log = [c \in 1 .. Start |-> [past |-> 1 .. c, tree |-> [f \in File |-> "base"]]]
    /\ HEAD = Start /\ origin = Start /\ baseline = dirt
    /\ files = [f \in File |-> IF f \in dirt THEN "theirs" ELSE "base"]
    /\ doing = "session" /\ seen = Nothing /\ outcome = "none" /\ happened = 0
    /\ left = [work |-> files, head |-> Start] /\ disturbed = {}

-------------------------------------------------------------------------------
(* The repository *)

\* A new commit on top of c.
New(c, t) == log' = Append(log, [past |-> Past(c) \cup {Len(log) + 1}, tree |-> t])

EditFile(f) ==
  /\ \E v \in {"theirs", Tree(HEAD)[f]} \cup (IF doing = "session" THEN Mine ELSE {}) :
       v # files[f] /\ files' = [files EXCEPT ![f] = v]
  /\ UNCHANGED <<log, HEAD, origin>>

CommitFile(f) ==
  /\ f \in Dirty
  /\ New(HEAD, [Tree(HEAD) EXCEPT ![f] = files[f]]) /\ HEAD' = Len(log) + 1
  /\ UNCHANGED <<origin, files>>

\* HEAD is pushed; one file of it is merged by squashing; somebody else's change lands.
PushHead == origin \in Past(HEAD) \ {HEAD} /\ origin' = HEAD /\ UNCHANGED <<log, HEAD, files>>

LandFile(f) ==
  /\ \E v \in {"theirs", Tree(HEAD)[f]} \ {Tree(origin)[f]} :
       New(origin, [Tree(origin) EXCEPT ![f] = v])
  /\ origin' = Len(log) + 1 /\ UNCHANGED <<HEAD, files>>

\* git switch, pull --ff-only, reset --keep: a file that is dirty stays as it is.
CheckOut(c) ==
  /\ c # HEAD /\ Diff(Tree(c), Tree(HEAD)) \cap Dirty = {}
  /\ HEAD' = c /\ files' = [f \in File |-> IF f \in Dirty THEN files[f] ELSE Tree(c)[f]]
  /\ UNCHANGED <<log, origin>>

RepoMoves ==
  /\ happened < MaxShifts /\ happened' = happened + 1 /\ doing # "done"
  /\ \/ PushHead
     \/ \E f \in File : EditFile(f) \/ CommitFile(f) \/ LandFile(f)
     \/ \E c \in 1 .. Len(log) : CheckOut(c)
  /\ disturbed' = IF doing = "session" THEN {} ELSE disturbed \cup Diff(files, files')
  /\ UNCHANGED <<baseline, doing, seen, outcome, left>>

-------------------------------------------------------------------------------
(* collect_evidence *)

Learn(s, next) == /\ seen' = s /\ doing' = next
                  /\ UNCHANGED <<repoVars, baseline, outcome, happened, left, disturbed>>

\* SessionEnd; without a binding that fits the event no command runs.
HookBegins ==
  /\ doing = "session"
  /\ left' = [work |-> files, head |-> HEAD]
  /\ \/ doing' = "status" /\ UNCHANGED seen
     \/ doing' = "decide" /\ seen' = [Nothing EXCEPT !.ok = FALSE]
  /\ UNCHANGED <<repoVars, baseline, outcome, happened, disturbed>>

\* A command that fails, or has no time left.
GitFails == doing \in {"status", "ancestor", "history", "diff", "reached", "effect"}
            /\ Learn([seen EXCEPT !.ok = FALSE], "decide")

Status == doing = "status" /\ Learn([seen EXCEPT !.dirty = Dirty], "ancestor")

StartIsAncestor ==
  /\ doing = "ancestor"
  /\ IF Start \in Past(HEAD) THEN Learn(seen, "history")
     ELSE Learn([seen EXCEPT !.ok = FALSE], "decide")

ListCommits == doing = "history" /\ Learn([seen EXCEPT !.commits = Past(HEAD) \ Past(Start)], "diff")

PathDiff == doing = "diff" /\ Learn([seen EXCEPT !.paths = Diff(Tree(Start), Tree(HEAD))], "reached")

\* HEAD is an ancestor of origin.  If it is not, its effect may be there all the same.
Reached ==
  /\ doing = "reached"
  /\ Learn([seen EXCEPT !.reached = HEAD \in Past(origin)],
           IF HEAD \in Past(origin) \/ seen.commits = {} THEN "decide" ELSE "effect")

\* No path names every path.
Effect ==
  /\ doing = "effect"
  /\ LET over == IF seen.paths = {} THEN File ELSE seen.paths
     IN  Learn([seen EXCEPT !.reached = Diff(Tree(HEAD), Tree(origin)) \cap over = {}], "decide")

\* Mutant: only files the session also committed are its own.
FaultyOwnDirt == (seen.dirty \ baseline) \cap seen.paths

\* Transcript attribution never gets this far.
OwnDirt == seen.dirty \ baseline

\* decide_verdict; unfinished: the plan has open items.  Dirt from before the session, still
\* there or gone, settles nothing.
Decision(unfinished) ==
  IF ~seen.ok \/ baseline # {} THEN "UNKNOWN"
  ELSE IF seen.commits = {} /\ seen.paths \cup OwnDirt = {} THEN "NO-OP"
  ELSE IF (seen.commits = {} /\ OwnDirt # {}) \/ ~seen.reached THEN "CHECKPOINT"
  ELSE IF OwnDirt # {} \/ unfinished THEN "HANDOFF"
  ELSE "ARCHIVE-OK"

Decide ==
  /\ doing = "decide" /\ doing' = "done" /\ \E o \in BOOLEAN : outcome' = Decision(o)
  /\ UNCHANGED <<repoVars, baseline, seen, happened, left, disturbed>>

EvidenceNext == RepoMoves \/ HookBegins \/ GitFails \/ Status \/ StartIsAncestor \/ ListCommits
                \/ PathDiff \/ Reached \/ Effect \/ Decide

-------------------------------------------------------------------------------
(* Property *)

\* A verdict never loses what the session left in its checkout: NO-OP only if nothing
\* there is the session's, ARCHIVE-OK only if all of it has been on origin, HANDOFF
\* only if what it had committed has.  True however the commands interleave with
\* other people's pushes, commits and switches; a file somebody overwrites meanwhile
\* is theirs to answer for.
VerdictIsEarned ==
  LET own == {f \in File \ disturbed : left.work[f] \in Mine}
      committed == {f \in own : left.work[f] = Tree(left.head)[f]}
      landed == {f \in own : \E c \in Past(origin) : Tree(c)[f] = left.work[f]}
  IN  /\ outcome = "NO-OP" => own = {}
      /\ outcome = "ARCHIVE-OK" => own \subseteq landed
      /\ outcome = "HANDOFF" => committed \subseteq landed
===============================================================================
