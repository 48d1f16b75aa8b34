----------------------------- MODULE CuratorPacket -----------------------------
(***************************************************************************)
(* curator_claims.py: the packet that confronts what a session said with   *)
(* TruthDeck, git and its transcript.  Every piece is read by a command of *)
(* its own -- the snapshot, HEAD, the transcript, three listings of changed *)
(* paths, the commit range -- while the session goes on in the worktree.   *)
(* One claim, which may assert several things at once, about one file.     *)
(* git is external: commits by their identity, HEAD, the index, the files. *)
(***************************************************************************)
EXTENDS Naturals

CONSTANTS Sentences, \* the sets of classes a claim may assert
          MaxMoves   \* bound on what happens to the repository

Classes == {"change", "commit", "test", "ci"}

ASSUME CuratorAssumption == Sentences \subseteq SUBSET Classes /\ MaxMoves \in Nat

VARIABLES
  bound,    \* the binding names this worktree
  claim,    \* [classes, artifact, commit] of the sentence; the artifact may be a bare
            \* name that another changed file bears too ("twin"); commit holds the
            \* commits whose SHA has the stated prefix
  dirty0,   \* the file was dirty when the session started
  rooted,   \* the start commit is an ancestor of HEAD
  range,    \* the commits of start..HEAD; with rooted, which commit HEAD is
  made,     \* commits numbered so far
  onDisk,     \* against HEAD: "same", "edited" or "untracked"
  inHead,   \* HEAD's version differs from the start's
  moves,    \* git steps so far
  tests,    \* last test run of the transcript: "none", "passed", "failed", "unclear"
  step,     \* where the packet stands
  truth,    \* {} or {[head, ci]}, the snapshot
  matching,
  said,     \* the test record read from the transcript
  paths,    \* what the listings say: subset of {"committed", "working"}
  complete, \* no listing failed
  root,     \* the start was an ancestor when the commit range was asked for
  answer,   \* the state of the claim
  \* history of the repository: the session's commits, those that left start..HEAD,
  \* who has changed the file
  mine, dropped, bySession, byOthers,
  \* history of the file while its paths were listed
  always, ever, shifted

gitVars    == <<rooted, range, made, onDisk, inHead, moves, mine, dropped, bySession, byOthers>>
fixedVars  == <<bound, claim, dirty0>>
packetVars == <<step, truth, matching, said, paths, complete, root, answer>>
curatorVars == <<gitVars, fixedVars, tests, packetVars, always, ever, shifted>>

States  == IF "ci" \in claim.classes THEN {"PASS", "HOLD", "UNKNOWN"} ELSE {"UNKNOWN"}
Theirs  == (1 .. made) \ mine
HeadNow == [rooted |-> rooted, range |-> range]
Changed == inHead \/ (onDisk # "same" /\ (dirty0 => bySession))
Listing == step \in {"diff_working", "list_untracked"}

CuratorInit ==
  /\ bound \in BOOLEAN /\ dirty0 \in BOOLEAN
  /\ claim \in [classes : Sentences, artifact : {"none", "path", "twin"},
                commit : SUBSET (1 .. MaxMoves)]
  /\ claim.artifact # "path" => "change" \in claim.classes
  /\ claim.commit # {} => "commit" \in claim.classes
  /\ rooted = TRUE /\ range = {} /\ made = 0 /\ inHead = FALSE /\ moves = 0
  /\ mine = {} /\ dropped = {} /\ bySession = FALSE /\ byOthers = FALSE
  /\ onDisk = IF dirty0 THEN "edited" ELSE "same"
  /\ tests = "none" /\ step = "begin" /\ truth = {} /\ matching = FALSE /\ said = "none"
  /\ paths = {} /\ complete = TRUE /\ root = FALSE /\ answer = "none"
  /\ always = FALSE /\ ever = FALSE /\ shifted = FALSE

-------------------------------------------------------------------------------
(* The session and the repository it works in *)

Watch(shifts) ==
  /\ always' = (always /\ Changed') /\ ever' = (ever \/ (Listing /\ Changed'))
  /\ shifted' = (shifted \/ (shifts /\ Listing))
  /\ dropped' = dropped \cup (range \ range')

Edits ==
  /\ bySession' = TRUE
  /\ onDisk' \in {"edited", "untracked", "same"} \ {onDisk}
  /\ UNCHANGED <<rooted, range, made, mine, inHead, byOthers>>
  /\ Watch(onDisk = "untracked" /\ onDisk' = "edited")

\* A commit, of this file or of others, or an amend: the same with another SHA.
SessionCommits ==
  /\ made' = made + 1 /\ mine' = mine \cup {made'}
  /\ \E amended \in {{}} \cup {{c} : c \in range} : range' = (range \ amended) \cup {made'}
  /\ \/ /\ onDisk # "same" /\ onDisk' = "same"
        /\ inHead' \in {TRUE, ~inHead} /\ bySession' = TRUE
     \/ UNCHANGED <<onDisk, inHead, bySession>>
  /\ UNCHANGED <<rooted, byOthers>> /\ Watch(TRUE)

\* A commit of somebody else, fetched and merged; git refuses it a dirty file.
Pulls ==
  /\ made' = made + 1 /\ range' = range \cup {made'}
  /\ \/ onDisk = "same" /\ inHead' \in BOOLEAN /\ byOthers' = TRUE
     \/ UNCHANGED <<inHead, byOthers>>
  /\ UNCHANGED <<rooted, mine, onDisk, bySession>> /\ Watch(TRUE)

\* A reset, a rebase, a switch: HEAD goes to some other commit there is.  A line
\* that the start is not on has a version of its own; a soft reset leaves the
\* change in the working tree.
HeadGoes ==
  /\ rooted' \in BOOLEAN /\ range' \in SUBSET (1 .. made) /\ HeadNow' # HeadNow
  /\ inHead' \in BOOLEAN /\ (rooted' /\ range' = {} => ~inHead')
  /\ byOthers' = (byOthers \/ (inHead' /\ ~rooted'))
  /\ (inHead' => bySession \/ byOthers')
  /\ onDisk' \in {"same", onDisk} \cup (IF inHead THEN {"edited"} ELSE {})
  /\ UNCHANGED <<made, mine, bySession>> /\ Watch(TRUE)

GitMoves == /\ moves < MaxMoves /\ moves' = moves + 1
            /\ UNCHANGED <<fixedVars, tests, packetVars>>
            /\ (Edits \/ SessionCommits \/ Pulls \/ HeadGoes)

TestsRun == /\ step = "begin" /\ "test" \in claim.classes /\ tests' \in {"passed", "failed", "unclear"}
            /\ UNCHANGED <<gitVars, fixedVars, packetVars, always, ever, shifted>>

-------------------------------------------------------------------------------
(* The packet *)

Goes(to) == step' = to /\ UNCHANGED <<gitVars, fixedVars, tests>>
History == <<always, ever, shifted>>

\* read_session_plan, read_session_binding, current_git_root, run_truth_snapshot.
TakeSnapshot ==
  /\ step = "begin"
  /\ IF bound
     THEN /\ Goes("head") /\ UNCHANGED answer
          /\ truth' \in {{}} \cup {{[head |-> HeadNow, ci |-> c]} : c \in States}
     ELSE Goes("done") /\ answer' = "UNVERIFIED" /\ UNCHANGED truth
  /\ UNCHANGED <<matching, said, paths, complete, root, History>>

\* The snapshot speaks of the HEAD there is now.
HeadOf(snapshot) == \E s \in snapshot : s.head = HeadNow

CompareHead ==
  /\ step = "head" /\ Goes("transcript") /\ matching' = HeadOf(truth)
  /\ UNCHANGED <<truth, said, paths, complete, root, answer, History>>

\* build_transcript_window and extract_claims, and is_ancestor for the listings.
ReadTranscript ==
  /\ step = "transcript"
  /\ \/ said' = tests /\ complete' = rooted /\ UNCHANGED answer
        /\ Goes(IF rooted THEN "diff_start" ELSE "root")
     \/ answer' = "UNVERIFIED" /\ Goes("done") /\ UNCHANGED <<said, complete>>
  /\ UNCHANGED <<truth, matching, paths, root, History>>

\* A listing that fails leaves the evidence incomplete.
Lists(found, to) ==
  /\ \/ paths' = paths \cup found /\ UNCHANGED complete
     \/ complete' = FALSE /\ UNCHANGED paths
  /\ Goes(to)
  /\ UNCHANGED <<truth, matching, said, root, answer>>

DiffStart ==
  /\ step = "diff_start" /\ Lists(IF inHead THEN {"committed"} ELSE {}, "diff_working")
  /\ always' = Changed /\ ever' = Changed /\ shifted' = FALSE
DiffWorking ==
  /\ step = "diff_working"
  /\ Lists(IF onDisk = "edited" THEN {"working"} ELSE {}, "list_untracked")
  /\ UNCHANGED History
ListUntracked ==
  /\ step = "list_untracked"
  /\ Lists(IF onDisk = "untracked" THEN {"working"} ELSE {}, "root")
  /\ UNCHANGED History

\* is_ancestor once more, for the range of commits.
AskRoot ==
  /\ step = "root" /\ Goes("judge") /\ root' \in {FALSE, rooted}
  /\ UNCHANGED <<truth, matching, said, paths, complete, answer, History>>

FaultyAttributable == paths # {}

\* Dirty before the session and not committed by it: nobody's.
Attributable == "committed" \in paths \/ ("working" \in paths /\ ~dirty0)

\* verify_claims, one class at a time.
JudgeChange ==
  CASE claim.artifact = "none" -> "UNVERIFIED"
    [] claim.artifact = "twin" -> IF Attributable THEN "UNVERIFIED" ELSE "VERIFIED"
    [] claim.artifact = "path" /\ Attributable -> "VERIFIED"
    [] OTHER -> IF dirty0 \/ ~complete THEN "UNVERIFIED" ELSE "REFUTED"

\* listed is {} if the range could not be had, {range} otherwise.
JudgeCommit(listed) ==
  LET named == claim.commit \cap UNION listed IN
  CASE listed = {} -> "UNVERIFIED"
    [] listed # {} /\ named = {} -> "REFUTED"
    [] OTHER -> IF \E c \in named : named = {c} THEN "VERIFIED" ELSE "UNVERIFIED"

JudgeTest == CASE said = "passed" -> "VERIFIED"
               [] said = "failed" -> "REFUTED"
               [] OTHER -> "UNVERIFIED"

JudgeCI(snapshot) == CASE snapshot.ci = "PASS" -> "VERIFIED"
                       [] snapshot.ci = "HOLD" -> "REFUTED"
                       [] OTHER -> "UNVERIFIED"

Facets(snapshot, listed) ==
  {CASE c = "change" -> JudgeChange [] c = "commit" -> JudgeCommit(listed)
     [] c = "test" -> JudgeTest     [] c = "ci" -> JudgeCI(snapshot) : c \in claim.classes}

Combined(states) == CASE "REFUTED" \in states -> "REFUTED"
                      [] states = {"VERIFIED"} -> "VERIFIED"
                      [] OTHER -> "UNVERIFIED"

\* rev-list, if the start is an ancestor, and the verdict.
Judge ==
  /\ step = "judge" /\ Goes("done")
  /\ \E listed \in {{}} \cup (IF root THEN {{range}} ELSE {}) :
       answer' = IF matching THEN Combined(UNION {Facets(s, listed) : s \in truth})
                 ELSE "UNVERIFIED"
  /\ UNCHANGED <<truth, matching, said, paths, complete, root, History>>

CuratorNext == \/ (step # "done" /\ GitMoves) \/ TestsRun
               \/ TakeSnapshot \/ CompareHead \/ ReadTranscript
               \/ DiffStart \/ DiffWorking \/ ListUntracked \/ AskRoot \/ Judge

-------------------------------------------------------------------------------
(* Properties *)

\* The packet settles nothing against the evidence.  A claim is VERIFIED only if
\* everything it asserts was true when it was looked at: the file had changed,
\* the tests had passed, CI had passed, the commit exists; and the change and the
\* commit are the session's own but for what it has brought in from others, which
\* start..HEAD counts as well.  It is REFUTED only if something it asserts was
\* false, with two exceptions: a changed file can be denied when a commit, a move
\* of HEAD or a git add falls between the three listings, and a commit the
\* session did make once it was amended or HEAD has gone elsewhere.
PacketIsSound ==
  step = "done" =>
    /\ answer = "VERIFIED" =>
         /\ "change" \in claim.classes /\ claim.artifact = "path" =>
              ever /\ (bySession \/ byOthers)
         /\ "test" \in claim.classes => said = "passed"
         /\ "ci" \in claim.classes => \E s \in truth : s.ci = "PASS"
         /\ "commit" \in claim.classes => claim.commit \cap (mine \cup Theirs) # {}
    /\ answer = "REFUTED" =>
         \/ "change" \in claim.classes /\ (~always \/ shifted)
         \/ "test" \in claim.classes /\ said = "failed"
         \/ "ci" \in claim.classes /\ \E s \in truth : s.ci = "HOLD"
         \/ "commit" \in claim.classes /\ claim.commit \cap mine \subseteq dropped
===============================================================================
