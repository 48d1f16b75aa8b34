------------------------------ MODULE TruthDeck ------------------------------
(***************************************************************************)
(* truthctl: one snapshot of one repository.  Each source is read by a     *)
(* command of its own -- git in four, then the plan, GitHub, the review and *)
(* the runtime probes side by side until a deadline -- while people commit, *)
(* push, review, merge and deploy.  The gates are judged from the facts,   *)
(* and judged again whenever the stored snapshot is read.                  *)
(***************************************************************************)
EXTENDS Naturals, FiniteSets

CONSTANTS MaxHead,   \* bound on the commits of the checkout
          MaxEvents, \* bound on what happens around the run
          Deadline,  \* total_deadline_s, in ticks
          TTL,       \* how long runtime facts stay fresh, in ticks
          MaxClock

ASSUME TruthAssumption == MaxHead \in Nat /\ Deadline \in Nat /\ TTL \in Nat

VARIABLES
  checkout, \* [head, dirty]
  pr,       \* [head, checks]: GitHub checks the head of the PR
  landed,   \* the commits the base branch contains
  papers,   \* [packet, reviewed, clear]: the heads named by packet and result, and its verdict
  service,  \* [build, ready]: what is deployed
  events,
  clock,    \* since observed_at_utc, the stamp of the snapshot
  phase,    \* where truthctl stands
  applicable, \* the profile has a runtime
  planGate,  \* the gate of the plan
  git,      \* the facts of collect_git
  facts,    \* what the collectors returned: at most one record each
  packetHead, \* collect_review has read this head from the packet
  probes,   \* [nr, builds, ready] of the probes so far
  \* history
  praised, green,
  seenRunning \* of a build: one more than the last tick it ran at, 0 if it never ran

worldVars == <<checkout, pr, landed, papers, service, praised, green>>
runVars   == <<phase, applicable, planGate, git, facts, packetHead, probes>>
truthVars == <<worldVars, events, clock, seenRunning, runVars>>

Heads == 0 .. MaxHead
Unread == MaxHead + 1
NoProbes == [nr |-> 0, builds |-> {}, ready |-> TRUE]

TruthInit ==
  /\ checkout = [head |-> 0, dirty |-> FALSE]
  /\ pr \in [head : Heads, checks : {"pending", "passed"}]
  /\ landed \in {{}, {0}} /\ papers = [packet |-> 0, reviewed |-> 0, clear |-> TRUE]
  /\ service = [build |-> 0, ready |-> TRUE]
  /\ events = 0 /\ clock = 0 /\ phase = "head"
  /\ applicable \in BOOLEAN /\ planGate = "UNKNOWN"
  /\ git = [head |-> 0, base |-> {}, clean |-> FALSE, merged |-> "unknown"]
  /\ facts = [github |-> {}, review |-> {}, runtime |-> {}]
  /\ packetHead = Unread /\ probes = NoProbes
  /\ praised = {0}
  /\ green = IF pr.checks = "passed" THEN {pr.head} ELSE {}
  /\ seenRunning = [h \in Heads |-> IF h = service.build THEN 1 ELSE 0]

-------------------------------------------------------------------------------
(* Everybody else *)

Edit == /\ ~checkout.dirty /\ checkout' = [checkout EXCEPT !.dirty = TRUE]
        /\ UNCHANGED <<pr, landed, papers, service, praised, green>>
HeadMoves == /\ checkout.head < MaxHead \* or a pull
          /\ checkout' = [head |-> checkout.head + 1, dirty |-> FALSE]
          /\ UNCHANGED <<pr, landed, papers, service, praised, green>>
Push == /\ pr.head < checkout.head /\ pr' = [head |-> checkout.head, checks |-> "pending"]
        /\ UNCHANGED <<checkout, landed, papers, service, praised, green>>
ChecksFinish == /\ pr.checks = "pending" /\ \E c \in {"passed", "failed"} : pr' = [pr EXCEPT !.checks = c]
                /\ green' = IF pr'.checks = "passed" THEN green \cup {pr.head} ELSE green
                /\ UNCHANGED <<checkout, landed, papers, service, praised>>
AskReview == /\ papers.packet # checkout.head /\ papers' = [papers EXCEPT !.packet = checkout.head]
             /\ UNCHANGED <<checkout, pr, landed, service, praised, green>>
Reviews == /\ papers.reviewed # papers.packet
           /\ \E c \in BOOLEAN : papers' = [papers EXCEPT !.reviewed = papers.packet, !.clear = c]
           /\ praised' = IF papers'.clear THEN praised \cup {papers.packet} ELSE praised
           /\ UNCHANGED <<checkout, pr, landed, service, green>>
Merge == /\ pr.head \notin landed /\ landed' = landed \cup 0 .. pr.head
         /\ UNCHANGED <<checkout, pr, papers, service, praised, green>>
Deploys == /\ \E b \in Heads, r \in BOOLEAN : service' = [build |-> b, ready |-> r]
          /\ service' # service
          /\ UNCHANGED <<checkout, pr, landed, papers, praised, green>>

\* A build that is running is seen running up to now.
Running == seenRunning' = [seenRunning EXCEPT ![service.build] = clock + 1,
                                              ![service'.build] = clock + 1]

Elsewhere ==
  /\ events < MaxEvents /\ events' = events + 1
  /\ \/ /\ phase # "stored" \* what else happens later concerns no snapshot
        /\ Edit \/ HeadMoves \/ Push \/ ChecksFinish \/ AskReview \/ Reviews \/ Merge
     \/ Deploys
  /\ Running /\ UNCHANGED <<clock, runVars>>

\* The collectors end by the deadline.
Tick ==
  /\ clock < IF phase = "stored" THEN MaxClock ELSE Deadline
  /\ clock' = clock + 1 /\ seenRunning' = [seenRunning EXCEPT ![service.build] = clock' + 1]
  /\ UNCHANGED <<worldVars, events, runVars>>

-------------------------------------------------------------------------------
(* The collectors *)

Reads(to) == /\ phase' = to /\ UNCHANGED <<worldVars, events, clock, seenRunning, applicable>>

\* collect_git: HEAD, the base, the status and the ancestry, one git command each.
ReadHead == /\ phase = "head" /\ Reads("base")
            /\ git' = [git EXCEPT !.head = checkout.head]
            /\ UNCHANGED <<planGate, facts, packetHead, probes>>
ReadBase == /\ phase = "base" /\ Reads("status")
            /\ \E found \in {{}, {landed}} : git' = [git EXCEPT !.base = found]
            /\ UNCHANGED <<planGate, facts, packetHead, probes>>
ReadStatus == /\ phase = "status" /\ Reads("ancestry")
              /\ git' = [git EXCEPT !.clean = ~checkout.dirty]
              /\ UNCHANGED <<planGate, facts, packetHead, probes>>
ReadAncestry ==
  /\ phase = "ancestry" /\ Reads("collect")
  /\ git' = [git EXCEPT !.merged = IF git.base = {} THEN "unknown"
                                   ELSE IF git.head \in UNION git.base THEN "yes" ELSE "no"]
  /\ UNCHANGED <<planGate, facts, packetHead, probes>>

\* collect_github: the facts of a single read.
Collects(name, found) ==
  /\ phase = "collect" /\ facts[name] = {} /\ Reads("collect")
  /\ facts' = [facts EXCEPT ![name] = {found}]
  /\ UNCHANGED <<planGate, git>>
CollectGithub == Collects("github", [head |-> pr.head, passed |-> pr.checks = "passed",
                                     merged |-> pr.head \in landed]) /\ UNCHANGED <<packetHead, probes>>

\* collect_review: the packet, then the result, both for the head that git showed.
ReadPacket == /\ phase = "collect" /\ packetHead = Unread /\ packetHead' = papers.packet
              /\ Reads("collect") /\ UNCHANGED <<planGate, git, facts, probes>>
CollectReview ==
  /\ packetHead # Unread
  /\ LET match == packetHead = git.head /\ papers.reviewed = git.head
     IN Collects("review", [head |-> CASE match -> git.head [] packetHead # git.head -> packetHead
                                       [] OTHER -> papers.reviewed,
                            blocking |-> ~match \/ ~papers.clear])
  /\ UNCHANGED <<packetHead, probes>>

\* collect_runtime: two probes after one another.
ReadProbe == /\ phase = "collect" /\ applicable /\ probes.nr < 2
         /\ probes' = [nr |-> probes.nr + 1, builds |-> probes.builds \cup {service.build},
                       ready |-> probes.ready /\ service.ready]
         /\ Reads("collect") /\ UNCHANGED <<planGate, git, facts, packetHead>>
CollectRuntime ==
  /\ applicable => probes.nr = 2
  /\ \E sampled \in BOOLEAN :
       Collects("runtime", [builds |-> probes.builds, ready |-> probes.ready, sampled |-> sampled])
  /\ UNCHANGED <<packetHead, probes>>

\* _planned, of what collect_plan found; two artifacts are two facts with one
\* key, a conflict that takes the earliest gate.
Planned(plan, artifacts) ==
  CASE artifacts > 1 \/ plan = "none" -> "UNKNOWN"
    [] plan = "blocked" -> "BLOCKED"
    [] plan = "unauthorized" -> "HOLD"
    [] OTHER -> "PASS"

\* collect_concurrently: a collector that failed or is late at the deadline
\* leaves no fact.  The snapshot is stored whatever the plan and the artifacts.
\* (collect_git is not captured: its failure, like a crash, ends the run.)
Store ==
  /\ phase = "collect" /\ Reads("stored") /\ UNCHANGED <<git, facts>>
  /\ packetHead' = Unread /\ probes' = NoProbes
  /\ \E plan \in {"none", "sound", "blocked", "unauthorized"}, artifacts \in 0 .. 2 :
       planGate' = Planned(plan, artifacts)

-------------------------------------------------------------------------------
(* truthdeck_gates.py, on the facts of the snapshot *)

Implemented == IF git.clean THEN "PASS" ELSE "BLOCKED"

Reviewed == CASE facts.review = {} -> "UNKNOWN"
              [] \E r \in facts.review : r.head # git.head \/ r.blocking -> "BLOCKED"
              [] OTHER -> "PASS"

FaultyCI == CASE facts.github = {} -> "UNKNOWN"
              [] \E g \in facts.github : ~g.passed -> "BLOCKED"
              [] OTHER -> "PASS"

CI == CASE facts.github = {} -> "UNKNOWN"
        [] \E g \in facts.github : g.head # git.head \/ ~g.passed -> "BLOCKED"
        [] OTHER -> "PASS"

\* The merged PR counts for git, unless it is of another head.
MergeGate == CASE git.merged = "yes" -> "PASS"
            [] \E g \in facts.github : g.merged /\ g.head # git.head -> "BLOCKED"
            [] \E g \in facts.github : g.merged -> "PASS"
            [] git.merged = "unknown" /\ facts.github = {} -> "UNKNOWN"
            [] OTHER -> "HOLD"

\* _freshen: re_evaluate takes runtime facts for stale at fresh_until.
Stale(now) == TTL <= now

Runtime(now) ==
  CASE facts.runtime = {} -> "UNKNOWN"
    [] ~applicable -> "NOT_APPLICABLE"
    [] Stale(now) \/ \E r \in facts.runtime : ~r.sampled \/ Cardinality(r.builds) # 1 -> "UNKNOWN"
    [] \E r \in facts.runtime : r.builds # {git.head} \/ ~r.ready -> "BLOCKED"
    [] OTHER -> "PASS"

Gates(now) == {planGate, Implemented, Reviewed, CI, MergeGate, Runtime(now)}

\* overall_state of the gates.
Passes(now) == Gates(now) \subseteq {"PASS", "NOT_APPLICABLE"}

TruthNext == \/ Elsewhere \/ Tick
             \/ ReadHead \/ ReadBase \/ ReadStatus \/ ReadAncestry
             \/ CollectGithub \/ ReadPacket \/ CollectReview
             \/ ReadProbe \/ CollectRuntime \/ Store

-------------------------------------------------------------------------------
(* Properties *)

\* A snapshot that passes when it is read speaks of one commit, however much
\* moved while it was collected: that commit was reviewed and praised, was
\* green in CI, is in the base branch, and its build was running less than a
\* time-to-live before the reading (truthdeck_gates.py, truthctl.re_evaluate).
PassIsOneHead ==
  phase = "stored" /\ Passes(clock) =>
    /\ git.head \in praised \cap green \cap landed
    /\ applicable => /\ seenRunning[git.head] > 0
                     /\ clock < (seenRunning[git.head] - 1) + TTL
===============================================================================
