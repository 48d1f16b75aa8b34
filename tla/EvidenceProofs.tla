---------------------------- MODULE EvidenceProofs ----------------------------
(***************************************************************************)
(* Theorems about what the evidence says, for any number of commits, steps *)
(* and instants: the snapshot of a repository (TruthDeck), the packet that *)
(* confronts a claim with it (CuratorPacket) and the verdict of SessionEnd *)
(* (SessionEvidence).  All read a world that moves on between the          *)
(* commands, so each proof carries what has been read as a statement about *)
(* the past.                                                               *)
(***************************************************************************)
EXTENDS TruthDeck, CuratorPacket, SessionEvidence, SequenceTheorems, TLAPS

------------------------------------------------------------------------------
(* The snapshot of a repository (TruthDeck) *)

TruthSpec == TruthInit /\ [][TruthNext]_truthVars

\* collect_git is still reading.
Early == {"head", "base", "status", "ancestry"}

TruthTypeOK ==
  /\ checkout \in [head : Heads, dirty : BOOLEAN]
  /\ pr \in [head : Heads, checks : {"pending", "passed", "failed"}]
  /\ papers \in [packet : Heads, reviewed : Heads, clear : BOOLEAN]
  /\ service \in [build : Heads, ready : BOOLEAN]
  /\ clock \in Nat
  /\ phase \in Early \cup {"collect", "stored"}
  /\ applicable \in BOOLEAN
  /\ git = [head |-> git.head, base |-> git.base, clean |-> git.clean, merged |-> git.merged]
  /\ git.head \in Heads
  /\ facts = [github |-> facts.github, review |-> facts.review, runtime |-> facts.runtime]
  /\ probes = [nr |-> probes.nr, builds |-> probes.builds, ready |-> probes.ready]
  /\ seenRunning \in [Heads -> Nat]

\* The builds that have run so far; one that runs is among them.
Ran == {h \in Heads : seenRunning[h] > 0}

\* The world keeps its word: a clear review was praise, passed checks were green.
WorldIsRecorded ==
  /\ papers.clear => papers.reviewed \in praised
  /\ pr.checks = "passed" => pr.head \in green
  /\ service.build \in Ran

\* Nothing is collected before git is read, and what git said was so: a base
\* that it read has stayed a part of the base branch.
GitIsPast ==
  /\ phase \in Early => git.merged = "unknown"
  /\ \A b \in git.base : b \subseteq landed
  /\ git.merged = "yes" => git.head \in landed

\* Each fact was true when it was collected, and the past stays the past.
FactsArePast ==
  /\ phase \in Early => facts = [github |-> {}, review |-> {}, runtime |-> {}]
  /\ \A g \in facts.github : g.passed => g.head \in green
  /\ \A g \in facts.github : g.merged => g.head \in landed
  /\ \A r \in facts.review : ~r.blocking => git.head \in praised
  /\ probes.builds \subseteq Ran
  /\ \A r \in facts.runtime : r.builds \subseteq Ran

TruthInv == TruthTypeOK /\ WorldIsRecorded /\ GitIsPast /\ FactsArePast

LEMMA TruthInitInv == TruthInit => TruthInv
<1> SUFFICES ASSUME TruthInit PROVE TruthInv
  OBVIOUS
<1> USE TruthAssumption DEF TruthInit, Heads, Early
<1>1. TruthTypeOK
  BY DEF TruthTypeOK, NoProbes
<1>2. WorldIsRecorded
  BY DEF WorldIsRecorded, Ran
<1>3. GitIsPast
  BY DEF GitIsPast
<1>4. FactsArePast
  BY DEF FactsArePast, NoProbes
<1> QED BY <1>1, <1>2, <1>3, <1>4 DEF TruthInv

\* What anybody else does keeps the types and leaves the history longer.
LEMMA WorldMoves ==
  ASSUME TruthInv, Elsewhere
  PROVE  /\ checkout' \in [head : Heads, dirty : BOOLEAN]
         /\ pr' \in [head : Heads, checks : {"pending", "passed", "failed"}]
         /\ papers' \in [packet : Heads, reviewed : Heads, clear : BOOLEAN]
         /\ service' \in [build : Heads, ready : BOOLEAN]
         /\ papers'.clear => papers'.reviewed \in praised'
         /\ pr'.checks = "passed" => pr'.head \in green'
         /\ praised \subseteq praised' /\ green \subseteq green' /\ landed \subseteq landed'
<1> USE TruthAssumption DEF TruthInv, TruthTypeOK, WorldIsRecorded, Heads
<1>1. CASE Edit
  BY <1>1 DEF Edit
<1>2. CASE HeadMoves
  BY <1>2 DEF HeadMoves
<1>3. CASE Push
  BY <1>3 DEF Push
<1>4. CASE ChecksFinish
  BY <1>4 DEF ChecksFinish
<1>5. CASE AskReview
  BY <1>5 DEF AskReview
<1>6. CASE Reviews
  BY <1>6 DEF Reviews
<1>7. CASE Merge
  BY <1>7 DEF Merge
<1>8. CASE Deploys
  BY <1>8 DEF Deploys
<1> QED BY <1>1, <1>2, <1>3, <1>4, <1>5, <1>6, <1>7, <1>8 DEF Elsewhere

\* Builds that ran have run, and the build that is up is seen.
LEMMA SightsGrow ==
  ASSUME TruthInv, Elsewhere \/ Tick
  PROVE  /\ seenRunning' \in [Heads -> Nat] /\ Ran \subseteq Ran' /\ service'.build \in Ran'
<1> USE DEF TruthInv, TruthTypeOK, WorldIsRecorded, Ran
<1>1. CASE Elsewhere
  <2>1. service'.build \in Heads /\ service.build \in Heads
    BY <1>1, WorldMoves
  <2> QED BY <1>1, <2>1 DEF Elsewhere, Running
<1>2. CASE Tick
  BY <1>2 DEF Tick, worldVars
<1> QED BY <1>1, <1>2

\* What is read was so, and the history only grows.
LEMMA TruthStep ==
  ASSUME TruthInv, [TruthNext]_truthVars
  PROVE  TruthInv'
<1> USE TruthAssumption DEF TruthInv
<1>1. CASE Elsewhere
  <2>1. UNCHANGED <<clock, phase, applicable, planGate, git, facts, packetHead, probes>>
    BY <1>1 DEF Elsewhere, runVars
  <2>2. TruthTypeOK'
    BY <1>1, <2>1, WorldMoves, SightsGrow DEF TruthTypeOK, Heads
  <2>3. WorldIsRecorded'
    BY <1>1, WorldMoves, SightsGrow DEF WorldIsRecorded
  <2>4. GitIsPast'
    BY <1>1, <2>1, WorldMoves DEF GitIsPast
  <2>5. FactsArePast'
    BY <1>1, <2>1, WorldMoves, SightsGrow DEF FactsArePast
  <2> QED BY <2>2, <2>3, <2>4, <2>5
<1>2. CASE Tick
  <2>1. UNCHANGED <<worldVars, phase, applicable, planGate, git, facts, packetHead, probes>>
    BY <1>2 DEF Tick, runVars
  <2> USE DEF worldVars
  <2>2. clock' \in Nat
    BY <1>2 DEF Tick, TruthTypeOK
  <2>3. TruthTypeOK'
    BY <1>2, <2>1, <2>2, SightsGrow DEF TruthTypeOK, Heads
  <2>4. WorldIsRecorded'
    BY <1>2, <2>1, SightsGrow DEF WorldIsRecorded
  <2>5. GitIsPast'
    BY <2>1 DEF GitIsPast
  <2>6. FactsArePast'
    BY <1>2, <2>1, SightsGrow DEF FactsArePast
  <2> QED BY <2>3, <2>4, <2>5, <2>6
<1>3. CASE ReadHead \/ ReadBase \/ ReadStatus \/ ReadAncestry
  <2>1. UNCHANGED <<checkout, pr, landed, papers, service, praised, green, clock, seenRunning,
                    applicable, facts, probes>> /\ phase \in Early
    BY <1>3 DEF ReadHead, ReadBase, ReadStatus, ReadAncestry, Reads, worldVars, Early
  <2>2. phase' \in Early \cup {"collect", "stored"}
    BY <1>3, <2>1 DEF ReadHead, ReadBase, ReadStatus, ReadAncestry, Reads, TruthTypeOK, Early
  <2>3. /\ git' = [head |-> git'.head, base |-> git'.base, clean |-> git'.clean,
                   merged |-> git'.merged]
        /\ git'.head \in Heads
    BY <1>3 DEF ReadHead, ReadBase, ReadStatus, ReadAncestry, TruthTypeOK
  <2>4. TruthTypeOK'
    BY <2>1, <2>2, <2>3 DEF TruthTypeOK, Heads
  <2>5. WorldIsRecorded'
    BY <2>1 DEF WorldIsRecorded, Ran, Heads
  <2>6. GitIsPast'
    <3>1. CASE ReadHead
      BY <2>1, <3>1 DEF ReadHead, Reads, GitIsPast, TruthTypeOK, Early
    <3>2. CASE ReadBase
      BY <2>1, <3>2 DEF ReadBase, Reads, GitIsPast, TruthTypeOK, Early
    <3>3. CASE ReadStatus
      BY <2>1, <3>3 DEF ReadStatus, Reads, GitIsPast, TruthTypeOK, Early
    <3>4. CASE ReadAncestry
      BY <2>1, <3>4 DEF ReadAncestry, Reads, GitIsPast, TruthTypeOK, Early
    <3> QED BY <1>3, <3>1, <3>2, <3>3, <3>4
  <2>7. FactsArePast'
    <3>1. facts' = [github |-> {}, review |-> {}, runtime |-> {}]
      BY <2>1 DEF FactsArePast
    <3> QED BY <2>1, <3>1 DEF FactsArePast, Ran, Heads
  <2> QED BY <2>4, <2>5, <2>6, <2>7
<1>4. CASE CollectGithub \/ ReadPacket \/ CollectReview \/ ReadProbe \/ CollectRuntime \/ Store
  <2>1. /\ UNCHANGED <<checkout, pr, landed, papers, service, praised, green, clock, seenRunning,
                       applicable, git>>
        /\ phase = "collect" /\ phase' \in {"collect", "stored"}
    BY <1>4 DEF CollectGithub, ReadPacket, CollectReview, ReadProbe, CollectRuntime, Store,
                Collects, Reads, worldVars
  <2>2. UNCHANGED Ran
    BY <2>1 DEF Ran, Heads
  <2>3. /\ facts' = [github |-> facts'.github, review |-> facts'.review,
                     runtime |-> facts'.runtime]
        /\ probes' = [nr |-> probes'.nr, builds |-> probes'.builds, ready |-> probes'.ready]
    BY <1>4 DEF CollectGithub, ReadPacket, CollectReview, ReadProbe, CollectRuntime, Store,
                Collects, NoProbes, TruthTypeOK
  <2>4. TruthTypeOK'
    BY <2>1, <2>3 DEF TruthTypeOK, Heads
  <2>5. WorldIsRecorded'
    BY <2>1, <2>2 DEF WorldIsRecorded
  <2>6. GitIsPast'
    BY <2>1 DEF GitIsPast, Early
  <2>7. FactsArePast'
    <3> USE DEF FactsArePast, TruthTypeOK, WorldIsRecorded, GitIsPast
    <3>1. CASE CollectGithub
      <4> DEFINE found == [head |-> pr.head, passed |-> pr.checks = "passed",
                           merged |-> pr.head \in landed]
      <4>1. facts' = [facts EXCEPT !["github"] = {found}] /\ UNCHANGED probes
        BY <3>1 DEF CollectGithub, Collects
      <4>2. (found.passed => found.head \in green) /\ (found.merged => found.head \in landed)
        OBVIOUS
      <4> HIDE DEF found
      <4>3. /\ facts'.github = {found}
            /\ facts'.review = facts.review /\ facts'.runtime = facts.runtime
        BY <4>1
      <4> QED BY <2>1, <2>2, <4>1, <4>2, <4>3 DEF Early
    <3>2. CASE ReadPacket
      BY <2>1, <2>2, <3>2 DEF ReadPacket, Early
    <3>3. CASE CollectReview
      <4>1. PICK found : /\ facts' = [facts EXCEPT !["review"] = {found}] /\ UNCHANGED probes
                         /\ ~found.blocking => papers.reviewed = git.head /\ papers.clear
        <5> DEFINE match == packetHead = git.head /\ papers.reviewed = git.head
                   of == CASE match -> git.head [] packetHead # git.head -> packetHead
                           [] OTHER -> papers.reviewed
                   found == [head |-> of, blocking |-> ~match \/ ~papers.clear]
        <5>1. facts' = [facts EXCEPT !["review"] = {found}] /\ UNCHANGED probes
          BY <3>3 DEF CollectReview, Collects
        <5> HIDE DEF of
        <5>2. ~found.blocking => match /\ papers.clear
          OBVIOUS
        <5> QED BY <5>1, <5>2
      <4>2. /\ facts'.review = {found}
            /\ facts'.github = facts.github /\ facts'.runtime = facts.runtime
        BY <4>1
      <4> QED BY <2>1, <2>2, <4>1, <4>2 DEF Early
    <3>4. CASE ReadProbe
      BY <2>1, <2>2, <3>4 DEF ReadProbe, Early
    <3>5. CASE CollectRuntime
      BY <2>1, <2>2, <3>5 DEF CollectRuntime, Collects, Early
    <3>6. CASE Store
      BY <2>1, <2>2, <3>6 DEF Store, NoProbes, Early
    <3> QED BY <1>4, <3>1, <3>2, <3>3, <3>4, <3>5, <3>6
  <2> QED BY <2>4, <2>5, <2>6, <2>7
<1>5. CASE UNCHANGED truthVars
  BY <1>5 DEF truthVars, worldVars, runVars, TruthTypeOK, WorldIsRecorded, GitIsPast,
              FactsArePast, Ran, Heads
<1> QED BY <1>1, <1>2, <1>3, <1>4, <1>5 DEF TruthNext

\* Of a snapshot that passes: GitHub, the review and the probes have all
\* answered, and about the commit that git showed.
LEMMA PassesSay ==
  ASSUME TruthTypeOK, Passes(clock)
  PROVE  /\ facts.review # {} /\ \A r \in facts.review : r.head = git.head /\ ~r.blocking
         /\ facts.github # {} /\ \A g \in facts.github : g.head = git.head /\ g.passed
         /\ git.merged = "yes" \/ \E g \in facts.github : g.merged
         /\ applicable => /\ facts.runtime # {} /\ ~Stale(clock)
                          /\ \A r \in facts.runtime : r.builds = {git.head}
<1> DEFINE fine == {"PASS", "NOT_APPLICABLE"}
<1>1. Reviewed \in fine /\ CI \in fine /\ MergeGate \in fine /\ Runtime(clock) \in fine
  BY DEF Passes, Gates
<1>2. facts.review # {} /\ \A r \in facts.review : r.head = git.head /\ ~r.blocking
  BY <1>1 DEF Reviewed
<1>3. facts.github # {} /\ \A g \in facts.github : g.head = git.head /\ g.passed
  BY <1>1 DEF CI
<1>4. git.merged = "yes" \/ \E g \in facts.github : g.merged
  BY <1>1 DEF MergeGate
<1>5. ASSUME applicable
      PROVE  /\ facts.runtime # {} /\ ~Stale(clock)
             /\ \A r \in facts.runtime : r.builds = {git.head}
  BY <1>1, <1>5 DEF Runtime
<1> QED BY <1>2, <1>3, <1>4, <1>5

\* A pass leaves each gate one way to pass.
LEMMA TruthGives == TruthInv => PassIsOneHead
<1> SUFFICES ASSUME TruthInv, phase = "stored", Passes(clock)
             PROVE  /\ git.head \in praised \cap green \cap landed
                    /\ applicable => /\ seenRunning[git.head] > 0
                                     /\ clock < (seenRunning[git.head] - 1) + TTL
  BY DEF PassIsOneHead
<1> USE TruthAssumption DEF TruthInv
<1>1. git.head \in praised
  BY PassesSay DEF FactsArePast
<1>2. git.head \in green
  BY PassesSay DEF FactsArePast
<1>3. git.head \in landed
  BY PassesSay DEF FactsArePast, GitIsPast
<1>4. ASSUME applicable
      PROVE  seenRunning[git.head] > 0 /\ clock < (seenRunning[git.head] - 1) + TTL
  <2>1. git.head \in Ran
    BY <1>4, PassesSay DEF FactsArePast
  <2>2. ~(TTL <= clock)
    BY <1>4, PassesSay DEF Stale
  <2> QED BY <2>1, <2>2 DEF Ran, TruthTypeOK
<1> QED BY <1>1, <1>2, <1>3, <1>4

\* A snapshot that passes speaks of one commit, at any reading of it: reviewed
\* and praised, green in CI, in the base branch, and seen running less than a
\* time-to-live ago (truthdeck_gates.py and re_evaluate), however many commits,
\* pushes, reviews, merges and deployments fell between the commands.
THEOREM SnapshotCorrect == TruthSpec => []PassIsOneHead
<1>1. TruthInit => TruthInv
  BY TruthInitInv
<1>2. TruthInv /\ [TruthNext]_truthVars => TruthInv'
  BY TruthStep
<1>3. TruthInv => PassIsOneHead
  BY TruthGives
<1> QED BY <1>1, <1>2, <1>3, PTL DEF TruthSpec

------------------------------------------------------------------------------
(* The packet about a claim (CuratorPacket) *)

CuratorSpec == CuratorInit /\ [][CuratorNext]_curatorVars

Stages == {"begin", "head", "transcript", "diff_start", "diff_working", "list_untracked",
           "root", "judge", "done"}

CuratorTypeOK ==
  /\ claim.classes \subseteq Classes /\ claim.artifact \in {"none", "path", "twin"}
  /\ dirty0 \in BOOLEAN /\ rooted \in BOOLEAN /\ inHead \in BOOLEAN
  /\ bySession \in BOOLEAN /\ byOthers \in BOOLEAN
  /\ made \in Nat /\ range \subseteq 1 .. made
  /\ onDisk \in {"same", "edited", "untracked"}
  /\ step \in Stages /\ complete \in BOOLEAN
  /\ always \in BOOLEAN /\ ever \in BOOLEAN /\ shifted \in BOOLEAN

\* A commit of the session is in start..HEAD or has been.
Kept == mine \subseteq range \cup dropped

\* A change is somebody's, and so was one seen while listing.
Somebodys ==
  inHead \/ (onDisk # "same" /\ ~dirty0) \/ ever => bySession \/ byOthers

\* What is remembered of the file: while it always was changed it is now, and a
\* change there is during the later listings has been noticed.
Remembered == /\ always => Changed
              /\ Listing /\ Changed => ever

\* Before the first listing nothing is known, and what counts as the session's
\* change was one.
ListedWasSo ==
  /\ step \in {"begin", "head", "transcript", "diff_start"} => paths = {}
  /\ Attributable => ever

\* Nothing has been found, nothing failed and nothing moved from one listing's
\* reach to another's.
Clueless == /\ ~dirty0 /\ complete /\ always /\ ~shifted
            /\ "committed" \notin paths /\ "working" \notin paths

\* A change that stayed is then where the listings have still to look.
LeftToList ==
  /\ Clueless /\ step = "diff_working" => ~inHead
  /\ Clueless /\ step = "list_untracked" => ~inHead /\ onDisk = "untracked"
  /\ step \in {"root", "judge"} => ~Clueless

CuratorInv == /\ CuratorTypeOK /\ Kept /\ Somebodys /\ Remembered /\ ListedWasSo
              /\ LeftToList /\ PacketIsSound

LEMMA CuratorInitInv == CuratorInit => CuratorInv
<1> SUFFICES ASSUME CuratorInit PROVE CuratorInv
  OBVIOUS
<1> USE CuratorAssumption DEF CuratorInit
<1>1. CuratorTypeOK
  <2>1. claim.classes \subseteq Classes /\ claim.artifact \in {"none", "path", "twin"}
    <3>1. claim.classes \in Sentences /\ claim.artifact \in {"none", "path", "twin"}
      OBVIOUS
    <3> QED BY <3>1
  <2>2. /\ dirty0 \in BOOLEAN /\ rooted \in BOOLEAN /\ inHead \in BOOLEAN
        /\ bySession \in BOOLEAN /\ byOthers \in BOOLEAN /\ complete \in BOOLEAN
        /\ always \in BOOLEAN /\ ever \in BOOLEAN /\ shifted \in BOOLEAN
    OBVIOUS
  <2>3. made = 0 /\ range = {} /\ onDisk \in {"same", "edited", "untracked"} /\ step = "begin"
    OBVIOUS
  <2> QED BY <2>1, <2>2, <2>3 DEF CuratorTypeOK, Stages
<1>2. Kept /\ Somebodys
  BY DEF Kept, Somebodys
<1>3. Remembered /\ ListedWasSo /\ LeftToList /\ PacketIsSound
  BY DEF Remembered, ListedWasSo, LeftToList, Listing, Attributable, PacketIsSound
<1> QED BY <1>1, <1>2, <1>3 DEF CuratorInv

\* Whatever happens to the repository and the file is remembered of it.
LEMMA GitStep ==
  ASSUME CuratorInv, step # "done", GitMoves
  PROVE  CuratorInv'
<1> USE DEF CuratorInv, GitMoves, fixedVars, packetVars
<1>1. UNCHANGED <<claim, dirty0, step, complete, paths, answer, said, truth>> /\ step # "done"
  OBVIOUS
<1>2. /\ always' = (always /\ Changed') /\ ever' = (ever \/ (Listing /\ Changed'))
      /\ shifted => shifted'
      /\ dropped' = dropped \cup (range \ range')
  BY DEF Edits, SessionCommits, Pulls, HeadGoes, Watch
<1>3. CuratorTypeOK'
  <2>1. always' \in BOOLEAN /\ ever' \in BOOLEAN /\ shifted' \in BOOLEAN
    BY DEF Edits, SessionCommits, Pulls, HeadGoes, Watch
  <2>2. made' \in Nat /\ range' \subseteq 1 .. made' /\ onDisk' \in {"same", "edited", "untracked"}
    <3>1. CASE Edits
      BY <3>1 DEF Edits, CuratorTypeOK
    <3>2. CASE SessionCommits
      <4>1. made' = made + 1 /\ range' \subseteq range \cup {made'}
        BY <3>2 DEF SessionCommits
      <4>2. made \in Nat /\ \A c \in range : c \in 1 .. made
        BY DEF CuratorTypeOK
      <4>3. onDisk' \in {"same", "edited", "untracked"}
        BY <3>2 DEF SessionCommits, CuratorTypeOK
      <4> QED BY <4>1, <4>2, <4>3
    <3>3. CASE Pulls
      BY <3>3 DEF Pulls, CuratorTypeOK
    <3>4. CASE HeadGoes
      BY <3>4 DEF HeadGoes, CuratorTypeOK
    <3> QED BY <3>1, <3>2, <3>3, <3>4
  <2>3. /\ rooted' \in BOOLEAN /\ inHead' \in BOOLEAN /\ bySession' \in BOOLEAN
        /\ byOthers' \in BOOLEAN
    BY DEF Edits, SessionCommits, Pulls, HeadGoes, CuratorTypeOK
  <2> QED BY <1>1, <2>1, <2>2, <2>3 DEF CuratorTypeOK
<1>4. Kept'
  <2>1. mine' = mine \/ (mine' = mine \cup {made'} /\ made' \in range')
    BY DEF Edits, SessionCommits, Pulls, HeadGoes
  <2> QED BY <1>2, <2>1 DEF Kept
<1>5. Somebodys'
  <2>1. inHead' \/ (onDisk' # "same" /\ ~dirty0) \/ ever => bySession' \/ byOthers'
    <3>1. CASE Edits
      BY <3>1 DEF Edits
    <3>2. CASE SessionCommits
      <4>1. bySession' = TRUE \/ UNCHANGED <<onDisk, inHead, bySession, byOthers>>
        BY <3>2 DEF SessionCommits
      <4> QED BY <4>1 DEF Somebodys
    <3>3. CASE Pulls
      BY <3>3 DEF Pulls, Somebodys
    <3>4. CASE HeadGoes
      BY <3>4 DEF HeadGoes, Somebodys
    <3> QED BY <3>1, <3>2, <3>3, <3>4
  <2>2. Changed' => bySession' \/ byOthers'
    BY <1>1, <2>1 DEF Changed, CuratorTypeOK
  <2>3. ever' => ever \/ Changed'
    BY <1>2
  <2> QED BY <1>1, <2>1, <2>2, <2>3 DEF Somebodys
<1>6. Remembered'
  BY <1>1, <1>2 DEF Remembered, Listing
<1>7. ListedWasSo'
  <2>1. ever => ever'
    BY <1>2
  <2>2. Attributable' = Attributable
    BY <1>1 DEF Attributable
  <2> QED BY <1>1, <2>1, <2>2 DEF ListedWasSo
<1>8. LeftToList'
  <2> SUFFICES ASSUME Clueless', step \in {"diff_working", "list_untracked", "root", "judge"}
               PROVE  LeftToList'
    BY <1>1 DEF LeftToList
  <2>1. Clueless /\ Changed'
    BY <1>1, <1>2 DEF Clueless, CuratorTypeOK
  <2>2. step \notin {"root", "judge"} /\ Listing /\ ~inHead
    BY <2>1 DEF LeftToList, Listing
  <2>3. CASE Edits
    <3>1. ~(onDisk = "untracked" /\ onDisk' = "edited")
      BY <2>2, <2>3 DEF Edits, Watch, Clueless
    <3>2. ~inHead' /\ (onDisk = "untracked" => onDisk' = "untracked")
      BY <2>1, <2>2, <2>3, <3>1 DEF Edits, Changed
    <3> QED BY <1>1, <2>1, <2>2, <3>2 DEF LeftToList
  <2>4. CASE SessionCommits \/ Pulls \/ HeadGoes
    BY <2>2, <2>4 DEF SessionCommits, Pulls, HeadGoes, Watch, Clueless
  <2> QED BY <2>3, <2>4
<1>9. PacketIsSound'
  BY <1>1 DEF PacketIsSound
<1> QED BY <1>3, <1>4, <1>5, <1>6, <1>7, <1>8, <1>9

\* A listing adds what it found, and a change that stays is either found or is
\* left to the next one.
LEMMA ListingStep ==
  ASSUME CuratorInv, DiffStart \/ DiffWorking \/ ListUntracked
  PROVE  CuratorInv'
<1> USE CuratorAssumption DEF CuratorInv, Goes, gitVars, fixedVars
<1>1. /\ UNCHANGED <<claim, dirty0, rooted, range, made, inHead, onDisk, answer>>
      /\ UNCHANGED <<mine, dropped, bySession, byOthers>>
      /\ step \in {"diff_start", "diff_working", "list_untracked"} /\ step' # "done"
      /\ complete' \in BOOLEAN
  BY DEF DiffStart, DiffWorking, ListUntracked, Lists, CuratorTypeOK
<1>2. Changed' = Changed /\ Changed \in BOOLEAN
  BY <1>1 DEF Changed, CuratorTypeOK
<1>3. CuratorTypeOK'
  <2>1. always' \in BOOLEAN /\ ever' \in BOOLEAN /\ shifted' \in BOOLEAN
    BY <1>2 DEF CuratorTypeOK, DiffStart, DiffWorking, ListUntracked, History
  <2>2. step' \in Stages
    BY DEF DiffStart, DiffWorking, ListUntracked, Lists, Stages
  <2> QED BY <1>1, <2>1, <2>2 DEF CuratorTypeOK
<1>4. Remembered'
  BY <1>1, <1>2 DEF Remembered, DiffStart, DiffWorking, ListUntracked, Lists, History, Listing
<1>5. ListedWasSo'
  <2>1. CASE DiffStart
    BY <1>1, <2>1 DEF DiffStart, Lists, ListedWasSo, Attributable, Changed
  <2>2. CASE DiffWorking
    <3>1. Changed => ever
      BY <2>2 DEF DiffWorking, Remembered, Listing
    <3> QED BY <1>1, <2>2, <3>1 DEF DiffWorking, Lists, History, ListedWasSo, Attributable,
                                    Changed
  <2>3. CASE ListUntracked
    <3>1. Changed => ever
      BY <2>3 DEF ListUntracked, Remembered, Listing
    <3> QED BY <1>1, <2>3, <3>1 DEF ListUntracked, Lists, History, ListedWasSo, Attributable,
                                    Changed
  <2> QED BY <2>1, <2>2, <2>3
<1>6. LeftToList'
  <2>1. CASE DiffStart
    BY <1>1, <2>1 DEF DiffStart, Lists, LeftToList, Clueless
  <2>2. CASE DiffWorking
    <3> SUFFICES ASSUME Clueless' PROVE ~inHead /\ onDisk = "untracked"
      BY <1>1, <2>2 DEF DiffWorking, Lists, LeftToList
    <3>1. complete /\ paths' = paths \cup (IF onDisk = "edited" THEN {"working"} ELSE {})
      BY <2>2 DEF DiffWorking, Lists, Clueless, CuratorTypeOK
    <3>2. ~dirty0 /\ always /\ ~shifted
      BY <1>1, <2>2 DEF DiffWorking, History, Clueless
    <3>3. Clueless /\ onDisk # "edited"
      BY <3>1, <3>2 DEF Clueless
    <3>4. ~inHead /\ Changed
      BY <2>2, <3>3 DEF DiffWorking, LeftToList, Clueless, Remembered
    <3> QED BY <3>3, <3>4 DEF Changed, CuratorTypeOK
  <2>3. CASE ListUntracked
    BY <1>1, <2>3 DEF ListUntracked, Lists, History, LeftToList, Clueless, CuratorTypeOK
  <2> QED BY <2>1, <2>2, <2>3
<1>7. Kept' /\ Somebodys'
  <2>1. ever' => ever \/ Changed
    BY DEF DiffStart, DiffWorking, ListUntracked, History
  <2>2. Changed => bySession \/ byOthers
    BY DEF Changed, Somebodys, CuratorTypeOK
  <2> QED BY <1>1, <2>1, <2>2 DEF Kept, Somebodys
<1>8. PacketIsSound'
  BY <1>1 DEF PacketIsSound
<1> QED BY <1>3, <1>4, <1>5, <1>6, <1>7, <1>8

\* The state of each thing the claim asserts is among those combined.
LEMMA FacetStates ==
  ASSUME NEW s \in truth, NEW listed
  PROVE  /\ "change" \in claim.classes => JudgeChange \in Facets(s, listed)
         /\ "commit" \in claim.classes => JudgeCommit(listed) \in Facets(s, listed)
         /\ "test" \in claim.classes => JudgeTest \in Facets(s, listed)
         /\ "ci" \in claim.classes => JudgeCI(s) \in Facets(s, listed)
BY DEF Facets

\* ... and there are no others.
LEMMA FacetCases ==
  ASSUME CuratorTypeOK, NEW s \in truth, NEW listed, NEW x \in Facets(s, listed)
  PROVE  \/ "change" \in claim.classes /\ x = JudgeChange
         \/ "commit" \in claim.classes /\ x = JudgeCommit(listed)
         \/ "test" \in claim.classes /\ x = JudgeTest
         \/ "ci" \in claim.classes /\ x = JudgeCI(s)
BY DEF Facets, CuratorTypeOK, Classes

\* Judged, the packet is sound: it is here that what the listings left open
\* and what they found is turned into an answer.
LEMMA JudgeStep ==
  ASSUME CuratorInv, Judge
  PROVE  CuratorInv'
<1> USE DEF CuratorInv
<1>1. /\ UNCHANGED <<claim, dirty0, rooted, range, made, inHead, onDisk, mine, dropped, bySession,
                     byOthers, truth, said, paths, complete, always, ever, shifted>>
      /\ step = "judge" /\ step' = "done"
  BY DEF Judge, Goes, History, gitVars, fixedVars
<1>2. PICK listed \in {{}, {range}} :
        answer' = IF matching THEN Combined(UNION {Facets(s, listed) : s \in truth})
                  ELSE "UNVERIFIED"
  BY DEF Judge
<1>3. CuratorTypeOK' /\ Remembered' /\ ListedWasSo' /\ LeftToList' /\ Kept' /\ Somebodys'
  BY <1>1 DEF CuratorTypeOK, Stages, Remembered, Changed, Listing, ListedWasSo, Attributable,
              LeftToList, Clueless, Kept, Somebodys
<1> DEFINE states == UNION {Facets(s, listed) : s \in truth}
<1>4. ASSUME answer' = "VERIFIED"
      PROVE  /\ "change" \in claim.classes /\ claim.artifact = "path" =>
                  ever /\ (bySession \/ byOthers)
             /\ "test" \in claim.classes => said = "passed"
             /\ "ci" \in claim.classes => \E s \in truth : s.ci = "PASS"
             /\ "commit" \in claim.classes => claim.commit \cap (mine \cup Theirs) # {}
  <2>1. states = {"VERIFIED"}
    BY <1>2, <1>4 DEF Combined
  <2>2. PICK s \in truth : Facets(s, listed) \subseteq {"VERIFIED"}
    BY <2>1
  <2>3. ASSUME "change" \in claim.classes, claim.artifact = "path"
        PROVE  ever /\ (bySession \/ byOthers)
    <3>1. JudgeChange = "VERIFIED"
      BY <2>2, <2>3, FacetStates
    <3>2. Attributable
      BY <2>3, <3>1 DEF JudgeChange
    <3> QED BY <3>2 DEF ListedWasSo, Somebodys
  <2>4. "test" \in claim.classes => said = "passed"
    BY <2>2, FacetStates DEF JudgeTest
  <2>5. "ci" \in claim.classes => s.ci = "PASS"
    BY <2>2, FacetStates DEF JudgeCI
  <2>6. ASSUME "commit" \in claim.classes PROVE claim.commit \cap (mine \cup Theirs) # {}
    <3>1. JudgeCommit(listed) = "VERIFIED"
      BY <2>2, <2>6, FacetStates
    <3>2. claim.commit \cap UNION listed # {}
      BY <3>1 DEF JudgeCommit
    <3>3. UNION listed \subseteq range
      OBVIOUS
    <3>4. range \subseteq mine \cup Theirs
      BY DEF CuratorTypeOK, Theirs
    <3> QED BY <3>2, <3>3, <3>4
  <2> QED BY <2>3, <2>4, <2>5, <2>6
<1>5. ASSUME answer' = "REFUTED"
      PROVE  \/ "change" \in claim.classes /\ (~always \/ shifted)
             \/ "test" \in claim.classes /\ said = "failed"
             \/ "ci" \in claim.classes /\ \E s \in truth : s.ci = "HOLD"
             \/ "commit" \in claim.classes /\ claim.commit \cap mine \subseteq dropped
  <2>1. "REFUTED" \in states
    BY <1>2, <1>5 DEF Combined
  <2>2. PICK s \in truth : "REFUTED" \in Facets(s, listed)
    BY <2>1
  <2>3. ASSUME JudgeChange = "REFUTED" PROVE ~always \/ shifted
    <3>1. ~Attributable /\ ~dirty0 /\ complete
      BY <2>3 DEF JudgeChange, CuratorTypeOK
    <3> QED BY <1>1, <3>1 DEF Attributable, LeftToList, Clueless
  <2>4. ASSUME JudgeTest = "REFUTED" PROVE said = "failed"
    BY <2>4 DEF JudgeTest
  <2>5. ASSUME JudgeCI(s) = "REFUTED" PROVE s.ci = "HOLD"
    BY <2>5 DEF JudgeCI
  <2>6. ASSUME JudgeCommit(listed) = "REFUTED" PROVE claim.commit \cap mine \subseteq dropped
    <3>1. listed # {} /\ claim.commit \cap UNION listed = {}
      BY <2>6 DEF JudgeCommit
    <3>2. claim.commit \cap range = {}
      BY <1>2, <3>1
    <3> QED BY <3>2 DEF Kept
  <2> QED BY <2>2, <2>3, <2>4, <2>5, <2>6, FacetCases
<1>6. PacketIsSound'
  BY <1>1, <1>4, <1>5 DEF PacketIsSound, Theirs
<1> QED BY <1>3, <1>6

\* Every step of the session and of the packet keeps the invariant.
LEMMA CuratorStep ==
  ASSUME CuratorInv, [CuratorNext]_curatorVars
  PROVE  CuratorInv'
<1> USE CuratorAssumption DEF CuratorInv, gitVars, fixedVars, Goes, History
<1>1. CASE step # "done" /\ GitMoves
  BY <1>1, GitStep
<1>2. CASE DiffStart \/ DiffWorking \/ ListUntracked
  BY <1>2, ListingStep
<1>3. CASE Judge
  BY <1>3, JudgeStep
<1>4. CASE TestsRun \/ TakeSnapshot \/ CompareHead \/ ReadTranscript \/ AskRoot
           \/ UNCHANGED curatorVars
  <2>1. /\ UNCHANGED <<claim, dirty0, rooted, range, made, inHead, onDisk, mine, dropped,
                       bySession, byOthers, paths, always, ever, shifted>>
        /\ step' \in Stages /\ complete' \in BOOLEAN
    BY <1>4 DEF TestsRun, TakeSnapshot, CompareHead, ReadTranscript, AskRoot, curatorVars,
                packetVars, CuratorTypeOK, Stages
  <2>2. \/ UNCHANGED <<step, complete, answer>> /\ step \in Stages
        \/ /\ step' \in {"head", "transcript", "diff_start"}
           /\ step \in {"begin", "head", "transcript"}
        \/ step' = "root" /\ ~complete'
        \/ step = "root" /\ step' = "judge" /\ UNCHANGED <<complete, answer>>
        \/ step' = "done" /\ answer' = "UNVERIFIED"
    BY <1>4 DEF TestsRun, TakeSnapshot, CompareHead, ReadTranscript, AskRoot, curatorVars,
                packetVars, CuratorTypeOK
  <2>3. CuratorTypeOK'
    BY <2>1 DEF CuratorTypeOK
  <2>4. Remembered' /\ ListedWasSo'
    BY <2>1, <2>2 DEF Remembered, ListedWasSo, Changed, Listing, Attributable, CuratorTypeOK
  <2>5. LeftToList'
    BY <2>1, <2>2 DEF LeftToList, Clueless
  <2>6. Kept' /\ Somebodys'
    BY <2>1 DEF Kept, Somebodys
  <2>7. PacketIsSound'
    <3>1. CASE TestsRun
      BY <2>1, <3>1 DEF TestsRun, PacketIsSound, packetVars, Theirs
    <3>2. CASE UNCHANGED curatorVars
      BY <2>1, <3>2 DEF curatorVars, packetVars, PacketIsSound, Theirs
    <3>3. CASE TakeSnapshot \/ CompareHead \/ ReadTranscript \/ AskRoot
      <4>1. step' # "done" \/ answer' = "UNVERIFIED"
        BY <3>3 DEF TakeSnapshot, CompareHead, ReadTranscript, AskRoot
      <4> QED BY <4>1 DEF PacketIsSound
    <3> QED BY <1>4, <3>1, <3>2, <3>3
  <2> QED BY <2>3, <2>4, <2>5, <2>6, <2>7
<1> QED BY <1>1, <1>2, <1>3, <1>4 DEF CuratorNext

\* A packet settles nothing against the evidence (verify_claims): a claim is
\* verified only if all it asserts was so when it was looked at, and the doing of
\* the session or of those whose commits it brought in; refuted only if something
\* was not, or is a commit of the session no longer in start..HEAD, whatever was
\* edited, committed, amended, pulled, reset or switched between the commands.
THEOREM PacketCorrect == CuratorSpec => []PacketIsSound
<1>1. CuratorInit => CuratorInv
  BY CuratorInitInv
<1>2. CuratorInv /\ [CuratorNext]_curatorVars => CuratorInv'
  BY CuratorStep
<1>3. CuratorInv => PacketIsSound
  BY DEF CuratorInv
<1> QED BY <1>1, <1>2, <1>3, PTL DEF CuratorSpec

------------------------------------------------------------------------------
(* The verdict of SessionEnd (SessionEvidence) *)

EvidenceSpec == EvidenceInit /\ [][EvidenceNext]_evidenceVars

Trees == [File -> {"base", "theirs"} \cup Mine]
Commits == [past : SUBSET Nat, tree : Trees]

\* The history is one: a commit's ancestors have their ancestors in its past.
Linked(commits) ==
  \A c \in 1 .. Len(commits) :
    /\ c \in commits[c].past /\ commits[c].past \subseteq 1 .. c
    /\ \A d \in commits[c].past : commits[d].past \subseteq commits[c].past

RepoOK ==
  /\ log \in Seq(Commits) /\ Len(log) >= Start /\ Linked(log)
  /\ Tree(Start) = [f \in File |-> "base"]
  /\ HEAD \in 1 .. Len(log) /\ origin \in 1 .. Len(log)
  /\ files \in Trees

EvidenceTypeOK ==
  /\ RepoOK
  /\ doing \in {"session", "status", "ancestor", "history", "diff", "reached", "effect",
                "decide", "done"}
  /\ seen = [ok |-> seen.ok, dirty |-> seen.dirty, commits |-> seen.commits,
             paths |-> seen.paths, reached |-> seen.reached]
  /\ seen.ok \in BOOLEAN /\ seen.reached \in BOOLEAN
  /\ (doing \notin {"decide", "done"} => seen.ok)
  /\ left = [work |-> left.work, head |-> left.head]
  /\ left.work \in Trees /\ left.head \in 1 .. Len(log)
  /\ (doing # "done" => outcome = "none")
  /\ (seen.reached => doing \in {"decide", "done"})

Calm == File \ disturbed
Committed(f) == left.work[f] = Tree(left.head)[f]
Landed(f) == \E c \in Past(origin) : Tree(c)[f] = left.work[f]

\* What nobody disturbed is as the session left it, and clean where it was.
CalmIsKept ==
  doing # "session" => \A f \in Calm : /\ files[f] = left.work[f]
                                       /\ Committed(f) => Tree(HEAD)[f] = files[f]

\* git status was right: what it did not name is clean to this day, what it
\* named the session had not committed.
StatusSaid ==
  seen.ok /\ doing \notin {"session", "status"} =>
    \A f \in Calm : /\ f \notin seen.dirty => Tree(HEAD)[f] = files[f]
                    /\ f \in seen.dirty => ~Committed(f)

\* Work of the session that is not dirty is among the paths of the diff.
DiffSaid ==
  seen.ok /\ doing \in {"reached", "effect", "decide", "done"} =>
    \A f \in Calm : left.work[f] \in Mine => f \in seen.dirty \cup seen.paths

\* Reached, it is on origin.
ReachedSaid ==
  seen.reached => \A f \in Calm : left.work[f] \in Mine => f \in seen.dirty \/ Landed(f)

EvidenceInv == EvidenceTypeOK /\ CalmIsKept /\ StatusSaid /\ DiffSaid /\ ReachedSaid
               /\ VerdictIsEarned

LEMMA EvidenceInitInv == EvidenceInit => EvidenceInv
<1> SUFFICES ASSUME EvidenceInit PROVE EvidenceInv
  OBVIOUS
<1> PICK dirt \in SUBSET File :
      /\ log = [c \in 1 .. 2 |-> [past |-> 1 .. c, tree |-> [f \in File |-> "base"]]]
      /\ HEAD = Start /\ origin = Start /\ baseline = dirt
      /\ files = [f \in File |-> IF f \in dirt THEN "theirs" ELSE "base"]
      /\ doing = "session" /\ seen = Nothing /\ outcome = "none" /\ happened = 0
      /\ left = [work |-> files, head |-> Start] /\ disturbed = {}
  BY DEF EvidenceInit, Start
<1>1. [f \in File |-> "base"] \in Trees /\ files \in Trees
  BY DEF Trees
<1>2. log \in [1 .. 2 -> Commits]
  BY <1>1 DEF Commits
<1>3. log \in Seq(Commits)
  BY <1>2, SeqDef
<1>4. Len(log) = 2
  BY <1>2, <1>3, LenProperties
<1>5. Linked(log)
  BY <1>4 DEF Linked
<1>6. Tree(Start) = [f \in File |-> "base"]
  BY DEF Tree, Start
<1>7. EvidenceTypeOK
  BY <1>1, <1>3, <1>4, <1>5, <1>6 DEF EvidenceTypeOK, RepoOK, Start, Nothing
<1>8. CalmIsKept /\ StatusSaid /\ DiffSaid /\ ReachedSaid /\ VerdictIsEarned
  BY DEF CalmIsKept, StatusSaid, DiffSaid, ReachedSaid, VerdictIsEarned, Nothing
<1> QED BY <1>7, <1>8 DEF EvidenceInv

\* A commit more leaves the others, and the history one.
LEMMA NewCommit ==
  ASSUME RepoOK, NEW c \in 1 .. Len(log), NEW t \in Trees, New(c, t)
  PROVE  /\ log' \in Seq(Commits) /\ Len(log') = Len(log) + 1 /\ Linked(log')
         /\ \A d \in 1 .. Len(log) : log'[d] = log[d]
         /\ log'[Len(log) + 1] = [past |-> Past(c) \cup {Len(log) + 1}, tree |-> t]
<1> DEFINE n == Len(log) + 1
           commit == [past |-> Past(c) \cup {n}, tree |-> t]
<1>1. Len(log) \in Nat /\ log \in Seq(Commits)
  BY LenProperties DEF RepoOK
<1>2. Past(c) \subseteq 1 .. c /\ Past(c) \subseteq Nat
  BY DEF RepoOK, Linked, Past
<1>3. commit \in Commits
  BY <1>1, <1>2 DEF Commits
<1>4. log' = Append(log, commit)
  BY DEF New
<1> HIDE DEF commit
<1>5. /\ log' \in Seq(Commits) /\ Len(log') = n
      /\ \A d \in 1 .. Len(log) : log'[d] = log[d]
      /\ log'[n] = commit
  BY <1>1, <1>3, <1>4
<1>6. Linked(log')
  <2> SUFFICES ASSUME NEW e \in 1 .. n
               PROVE  /\ e \in log'[e].past /\ log'[e].past \subseteq 1 .. e
                      /\ \A d \in log'[e].past : log'[d].past \subseteq log'[e].past
    BY <1>5 DEF Linked
  <2>1. CASE e \in 1 .. Len(log)
    <3>1. /\ e \in log[e].past /\ log[e].past \subseteq 1 .. e
          /\ \A d \in log[e].past : log[d].past \subseteq log[e].past
      BY <2>1 DEF RepoOK, Linked
    <3>2. \A d \in log[e].past : d \in 1 .. Len(log)
      BY <1>1, <2>1, <3>1
    <3> QED BY <1>5, <2>1, <3>1, <3>2
  <2>2. CASE e = n
    <3>1. log'[e].past = Past(c) \cup {n}
      BY <1>5, <2>2 DEF commit
    <3>2. \A d \in Past(c) : d \in 1 .. Len(log) /\ log[d].past \subseteq Past(c)
      BY <1>1, <1>2 DEF RepoOK, Linked, Past
    <3>3. \A d \in Past(c) : log'[d].past \subseteq Past(c)
      BY <1>5, <3>2
    <3>4. n \in 1 .. n /\ Past(c) \subseteq 1 .. n
      BY <1>1, <3>2
    <3> QED BY <2>2, <3>1, <3>3, <3>4
  <2> QED BY <1>1, <2>1, <2>2
<1> QED BY <1>5, <1>6 DEF commit

\* What happens to the repository adds commits, keeps what is in origin in
\* origin, and leaves a clean file clean unless it changes it.
LEMMA RepoStep ==
  ASSUME RepoOK, RepoMoves
  PROVE  /\ RepoOK' /\ Len(log) <= Len(log') /\ \A c \in 1 .. Len(log) : log'[c] = log[c]
         /\ Past(origin) \subseteq Past(origin)'
         /\ \A f \in File : files'[f] = files[f] /\ Tree(HEAD)[f] = files[f]
                              => Tree(HEAD)'[f] = files'[f]
<1> DEFINE Goal == /\ RepoOK' /\ Len(log) <= Len(log') /\ \A c \in 1 .. Len(log) : log'[c] = log[c]
                   /\ Past(origin) \subseteq Past(origin)'
                   /\ \A f \in File : files'[f] = files[f] /\ Tree(HEAD)[f] = files[f]
                                        => Tree(HEAD)'[f] = files'[f]
<1>1. /\ log \in Seq(Commits) /\ Len(log) \in Nat /\ Len(log) >= Start /\ Linked(log)
      /\ HEAD \in 1 .. Len(log) /\ origin \in 1 .. Len(log) /\ files \in Trees
      /\ Tree(Start) = [f \in File |-> "base"]
  BY LenProperties DEF RepoOK
<1>2. \A c \in 1 .. Len(log) : Tree(c) \in Trees
  <2> SUFFICES ASSUME NEW c \in 1 .. Len(log) PROVE log[c].tree \in Trees
    BY DEF Tree
  <2>1. log[c] \in Commits
    BY <1>1, ElementOfSeq
  <2> QED BY <2>1 DEF Commits
<1>3. CASE PushHead
  <2>1. UNCHANGED <<log, HEAD, files>> /\ origin' = HEAD /\ origin \in Past(HEAD)
    BY <1>3 DEF PushHead
  <2>2. Past(origin) \subseteq Past(HEAD)
    BY <1>1, <2>1 DEF Linked, Past
  <2> QED BY <1>1, <2>1, <2>2 DEF RepoOK, Tree, Past
<1>4. ASSUME NEW f \in File, EditFile(f) PROVE Goal
  <2>1. UNCHANGED <<log, HEAD, origin>>
    BY <1>4 DEF EditFile
  <2>2. files' \in Trees
    <3>1. Tree(HEAD)[f] \in {"base", "theirs"} \cup Mine
      BY <1>1, <1>2 DEF Trees
    <3>2. PICK v \in {"base", "theirs"} \cup Mine : files' = [files EXCEPT ![f] = v]
      BY <1>4, <3>1 DEF EditFile
    <3> QED BY <1>1, <3>2 DEF Trees
  <2> QED BY <1>1, <2>1, <2>2 DEF RepoOK, Tree, Past
<1>5. ASSUME NEW f \in File, CommitFile(f) PROVE Goal
  <2> DEFINE t == [Tree(HEAD) EXCEPT ![f] = files[f]]
  <2>1. New(HEAD, t) /\ HEAD' = Len(log) + 1 /\ UNCHANGED <<origin, files>>
    BY <1>5 DEF CommitFile
  <2>2. t \in Trees
    BY <1>1, <1>2 DEF Trees
  <2>3. \A g \in File : t[g] = IF g = f THEN files[f] ELSE Tree(HEAD)[g]
    BY <1>1, <1>2 DEF Trees
  <2> HIDE DEF t
  <2>4. /\ log' \in Seq(Commits) /\ Len(log') = Len(log) + 1 /\ Linked(log')
        /\ \A d \in 1 .. Len(log) : log'[d] = log[d]
        /\ log'[Len(log) + 1] = [past |-> Past(HEAD) \cup {Len(log) + 1}, tree |-> t]
    <3>1. HEAD \in 1 .. Len(log) /\ New(HEAD, t)
      BY <1>1, <2>1
    <3> HIDE <1>1, <2>1
    <3> QED BY <2>2, <3>1, NewCommit
  <2>5. Tree(HEAD)' = t /\ Tree(Start)' = Tree(Start) /\ Past(origin)' = Past(origin)
    BY <1>1, <2>1, <2>4 DEF Tree, Past, Start
  <2>6. RepoOK'
    BY <1>1, <2>1, <2>4, <2>5 DEF RepoOK, Start
  <2> QED BY <1>1, <2>1, <2>3, <2>4, <2>5, <2>6
<1>6. ASSUME NEW f \in File, LandFile(f) PROVE Goal
  <2>1. PICK v \in {"theirs", Tree(HEAD)[f]} : New(origin, [Tree(origin) EXCEPT ![f] = v])
    BY <1>6 DEF LandFile
  <2> DEFINE t == [Tree(origin) EXCEPT ![f] = v]
  <2>2. origin' = Len(log) + 1 /\ UNCHANGED <<HEAD, files>>
    BY <1>6 DEF LandFile
  <2>3. v \in {"base", "theirs"} \cup Mine
    BY <1>1, <1>2, <2>1 DEF Trees
  <2>4. t \in Trees
    BY <1>1, <1>2, <2>3 DEF Trees
  <2> HIDE DEF t
  <2>5. /\ log' \in Seq(Commits) /\ Len(log') = Len(log) + 1 /\ Linked(log')
        /\ \A d \in 1 .. Len(log) : log'[d] = log[d]
        /\ log'[Len(log) + 1] = [past |-> Past(origin) \cup {Len(log) + 1}, tree |-> t]
    <3>1. origin \in 1 .. Len(log) /\ New(origin, t)
      BY <1>1, <2>1 DEF t
    <3> HIDE <1>1, <2>1
    <3> QED BY <2>4, <3>1, NewCommit
  <2>6. /\ Tree(HEAD)' = Tree(HEAD) /\ Tree(Start)' = Tree(Start)
        /\ Past(origin) \subseteq Past(origin)'
    BY <1>1, <2>2, <2>5 DEF Tree, Past, Start
  <2>7. RepoOK'
    BY <1>1, <2>2, <2>5, <2>6 DEF RepoOK, Start
  <2> QED BY <1>1, <2>2, <2>5, <2>6, <2>7
<1>7. ASSUME NEW c \in 1 .. Len(log), CheckOut(c) PROVE Goal
  <2>1. /\ UNCHANGED <<log, origin>> /\ HEAD' = c
        /\ files' = [f \in File |-> IF f \in Dirty THEN files[f] ELSE Tree(c)[f]]
    BY <1>7 DEF CheckOut
  <2>2. files' \in Trees
    BY <1>1, <1>2, <2>1 DEF Trees
  <2>3. \A f \in File : Tree(HEAD)[f] = files[f] => f \notin Dirty
    BY DEF Dirty, Diff
  <2>4. Tree(HEAD)' = Tree(c)
    BY <2>1 DEF Tree
  <2> QED BY <1>1, <2>1, <2>2, <2>3, <2>4 DEF RepoOK, Tree, Past
<1> QED BY <1>3, <1>4, <1>5, <1>6, <1>7 DEF RepoMoves

\* Nothing that happens to the repository undoes what has been said of it.
LEMMA MovesStep ==
  ASSUME EvidenceInv, RepoMoves
  PROVE  EvidenceInv'
<1> USE DEF EvidenceInv
<1>1. UNCHANGED <<baseline, doing, seen, outcome, left>> /\ doing # "done"
      /\ disturbed' = IF doing = "session" THEN {} ELSE disturbed \cup Diff(files, files')
  BY DEF RepoMoves
<1>2. /\ RepoOK' /\ Len(log) <= Len(log') /\ \A c \in 1 .. Len(log) : log'[c] = log[c]
      /\ Past(origin) \subseteq Past(origin)'
      /\ \A f \in File : files'[f] = files[f] /\ Tree(HEAD)[f] = files[f]
                           => Tree(HEAD)'[f] = files'[f]
  BY RepoStep DEF EvidenceTypeOK
<1>3. Len(log) \in Nat /\ Len(log') \in Nat
  BY <1>2, LenProperties DEF EvidenceTypeOK, RepoOK
<1>4. EvidenceTypeOK'
  BY <1>1, <1>2, <1>3 DEF EvidenceTypeOK
<1>5. \A f : Committed(f)' <=> Committed(f)
  BY <1>1, <1>2 DEF Committed, Tree, EvidenceTypeOK
<1>6. \A f \in File : Landed(f) => Landed(f)'
  <2> SUFFICES ASSUME NEW f \in File, NEW c \in Past(origin), Tree(c)[f] = left.work[f]
               PROVE  Landed(f)'
    BY DEF Landed
  <2>1. c \in 1 .. Len(log)
    BY <1>3 DEF EvidenceTypeOK, RepoOK, Linked, Past
  <2>2. Tree(c)' = Tree(c)
    BY <1>2, <2>1 DEF Tree
  <2> QED BY <1>1, <1>2, <2>2 DEF Landed
<1>7. doing # "session" => \A f \in Calm' : f \in Calm /\ files'[f] = files[f]
  BY <1>1 DEF Calm, Diff
<1>8. CalmIsKept'
  BY <1>1, <1>2, <1>5, <1>7 DEF CalmIsKept, Calm
<1>9. StatusSaid'
  BY <1>1, <1>2, <1>5, <1>7 DEF StatusSaid, Calm
<1>10. DiffSaid'
  BY <1>1, <1>7 DEF DiffSaid
<1>11. ReachedSaid'
  <2>1. seen.reached => doing # "session"
    BY DEF EvidenceTypeOK
  <2> QED BY <1>1, <1>6, <1>7, <2>1 DEF ReachedSaid, Calm
<1>12. VerdictIsEarned'
  BY <1>1 DEF VerdictIsEarned, EvidenceTypeOK
<1> QED BY <1>4, <1>8, <1>9, <1>10, <1>11, <1>12

\* Each command says what is so when it runs.
LEMMA CommandStep ==
  ASSUME EvidenceInv,
         GitFails \/ Status \/ StartIsAncestor \/ ListCommits \/ PathDiff \/ Reached \/ Effect
  PROVE  EvidenceInv'
<1> USE DEF EvidenceInv
<1>1. UNCHANGED <<log, HEAD, origin, files, baseline, outcome, happened, left, disturbed>>
  BY DEF GitFails, Status, StartIsAncestor, ListCommits, PathDiff, Reached, Effect, Learn,
         repoVars
<1>2. doing \notin {"session", "decide", "done"} /\ ~seen.reached /\ outcome = "none"
  BY DEF GitFails, Status, StartIsAncestor, ListCommits, PathDiff, Reached, Effect,
         EvidenceTypeOK
<1>3. doing' \in {"ancestor", "history", "diff", "reached", "effect", "decide"}
  BY DEF GitFails, Status, StartIsAncestor, ListCommits, PathDiff, Reached, Effect, Learn
<1>4. \A f : (Committed(f)' <=> Committed(f)) /\ (Landed(f)' <=> Landed(f))
  BY <1>1 DEF Committed, Landed, Tree, Past
<1>5. UNCHANGED <<Calm, Tree(HEAD)>> /\ RepoOK'
  BY <1>1 DEF Calm, Tree, RepoOK, EvidenceTypeOK
<1>6. /\ seen' = [ok |-> seen'.ok, dirty |-> seen'.dirty, commits |-> seen'.commits,
                  paths |-> seen'.paths, reached |-> seen'.reached]
      /\ seen'.ok \in BOOLEAN /\ seen'.reached \in BOOLEAN
      /\ (seen'.reached => doing' = "decide") /\ (doing' # "decide" => seen'.ok)
  <2> USE DEF EvidenceTypeOK, Learn
  <2>1. CASE GitFails
    BY <1>2, <2>1 DEF GitFails
  <2>2. CASE Status
    BY <1>2, <2>2 DEF Status
  <2>3. CASE StartIsAncestor
    BY <1>2, <2>3 DEF StartIsAncestor
  <2>4. CASE ListCommits
    BY <1>2, <2>4 DEF ListCommits
  <2>5. CASE PathDiff
    BY <1>2, <2>5 DEF PathDiff
  <2>6. CASE Reached
    BY <1>2, <2>6 DEF Reached
  <2>7. CASE Effect
    BY <1>2, <2>7 DEF Effect
  <2> QED BY <2>1, <2>2, <2>3, <2>4, <2>5, <2>6, <2>7
<1>7. EvidenceTypeOK'
  BY <1>1, <1>2, <1>3, <1>5, <1>6 DEF EvidenceTypeOK
<1>8. CalmIsKept'
  BY <1>1, <1>2, <1>4, <1>5 DEF CalmIsKept
<1>9. StatusSaid'
  <2>1. CASE Status
    <3>1. seen'.dirty = Dirty
      BY <2>1 DEF Status, Learn, EvidenceTypeOK
    <3>2. \A f \in Calm : /\ f \notin Dirty => Tree(HEAD)[f] = files[f]
                          /\ f \in Dirty => ~Committed(f)
      BY <1>2 DEF Dirty, Diff, Calm, CalmIsKept
    <3> QED BY <1>1, <1>4, <1>5, <3>1, <3>2 DEF StatusSaid
  <2>2. CASE ~Status
    <3>1. seen'.dirty = seen.dirty /\ (seen'.ok => seen.ok /\ doing # "status")
      BY <2>2 DEF GitFails, StartIsAncestor, ListCommits, PathDiff, Reached, Effect, Learn,
                  EvidenceTypeOK
    <3> QED BY <1>1, <1>2, <1>4, <1>5, <3>1 DEF StatusSaid
  <2> QED BY <2>1, <2>2
<1>10. DiffSaid'
  <2>1. CASE PathDiff
    <3>1. /\ seen'.dirty = seen.dirty /\ seen'.ok = seen.ok /\ doing = "diff"
          /\ seen'.paths = Diff(Tree(Start), Tree(HEAD))
      BY <2>1 DEF PathDiff, Learn, EvidenceTypeOK
    <3>2. ASSUME NEW f \in Calm, left.work[f] \in Mine, f \notin seen.dirty, seen.ok
          PROVE  f \in Diff(Tree(Start), Tree(HEAD))
      <4>1. Tree(HEAD)[f] = left.work[f]
        BY <3>1, <3>2 DEF StatusSaid, CalmIsKept
      <4>2. Tree(Start)[f] = "base" /\ f \in File
        BY DEF Calm, EvidenceTypeOK, RepoOK
      <4> QED BY <3>2, <4>1, <4>2 DEF Diff, Mine
    <3> QED BY <1>1, <1>5, <3>1, <3>2 DEF DiffSaid
  <2>2. CASE Reached \/ Effect
    <3>1. seen'.dirty = seen.dirty /\ seen'.paths = seen.paths /\ seen'.ok = seen.ok
          /\ doing \in {"reached", "effect"}
      BY <2>2 DEF Reached, Effect, Learn, EvidenceTypeOK
    <3> QED BY <1>1, <1>5, <3>1 DEF DiffSaid
  <2>3. CASE GitFails \/ Status \/ StartIsAncestor \/ ListCommits
    <3>1. ~seen'.ok \/ doing' \notin {"reached", "effect", "decide", "done"}
      BY <2>3 DEF GitFails, Status, StartIsAncestor, ListCommits, Learn, EvidenceTypeOK
    <3> QED BY <3>1 DEF DiffSaid
  <2> QED BY <2>1, <2>2, <2>3
<1>11. ReachedSaid'
  <2> SUFFICES ASSUME seen'.reached,
                      NEW f \in Calm, left.work[f] \in Mine, f \notin seen'.dirty
               PROVE  Landed(f)
    BY <1>1, <1>4, <1>5 DEF ReachedSaid
  <2>1. Reached \/ Effect
    BY <1>2 DEF GitFails, Status, StartIsAncestor, ListCommits, PathDiff, Learn, EvidenceTypeOK
  <2>2. seen'.dirty = seen.dirty /\ seen.ok /\ doing \in {"reached", "effect"}
    BY <2>1 DEF Reached, Effect, Learn, EvidenceTypeOK
  <2>3. Tree(HEAD)[f] = left.work[f]
    BY <2>2 DEF StatusSaid, CalmIsKept
  <2>4. CASE Reached
    <3>1. HEAD \in Past(origin)
      BY <2>4 DEF Reached, Learn, EvidenceTypeOK
    <3> QED BY <2>3, <3>1 DEF Landed
  <2>5. CASE Effect
    <3>1. f \in seen.paths /\ f \in File
      BY <2>2 DEF DiffSaid, Calm
    <3>2. Diff(Tree(HEAD), Tree(origin)) \cap seen.paths = {}
      BY <2>5, <3>1 DEF Effect, Learn, EvidenceTypeOK
    <3>3. Tree(origin)[f] = left.work[f]
      BY <2>3, <3>1, <3>2 DEF Diff
    <3>4. origin \in Past(origin)
      BY DEF EvidenceTypeOK, RepoOK, Linked, Past
    <3> QED BY <3>3, <3>4 DEF Landed
  <2> QED BY <2>1, <2>4, <2>5
<1>12. VerdictIsEarned'
  BY <1>1, <1>2 DEF VerdictIsEarned
<1> QED BY <1>7, <1>8, <1>9, <1>10, <1>11, <1>12

\* SessionEnd starts from what the session left.
LEMMA HookStep ==
  ASSUME EvidenceInv, HookBegins
  PROVE  EvidenceInv'
<1> USE DEF EvidenceInv
<1>1. /\ UNCHANGED <<log, HEAD, origin, files, baseline, outcome, happened, disturbed>>
      /\ doing = "session" /\ left' = [work |-> files, head |-> HEAD]
      /\ (doing' = "status" /\ seen' = seen) \/ (doing' = "decide" /\ seen' = [Nothing EXCEPT !.ok = FALSE])
  BY DEF HookBegins, repoVars
<1>2. ~seen.reached /\ ~seen'.reached /\ outcome = "none"
  BY <1>1 DEF EvidenceTypeOK, Nothing
<1>3. EvidenceTypeOK'
  <2>1. RepoOK'
    BY <1>1 DEF EvidenceTypeOK, RepoOK, Tree
  <2>2. left'.work \in Trees /\ left'.head \in 1 .. Len(log')
        /\ left' = [work |-> left'.work, head |-> left'.head]
    BY <1>1 DEF EvidenceTypeOK, RepoOK
  <2>3. CASE doing' = "status"
    BY <1>1, <1>2, <2>1, <2>2, <2>3 DEF EvidenceTypeOK
  <2>4. CASE doing' = "decide"
    BY <1>1, <1>2, <2>1, <2>2, <2>4 DEF EvidenceTypeOK, Nothing
  <2> QED BY <1>1, <2>3, <2>4
<1>4. CalmIsKept'
  BY <1>1 DEF CalmIsKept, Committed, Tree
<1>5. StatusSaid' /\ DiffSaid'
  BY <1>1 DEF StatusSaid, DiffSaid, Nothing
<1>6. ReachedSaid' /\ VerdictIsEarned'
  BY <1>1, <1>2 DEF ReachedSaid, VerdictIsEarned
<1> QED BY <1>3, <1>4, <1>5, <1>6

\* The verdict is earned when it is reached.
LEMMA DecideStep ==
  ASSUME EvidenceInv, Decide
  PROVE  EvidenceInv'
<1> USE DEF EvidenceInv
<1>1. /\ UNCHANGED <<log, HEAD, origin, files, baseline, seen, happened, left, disturbed>>
      /\ doing = "decide" /\ doing' = "done"
  BY DEF Decide, repoVars
<1>2. PICK o \in BOOLEAN : outcome' = Decision(o)
  BY DEF Decide
<1>3. \A f : (Committed(f)' <=> Committed(f)) /\ (Landed(f)' <=> Landed(f))
  BY <1>1 DEF Committed, Landed, Tree, Past
<1>4. EvidenceTypeOK'
  BY <1>1 DEF EvidenceTypeOK, RepoOK, Tree
<1>5. CalmIsKept' /\ StatusSaid' /\ DiffSaid' /\ ReachedSaid'
  BY <1>1, <1>3 DEF CalmIsKept, StatusSaid, DiffSaid, ReachedSaid, Calm, Tree
<1>6. ASSUME NEW f \in Calm, left.work[f] \in Mine
      PROVE  /\ outcome' # "NO-OP"
             /\ outcome' = "ARCHIVE-OK" => Landed(f)
             /\ outcome' = "HANDOFF" /\ Committed(f) => Landed(f)
  <2>1. ASSUME outcome' = "NO-OP" PROVE FALSE
    <3>1. seen.ok /\ seen.paths \cup (seen.dirty \ {}) = {}
      BY <1>2, <2>1 DEF Decision, OwnDirt
    <3> QED BY <1>1, <1>6, <3>1 DEF DiffSaid
  <2>2. ASSUME outcome' = "ARCHIVE-OK" PROVE Landed(f)
    <3>1. seen.ok /\ seen.reached /\ seen.dirty = {}
      BY <1>2, <2>2 DEF Decision, OwnDirt
    <3> QED BY <1>6, <3>1 DEF ReachedSaid
  <2>3. ASSUME outcome' = "HANDOFF", Committed(f) PROVE Landed(f)
    <3>1. seen.ok /\ seen.reached
      BY <1>2, <2>3 DEF Decision
    <3>2. f \notin seen.dirty
      BY <1>1, <1>6, <2>3, <3>1 DEF StatusSaid
    <3> QED BY <1>6, <3>1, <3>2 DEF ReachedSaid
  <2> QED BY <2>1, <2>2, <2>3
<1>7. VerdictIsEarned'
  BY <1>1, <1>6 DEF VerdictIsEarned, Calm, Committed, Landed, Tree, Past
<1> QED BY <1>4, <1>5, <1>7

\* Every step of the repository and of the hook keeps the invariant.
LEMMA EvidenceStep ==
  ASSUME EvidenceInv, [EvidenceNext]_evidenceVars
  PROVE  EvidenceInv'
<1>1. CASE EvidenceNext
  BY <1>1, MovesStep, HookStep, CommandStep, DecideStep DEF EvidenceNext
<1>2. CASE UNCHANGED evidenceVars
  <2> USE <1>2 DEF EvidenceInv, evidenceVars, repoVars
  <2>1. EvidenceTypeOK'
    BY DEF EvidenceTypeOK, RepoOK, Tree
  <2>2. CalmIsKept' /\ StatusSaid' /\ DiffSaid'
    BY DEF CalmIsKept, StatusSaid, DiffSaid, Calm, Committed, Tree
  <2>3. ReachedSaid' /\ VerdictIsEarned'
    BY DEF ReachedSaid, VerdictIsEarned, Calm, Landed, Tree, Past
  <2> QED BY <2>1, <2>2, <2>3
<1> QED BY <1>1, <1>2

\* SessionEnd's verdict never loses what the session left in its checkout
\* (collect_evidence, decide_verdict), however its git commands fail and
\* interleave with other people's edits, commits, pushes and switches: for any
\* number of files, of commits and of what happens.
THEOREM EvidenceCorrect == EvidenceSpec => []VerdictIsEarned
<1>1. EvidenceInit => EvidenceInv
  BY EvidenceInitInv
<1>2. EvidenceInv /\ [EvidenceNext]_evidenceVars => EvidenceInv'
  BY EvidenceStep
<1>3. EvidenceInv => VerdictIsEarned
  BY DEF EvidenceInv
<1> QED BY <1>1, <1>2, <1>3, PTL DEF EvidenceSpec

===============================================================================
