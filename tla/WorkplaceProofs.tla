---------------------------- MODULE WorkplaceProofs ----------------------------
(***************************************************************************)
(* Theorems about the machines a session works beside, each of its own,    *)
(* for any number of wrappers, commits, writes and runs: the browser lane  *)
(* (LaneLock), the cleaners of a worktree (WorktreeCustody), the copy of   *)
(* the store (SnapshotRead), the pages of its history (HistoryPages), the  *)
(* reaper of session files (StateReaper) and the model team (ModelTeam).   *)
(* Each has its specification, its inductive invariant and the theorem.    *)
(***************************************************************************)
EXTENDS LaneLock, WorktreeCustody, SnapshotRead, HistoryPages, StateReaper,
        ModelTeam, TLAPS

------------------------------------------------------------------------------
(* The browser lane (LaneLock) *)

LaneSpec == LaneInit /\ [][LaneNext]_laneVars

Inside == {"hold", "start", "window", "wait", "reap", "remove", "unlock"}

LaneTypeOK ==
  /\ posix \in BOOLEAN
  /\ stage \in [Lanes -> {"poll", "done"} \cup Inside]
  /\ family \in [Lanes -> {"none", "unowned", "owned", "gone"}]

\* Whoever stands between lock and unlock has the lock.
InsideHasLock == \A w \in Lanes : stage[w] \in Inside => lock = w

\* A tree is registered while its wrapper waits for it or reaps it; after that
\* only where nothing kills it with its wrapper.
OwnedIsTended == \A w \in Lanes : family[w] = "owned" =>
    stage[w] \in {"wait", "reap"} \/ (posix /\ w \in forced)

LaneInv == LaneTypeOK /\ InsideHasLock /\ OwnedIsTended

LEMMA LaneInitInv == LaneInit => LaneInv
  BY DEF LaneInit, LaneInv, LaneTypeOK, InsideHasLock, OwnedIsTended, Inside

\* Every step of a wrapper, of its tree and of a probe keeps the invariant: the
\* lock is taken only when it is free and left only by its owner.
LEMMA LaneStep ==
  ASSUME LaneInv, [LaneNext]_laneVars
  PROVE  LaneInv'
<1> USE LaneAssumption DEF LaneInv, LaneTypeOK, InsideHasLock, OwnedIsTended, Inside, Move
<1>1. CASE UNCHANGED laneVars
  BY <1>1 DEF laneVars
<1>2. CASE ProbeLane
  BY <1>2 DEF ProbeLane
<1>3. ASSUME NEW w \in Lanes, TryLock(w) PROVE LaneInv'
  BY <1>3 DEF TryLock
<1>4. ASSUME NEW w \in Lanes, WriteHolder(w) PROVE LaneInv'
  BY <1>4 DEF WriteHolder
<1>5. ASSUME NEW w \in Lanes, StartTree(w) PROVE LaneInv'
  BY <1>5 DEF StartTree
<1>6. ASSUME NEW w \in Lanes, OwnTree(w) PROVE LaneInv'
  BY <1>6 DEF OwnTree
<1>7. ASSUME NEW w \in Lanes, Interrupted(w) PROVE LaneInv'
  BY <1>7 DEF Interrupted
<1>8. ASSUME NEW w \in Lanes, Reap(w) PROVE LaneInv'
  BY <1>8 DEF Reap
<1>9. ASSUME NEW w \in Lanes, RemoveHolder(w) PROVE LaneInv'
  BY <1>9 DEF RemoveHolder
<1>10. ASSUME NEW w \in Lanes, Unlock(w) PROVE LaneInv'
  BY <1>10 DEF Unlock
<1>11. ASSUME NEW w \in Lanes, Killed(w) PROVE LaneInv'
  BY <1>11 DEF Killed
<1>12. ASSUME NEW w \in Lanes, TreeEnds(w) PROVE LaneInv'
  BY <1>12 DEF TreeEnds
<1> QED
  BY <1>1, <1>2, <1>3, <1>4, <1>5, <1>6, <1>7, <1>8, <1>9, <1>10, <1>11, <1>12 DEF LaneNext

\* However wrappers, trees, kills and status probes interleave, a registered
\* command tree runs without its lane's lock only on POSIX, after its wrapper was
\* killed outright or gave up on it (cdp_lane_lock.py).
THEOREM LaneCorrect == LaneSpec => []TreeUnderLock
<1>1. LaneInv => TreeUnderLock
  BY DEF LaneInv, InsideHasLock, OwnedIsTended, TreeUnderLock, Inside
<1> QED
  BY <1>1, LaneInitInv, LaneStep, PTL DEF LaneSpec

------------------------------------------------------------------------------
(* The cleaners of a worktree (WorktreeCustody) *)

TreeSpec == TreeInit /\ [][TreeNext]_treeVars

Looking == {"classify", "status", "remove", "branch", "force"}

TreeTypeOK ==
  /\ tree \in {"linked", "gone"} /\ branch \in {"detached", "branch", "deleted"}
  /\ tip \in Nat /\ trunk \in Nat
  /\ does \in [Cleaners -> {"off"} \cup Looking]
  /\ look \in [Cleaners -> Nat \cup {NoHead}]
  /\ wip \in BOOLEAN /\ planned \in BOOLEAN /\ retouched \in BOOLEAN

\* The head a cleaner has read is one the worktree had: HEAD only moves on.
SeenIsPast == \A c \in Cleaners : does[c] \in Looking => look[c] \in Nat /\ look[c] <= tip

\* From its test of the ancestry on, a cleaner whose HEAD has not moved since
\* stands on a merged one.
SeenIsMerged == \A c \in Cleaners :
    does[c] \in Looking \ {"classify"} /\ look[c] = tip => Merged

\* The plan was made when the file had no uncommitted change.
PlanIsOld == planned /\ wip => retouched

TreeInv == TreeTypeOK /\ SeenIsPast /\ SeenIsMerged /\ PlanIsOld

LEMMA TreeInitInv == TreeInit => TreeInv
<1> SUFFICES ASSUME TreeInit PROVE TreeInv
  OBVIOUS
<1>1. TreeTypeOK
  <2>1. look \in [Cleaners -> Nat \cup {NoHead}]
    BY DEF TreeInit
  <2>2. does \in [Cleaners -> {"off"} \cup Looking]
    BY DEF TreeInit
  <2>3. tip \in Nat /\ trunk \in Nat
    BY DEF TreeInit
  <2>4. tree \in {"linked", "gone"} /\ branch \in {"detached", "branch", "deleted"}
    BY DEF TreeInit
  <2> QED
    BY <2>1, <2>2, <2>3, <2>4 DEF TreeInit, TreeTypeOK
<1>2. SeenIsPast /\ SeenIsMerged
  BY DEF TreeInit, SeenIsPast, SeenIsMerged, Looking
<1> QED
  BY <1>1, <1>2 DEF TreeInit, TreeInv, PlanIsOld

\* The session's own work and every step of a cleaner keep the invariant.
LEMMA TreeStep ==
  ASSUME TreeInv, [TreeNext]_treeVars
  PROVE  TreeInv'
<1> USE DEF TreeInv, TreeTypeOK, SeenIsPast, SeenIsMerged, PlanIsOld, Looking, Merged,
            Cleaners, Go, See, work, primary
<1>1. CASE UNCHANGED treeVars
  BY <1>1 DEF treeVars
<1>2. CASE Works
  <2>1. branch' = branch /\ look' = look /\ does' = does /\ planned' = planned
    BY <1>2 DEF Works
  <2>2. tree' \in {"linked", "gone"}
    BY <1>2 DEF Works
  <2>2a. tip' \in Nat /\ trunk' \in Nat
    BY <1>2 DEF Works
  <2>3. \/ wip' = wip /\ retouched' = retouched
        \/ wip' = TRUE /\ retouched' = TRUE
    BY <1>2 DEF Works
  <2>4. TreeTypeOK'
    BY <2>1, <2>2, <2>2a, <2>3
  <2>7. PlanIsOld'
    BY <2>1, <2>3, Zenon DEF PlanIsOld
  <2>5. tip <= tip' /\ (tip' = tip /\ Merged => Merged')
    BY <1>2 DEF Works
  <2>6. SeenIsPast' /\ SeenIsMerged'
    BY <2>1, <2>2a, <2>5
  <2> QED
    BY <2>4, <2>6, <2>7
<1>3. CASE RecordClose
  BY <1>3 DEF RecordClose
<1>4. CASE ApplyStatus
  BY <1>4 DEF ApplyStatus
<1>5. CASE ApplyClassify
  BY <1>5 DEF ApplyClassify, Eligible
<1>6. CASE HygieneLook
  BY <1>6 DEF HygieneLook
<1>7. CASE HygieneStatus
  BY <1>7 DEF HygieneStatus
<1>8. CASE ForceDelete
  BY <1>8 DEF ForceDelete
<1>9. CASE DeployPlan
  BY <1>9 DEF DeployPlan
<1>10. CASE Deploy
  BY <1>10 DEF Deploy
<1>11. ASSUME NEW c \in Cleaners, Remove(c) PROVE TreeInv'
  BY <1>11 DEF Remove
<1>12. ASSUME NEW c \in Cleaners, DeleteBranch(c) PROVE TreeInv'
  BY <1>12 DEF DeleteBranch
<1>13. ASSUME NEW c \in Cleaners, CleanerDies(c) PROVE TreeInv'
  BY <1>13 DEF CleanerDies
<1> QED
  BY <1>1, <1>2, <1>3, <1>4, <1>5, <1>6, <1>7, <1>8, <1>9, <1>10, <1>11, <1>12, <1>13
     DEF TreeNext, Cleans

\* A step that takes the last reference away from an unmerged commit is a
\* removal by a cleaner that had read another head.
LEMMA TreeKeepsWork ==
  ASSUME TreeInv, [TreeNext]_treeVars, Reachable, ~Reachable'
  PROVE  \E c \in Cleaners : does'[c] # does[c] /\ look[c] # tip
<1> USE DEF TreeInv, TreeTypeOK, SeenIsPast, SeenIsMerged, Looking, Merged, Reachable,
            Cleaners, Go, See, work, primary
<1>1. CASE UNCHANGED treeVars
  BY <1>1 DEF treeVars
<1>2. CASE Works
  BY <1>2 DEF Works
<1>3. CASE RecordClose \/ ApplyStatus \/ ApplyClassify \/ HygieneLook \/ HygieneStatus
           \/ DeployPlan \/ Deploy
  BY <1>3 DEF RecordClose, ApplyStatus, ApplyClassify, HygieneLook, HygieneStatus,
     DeployPlan, Deploy
<1>4. CASE ForceDelete
  BY <1>4 DEF ForceDelete
<1>5. ASSUME NEW c \in Cleaners, Remove(c) PROVE does'[c] # does[c] /\ look[c] # tip
  BY <1>5 DEF Remove
<1>6. ASSUME NEW c \in Cleaners, DeleteBranch(c) PROVE FALSE
  BY <1>6 DEF DeleteBranch
<1>7. ASSUME NEW c \in Cleaners, CleanerDies(c) PROVE FALSE
  BY <1>7 DEF CleanerDies
<1> QED
  BY <1>1, <1>2, <1>3, <1>4, <1>5, <1>6, <1>7 DEF TreeNext, Cleans

\* An uncommitted change of the primary checkout is undone only by a deployment,
\* and one that was there when the plan was made forbids the plan.
LEMMA TreeKeepsChange ==
  ASSUME TreeInv, [TreeNext]_treeVars, wip, ~wip'
  PROVE  retouched
  BY DEF TreeInv, TreeTypeOK, PlanIsOld, TreeNext, Works, Cleans, RecordClose, ApplyStatus,
     ApplyClassify, HygieneLook, HygieneStatus, ForceDelete, DeployPlan, Deploy, Remove,
     DeleteBranch, CleanerDies, primary, treeVars

\* Whatever the session does between the reads of git and the removal, a cleaner
\* (worktree_lifecycle.apply_receipt, git_hygiene.py) takes away only work that
\* came after it had looked.
THEOREM TreeCorrect == TreeSpec => LostOnlyUnseen
<1>1. TreeInv /\ [TreeNext]_treeVars =>
        [/\ Reachable /\ ~Reachable' =>
              \E c \in Cleaners : does'[c] # does[c] /\ look[c] # tip
         /\ wip /\ ~wip' => retouched]_treeVars
  BY TreeKeepsWork, TreeKeepsChange
<1> QED
  BY <1>1, TreeInitInv, TreeStep, PTL DEF TreeSpec, LostOnlyUnseen

------------------------------------------------------------------------------
(* The copy of the store (SnapshotRead) *)

ReadSpec == ReadInit /\ [][ReadNext]_readVars

ReadTypeOK ==
  /\ main \in [Pages -> Nat] /\ wal \in [Pages -> Nat] /\ copy \in [Pages -> Nat]
  /\ commits \in Nat /\ moving \subseteq Pages
  /\ differs \in BOOLEAN /\ blurred \in BOOLEAN

Copying == Pages \cup {"log", "after"}

\* As long as no signature changed and no write hid itself, nothing was written:
\* what is copied so far is what the files hold.
CopyFollows ==
  reader \in Copying /\ ~differs /\ ~blurred =>
    /\ Truth \in current
    /\ reader = "leases" => copy["rows"] = main["rows"]
    /\ reader = "log" => copy = main
    /\ reader = "after" => copy = Truth

ReadInv == ReadTypeOK /\ CopyFollows /\ CopyIsConsistent

LEMMA ReadInitInv == ReadInit => ReadInv
<1> SUFFICES ASSUME ReadInit PROVE ReadInv
  OBVIOUS
<1>1. ReadTypeOK
  BY DEF ReadInit, ReadTypeOK, Empty
<1>2. reader \notin Copying /\ reader # "taken"
  BY DEF ReadInit, Copying, Pages
<1> QED
  BY <1>1, <1>2 DEF ReadInv, CopyFollows, CopyIsConsistent

\* A write beside a copy shows in a signature or is recorded as one that did not.
LEMMA WritesAreNoticed ==
  ASSUME NEW f, NEW grows, ReadInv, Writes(f, grows), UNCHANGED copyVars, ReadTypeOK'
  PROVE  CopyFollows' /\ CopyIsConsistent'
<1>1. reader' = reader /\ copy' = copy
  BY DEF copyVars
<1>2. CASE reader = "off"
  BY <1>1, <1>2 DEF CopyFollows, CopyIsConsistent, Copying, Pages
<1>3. CASE reader # "off"
  <2>1. differs' \/ blurred'
    BY <1>3, Zenon DEF Writes
  <2>2. (blurred => blurred') /\ current \subseteq current'
    BY <1>3 DEF Writes
  <2> QED
    BY <1>1, <2>1, <2>2 DEF ReadInv, CopyFollows, CopyIsConsistent
<1> QED
  BY <1>2, <1>3

\* What is remembered of a write keeps its type.
LEMMA WritesTypes ==
  ASSUME NEW f, NEW grows \in BOOLEAN, Writes(f, grows), ReadTypeOK
  PROVE  differs' \in BOOLEAN /\ blurred' \in BOOLEAN
<1>1. CASE reader = "off"
  BY <1>1 DEF Writes, ReadTypeOK
<1>2. CASE reader # "off"
  <2>1. CASE grows \/ f \notin hot
    <3>1. differs' = TRUE /\ blurred' = blurred
      BY <1>2, <2>1 DEF Writes, ReadTypeOK
    <3> QED
      BY <3>1 DEF ReadTypeOK
  <2>2. CASE ~(grows \/ f \notin hot)
    <3>1. differs' = differs /\ blurred' = TRUE
      BY <1>2, <2>2 DEF Writes, ReadTypeOK
    <3> QED
      BY <3>1 DEF ReadTypeOK
  <2> QED
    BY <2>1, <2>2
<1> QED
  BY <1>1, <1>2

\* Every step of the copy and of the writers keeps the invariant.
LEMMA ReadStep ==
  ASSUME ReadInv, [ReadNext]_readVars
  PROVE  ReadInv'
<1> USE DEF ReadInv
<1>1. CASE UNCHANGED readVars
  BY <1>1 DEF readVars, fileVars, copyVars, ReadTypeOK, CopyFollows, CopyIsConsistent, Truth
<1>2. CASE Commit
  <2>1. Writes("wal", ~reused') /\ UNCHANGED copyVars
    BY <1>2 DEF Commit
  <2>2. wal' \in [Pages -> Nat] /\ commits' \in Nat /\ moving' \subseteq Pages /\ main' = main
    BY <1>2 DEF Commit, ReadTypeOK
  <2>3. ReadTypeOK'
    BY <2>1, <2>2, WritesTypes DEF ReadTypeOK, copyVars
  <2> QED
    BY <2>1, <2>3, WritesAreNoticed
<1>3. CASE Checkpoint
  <2>1. CASE UNCHANGED <<main, wal, commits, copyVars, differs, current, blurred>> /\ moving' = Pages
    BY <2>1 DEF copyVars, ReadTypeOK, CopyFollows, CopyIsConsistent, Truth
  <2>2. ASSUME NEW p \in moving, main' = [main EXCEPT ![p] = Truth[p]], moving' = moving \ {p},
               UNCHANGED <<wal, commits, copyVars>>, Writes("db", FALSE)
        PROVE  ReadInv'
    <3>1. main' \in [Pages -> Nat]
      BY <2>2 DEF ReadTypeOK, Truth, Overlay
    <3>2. ReadTypeOK'
      BY <2>2, <3>1, WritesTypes DEF ReadTypeOK, copyVars
    <3> QED
      BY <2>2, <3>2, WritesAreNoticed
  <2> QED
    BY <1>3, <2>1, <2>2 DEF Checkpoint
<1>4. CASE ClockTicks
  BY <1>4 DEF ClockTicks, fileVars, copyVars, ReadTypeOK, CopyFollows, CopyIsConsistent, Truth
<1>5. CASE LookBefore
  BY <1>5 DEF LookBefore, fileVars, ReadTypeOK, CopyFollows, CopyIsConsistent, Truth, Copying, Pages
<1>6. CASE CopyFiles
  BY <1>6 DEF CopyFiles, fileVars, ReadTypeOK, CopyFollows, CopyIsConsistent, Truth, Copying, Pages, Overlay
<1>7. CASE CopyFails
  BY <1>7 DEF CopyFails, Retry, fileVars, ReadTypeOK, CopyFollows, CopyIsConsistent, Copying, Pages
<1>8. CASE LookAfter
  BY <1>8 DEF LookAfter, Retry, Same, fileVars, ReadTypeOK, CopyFollows, CopyIsConsistent, Copying, Pages
<1> QED
  BY <1>1, <1>2, <1>3, <1>4, <1>5, <1>6, <1>7, <1>8 DEF ReadNext

\* A copy of the store that is taken is a state the store was in while it was
\* copied, unless a write left its signature as it was (conductor_store.py,
\* _read_only_snapshot_connection): for any number of writes and attempts.
THEOREM CopyCorrect == ReadSpec => []CopyIsConsistent
<1>1. ReadInv => CopyIsConsistent
  BY DEF ReadInv
<1> QED
  BY <1>1, ReadInitInv, ReadStep, PTL DEF ReadSpec

------------------------------------------------------------------------------
(* The reaper of session files (StateReaper) *)

ReaperSpec == ReaperInit /\ [][ReaperNext]_reaperVars

ReaperTypeOK ==
  /\ stored \in [Files -> {"none", "new", "old", "ancient"}]
  /\ cached \in {"unknown", "live", "dead"}
  /\ target = {} \/ \E f \in Files : target = {f}

\* A verdict about to be unlinked has been read, is past the outer bound, or has
\* been replaced since the pass looked at it.
VerdictIsDone ==
  target = {"verdict"} => consumed \/ stored["verdict"] = "ancient" \/ changed

\* Anything else goes only once the pass has found the session dead.
TargetIsDead == \A f \in Files \ {"verdict"} : target = {f} => cached = "dead"

\* A session found dead had no binding or an old transcript: it is active only
\* after it came back, or without the binding.
DeadIsAway == cached = "dead" /\ active => changed \/ stored["binding"] = "none"

ReaperInv == ReaperTypeOK /\ VerdictIsDone /\ TargetIsDead /\ DeadIsAway

LEMMA ReaperInitInv == ReaperInit => ReaperInv
<1> SUFFICES ASSUME ReaperInit PROVE ReaperInv
  OBVIOUS
<1>1. ReaperTypeOK
  BY DEF ReaperInit, ReaperTypeOK
<1> QED
  BY <1>1 DEF ReaperInit, ReaperInv, VerdictIsDone, TargetIsDead, DeadIsAway

\* Every step of the reaper and of the sessions keeps the invariant.
LEMMA ReaperStep ==
  ASSUME ReaperInv, [ReaperNext]_reaperVars
  PROVE  ReaperInv'
<1> USE DEF ReaperInv, ReaperTypeOK, VerdictIsDone, TargetIsDead, DeadIsAway, Files,
            Put, passVars, sessionVars
<1>1. CASE UNCHANGED reaperVars
  BY <1>1 DEF reaperVars
<1>2. CASE SessionStarts
  BY <1>2 DEF SessionStarts
<1>3. CASE SessionWrites
  BY <1>3 DEF SessionWrites
<1>4. CASE Consume
  BY <1>4 DEF Consume
<1>5. CASE TimePasses
  BY <1>5 DEF TimePasses
<1>6. CASE Scan
  BY <1>6 DEF Scan
<1>7. CASE EndPass
  BY <1>7 DEF EndPass
<1>8. ASSUME NEW f \in Files, Examine(f) PROVE ReaperInv'
  BY <1>8 DEF Examine, KnownLive, HardExpired
<1>9. ASSUME NEW f \in Files, UnlinkFile(f) PROVE ReaperInv'
  BY <1>9 DEF UnlinkFile
<1> QED
  BY <1>1, <1>2, <1>3, <1>4, <1>5, <1>6, <1>7, <1>8, <1>9 DEF ReaperNext, Reaper

\* Only the unlink makes a file disappear, and its target is what the invariant
\* says of targets.
LEMMA ReaperSpares ==
  ASSUME ReaperInv, [ReaperNext]_reaperVars,
         NEW f \in Files, stored[f] # "none", stored'[f] = "none"
  PROVE  IF f = "verdict" THEN consumed \/ stored[f] = "ancient" \/ changed
                          ELSE active => changed \/ stored["binding"] = "none"
<1> USE DEF ReaperInv, ReaperTypeOK, Files, Put, passVars, sessionVars
<1>1. ~UNCHANGED stored
  OBVIOUS
<1>2. ~SessionStarts /\ ~SessionWrites /\ ~Consume /\ ~TimePasses
  BY DEF SessionStarts, SessionWrites, Consume, TimePasses
<1>3. PICK g \in Files : UnlinkFile(g)
  BY <1>1, <1>2 DEF ReaperNext, Reaper, Scan, Examine, EndPass, reaperVars
<1>4. target = {f}
  BY <1>3 DEF UnlinkFile
<1> QED
  BY <1>4 DEF VerdictIsDone, TargetIsDead, DeadIsAway

\* However the session starts, writes and is curated between the looks of a pass
\* and its unlink, the reaper (session_lifecycle.py, _run_reaper) unlinks only
\* what was abandoned when it looked.
THEOREM ReaperCorrect == ReaperSpec => ReapsOnlyAbandoned
<1>1. ReaperInv /\ [ReaperNext]_reaperVars =>
        [\A f \in Files : stored[f] # "none" /\ stored'[f] = "none" =>
           IF f = "verdict" THEN consumed \/ stored[f] = "ancient" \/ changed
                            ELSE active => changed \/ stored["binding"] = "none"]_reaperVars
  BY ReaperSpares
<1> QED
  BY <1>1, ReaperInitInv, ReaperStep, PTL DEF ReaperSpec, ReapsOnlyAbandoned

------------------------------------------------------------------------------
(* The model team (ModelTeam) *)

TeamSpec == TeamInit /\ [][TeamNext]_teamVars

Answers == [run : Dispatches, packet : Nat, genuine : BOOLEAN]
Places  == {"idle", "refused", "waiting", "failed", "exited", "done", "manifest", "hashed"}
Processes == {"none", "working", "answered", "ended"}
Records == [at : Places, asked : Nat, process : Processes,
            meta : SUBSET Answers, hashed : SUBSET Answers]

TeamTypeOK ==
  /\ packet \in Nat /\ out \subseteq Answers /\ metadata \subseteq Answers
  /\ dispatch \in [Dispatches -> Records]

\* A run asked a version the packet has had, and a run that accepted an answer
\* does not ask again.
AskedOnce ==
  /\ \A r \in Dispatches : dispatch[r].asked <= packet
  /\ \A m \in accepted : m.by \in Dispatches /\ dispatch[m.by].at # "idle"

TeamInv == TeamTypeOK /\ AskedOnce /\ AnswersWhatWasAsked

LEMMA TeamInitInv == TeamInit => TeamInv
<1> SUFFICES ASSUME TeamInit PROVE TeamInv
  OBVIOUS
<1>0. packet = 0 /\ dispatch = [r \in Dispatches |->
        [at |-> "idle", asked |-> 0, process |-> "none", meta |-> {}, hashed |-> {}]]
  BY DEF TeamInit
<1>1. TeamTypeOK
  <2>1. [at |-> "idle", asked |-> 0, process |-> "none", meta |-> {}, hashed |-> {}] \in Records
    BY DEF Records, Places, Processes
  <2>2. out = {} /\ metadata = {}
    BY DEF TeamInit
  <2> QED
    BY <1>0, <2>1, <2>2 DEF TeamTypeOK
<1>2. \A r \in Dispatches : dispatch[r].asked <= packet
  BY <1>0
<1>3. accepted = {}
  BY DEF TeamInit
<1> QED
  BY <1>1, <1>2, <1>3 DEF TeamInv, AskedOnce, AnswersWhatWasAsked

\* A packet is named by its number.
LEMMA AskedIsNumber == ASSUME NEW d \in Records PROVE d.asked \in Nat
  BY DEF Records

LEMMA PlaceNames == /\ {"refused", "waiting", "failed", "exited", "done", "manifest", "hashed"} \subseteq Places
                    /\ {"working", "answered", "ended"} \subseteq Processes
  BY DEF Places, Processes

\* A step of the run r that leaves it d, and what it may accept with it.
LEMMA RunMoves ==
  ASSUME TeamInv, NEW r \in Dispatches, NEW d \in Records, Set(r, d),
         d.at # "idle" \/ d.at = dispatch[r].at,
         d.asked = dispatch[r].asked \/ (dispatch[r].at = "idle" /\ d.asked = packet),
         role' = role, packet' = packet, out' \subseteq Answers, metadata' \subseteq Answers,
         \/ accepted' = accepted
         \/ \E a : /\ Accept(r, a) /\ d.at # "idle" /\ dispatch[r].at # "idle"
                   /\ role \notin {"ox", "chatgpt"} => a.genuine
                   /\ role # "chatgpt" => a.packet \in dispatch[r].asked .. packet
  PROVE  TeamInv'
<1> USE DEF TeamInv, TeamTypeOK
<1>1. dispatch' = [q \in Dispatches |-> IF q = r THEN d ELSE dispatch[q]]
  BY DEF Set
<1>2. \A q \in Dispatches : dispatch[q].asked \in Nat /\ d.asked \in Nat
  BY DEF Records
<1>3. TeamTypeOK'
  BY <1>1
<1>4. \A q \in Dispatches : dispatch'[q].asked <= packet'
  BY <1>1, <1>2 DEF AskedOnce
<1>5. ASSUME NEW m \in accepted
      PROVE  m.by \in Dispatches /\ dispatch'[m.by].at # "idle" /\ dispatch'[m.by].asked = dispatch[m.by].asked
  BY <1>1, <1>5 DEF AskedOnce
<1>6. CASE accepted' = accepted
  BY <1>3, <1>4, <1>5, <1>6 DEF AskedOnce, AnswersWhatWasAsked
<1>7. CASE accepted' # accepted
  <2>1. PICK a : /\ Accept(r, a) /\ d.at # "idle" /\ dispatch[r].at # "idle"
                 /\ role \notin {"ox", "chatgpt"} => a.genuine
                 /\ role # "chatgpt" => a.packet \in dispatch[r].asked .. packet
    BY <1>7
  <2> DEFINE n == [by |-> r, answer |-> a, latest |-> packet]
  <2>2. accepted' = accepted \cup {n}
    BY <2>1 DEF Accept
  <2>3. n.by = r /\ n.answer = a /\ n.latest = packet
    OBVIOUS
  <2> HIDE DEF n
  <2>4. dispatch'[r] = d /\ d.asked = dispatch[r].asked
    BY <1>1, <2>1
  <2>5. /\ n.by \in Dispatches /\ dispatch'[n.by].at # "idle"
        /\ role' \notin {"ox", "chatgpt"} => n.answer.genuine
        /\ role' # "chatgpt" => n.answer.packet \in dispatch'[n.by].asked .. n.latest
    BY <2>1, <2>3, <2>4
  <2> QED
    BY <1>3, <1>4, <1>5, <2>2, <2>5 DEF AskedOnce, AnswersWhatWasAsked
<1> QED
  BY <1>6, <1>7

\* The answer a driver writes or a command prints is a record of the model.
LEMMA AnswerTypes ==
  ASSUME NEW r \in Dispatches, NEW v \in Nat, NEW genuine \in {lane # "no model", FALSE}
  PROVE  [run |-> r, packet |-> v, genuine |-> genuine] \in Answers
<1>1. genuine \in BOOLEAN
  BY Zenon
<1> QED
  BY <1>1 DEF Answers

\* Every step of a dispatch, of its provider and of the operator keeps the invariant.
LEMMA TeamStep ==
  ASSUME TeamInv, [TeamNext]_teamVars
  PROVE  TeamInv'
<1> USE DEF TeamInv, TeamTypeOK
<1>0. \A r \in Dispatches : dispatch[r] \in Records
  OBVIOUS
<1>1. CASE UNCHANGED teamVars
  BY <1>1 DEF teamVars, AskedOnce, AnswersWhatWasAsked
<1>2. CASE Doctor \/ LaneChanges
  <2>1. UNCHANGED <<role, packet, out, metadata, dispatch, accepted>>
    BY <1>2 DEF Doctor, LaneChanges
  <2> QED
    BY <2>1 DEF AskedOnce, AnswersWhatWasAsked
<1>3. CASE EditPacket
  <2>1. packet' = packet + 1 /\ UNCHANGED <<role, out, metadata, dispatch, accepted>>
    BY <1>3 DEF EditPacket
  <2>2. \A q \in Dispatches : dispatch[q].asked \in Nat
    BY <1>0, AskedIsNumber
  <2> QED
    BY <2>1, <2>2 DEF AskedOnce, AnswersWhatWasAsked
<1>4. ASSUME NEW r \in Dispatches, Dispatch(r) PROVE TeamInv'
  <2>d. PICK d \in Records : d = dispatch[r]
    BY <1>0
  <2> DEFINE asks == [d EXCEPT !.at = "waiting", !.asked = packet, !.process = "working"]
             stops == [d EXCEPT !.at = "refused"]
  <2>1. stops \in Records /\ stops.at = "refused" /\ stops.asked = d.asked
    BY PlaceNames DEF Records
  <2>3. asks \in Records /\ asks.at = "waiting" /\ asks.asked = packet
    BY PlaceNames DEF Records
  <2>2. dispatch[r].at = "idle" /\ (Set(r, asks) \/ Set(r, stops))
        /\ UNCHANGED <<role, packet, out, metadata, accepted>>
    BY <2>d, <1>4 DEF Dispatch
  <2> HIDE DEF asks, stops
  <2> QED
    BY <2>1, <2>2, <2>3, <2>d, RunMoves
<1>5. ASSUME NEW r \in Dispatches, GivesUp(r) \/ Exits(r) PROVE TeamInv'
  <2>d. PICK d \in Records : d = dispatch[r]
    BY <1>0
  <2> DEFINE fails == [d EXCEPT !.at = "failed"]
             ends(to) == [d EXCEPT !.at = to, !.process = "ended"]
  <2>1. fails \in Records /\ fails.at = "failed" /\ fails.asked = d.asked
    BY PlaceNames DEF Records
  <2>3. ASSUME NEW to \in {"exited", "failed"}
        PROVE  ends(to) \in Records /\ ends(to).at = to /\ ends(to).asked = d.asked
    BY PlaceNames DEF Records
  <2>2. /\ Set(r, fails) \/ \E to \in {"exited", "failed"} : Set(r, ends(to))
        /\ UNCHANGED <<role, packet, out, metadata, accepted>>
    BY <2>d, <1>5 DEF GivesUp, Exits, Apart
  <2> HIDE DEF fails, ends
  <2> QED
    BY <2>1, <2>2, <2>3, <2>d, RunMoves
<1>6. ASSUME NEW r \in Dispatches, Prints(r) PROVE TeamInv'
  <2>d. PICK d \in Records : d = dispatch[r]
    BY <1>0
  <2> DEFINE wins  == [d EXCEPT !.at = "done", !.process = "ended"]
             fails == [d EXCEPT !.at = "failed", !.process = "ended"]
  <2>1. wins \in Records /\ wins.at = "done" /\ wins.asked = d.asked
    BY PlaceNames DEF Records
  <2>2. fails \in Records /\ fails.at = "failed" /\ fails.asked = d.asked
    BY PlaceNames DEF Records
  <2>3. d.asked \in Nat /\ packet \in Nat /\ d.asked \in dispatch[r].asked .. packet
    BY <2>d, AskedIsNumber DEF AskedOnce
  <2>4. dispatch[r].at # "idle" /\ UNCHANGED <<role, packet, metadata>>
    BY <1>6 DEF Prints, Apart
  <2> DEFINE a(genuine) == [run |-> r, packet |-> d.asked, genuine |-> genuine]
  <2>5. \A genuine : a(genuine).packet = d.asked /\ a(genuine).genuine = genuine
    OBVIOUS
  <2>6. \E genuine \in {lane # "no model", FALSE} :
          \/ out' = {a(genuine)} /\ Accept(r, a(genuine)) /\ Set(r, wins) /\ Proven(genuine)
          \/ Set(r, fails) /\ UNCHANGED <<out, accepted>>
    BY <1>6, <2>d DEF Prints
  <2>7. \A genuine \in {lane # "no model", FALSE} : a(genuine) \in Answers
    BY <2>3, AnswerTypes
  <2> HIDE DEF a, wins, fails
  <2>8. CASE Set(r, fails) /\ UNCHANGED <<out, accepted>>
    BY <2>2, <2>4, <2>8, <2>d, RunMoves
  <2>9. CASE ~(Set(r, fails) /\ UNCHANGED <<out, accepted>>)
    <3>1. PICK n \in Answers : /\ n.packet = d.asked /\ out' = {n} /\ Accept(r, n) /\ Set(r, wins)
                               /\ role \notin {"ox", "chatgpt"} => n.genuine
      BY <2>5, <2>6, <2>7, <2>9, Zenon DEF Proven
    <3> QED
      BY <2>1, <2>3, <2>4, <2>d, <3>1, RunMoves
  <2> QED
    BY <2>8, <2>9
<1>7. ASSUME NEW r \in Dispatches, FindsAnswer(r) PROVE TeamInv'
  <2>d. PICK d \in Records : d = dispatch[r]
    BY <1>0
  <2> DEFINE wins  == [d EXCEPT !.at = "done"]
             fails == [d EXCEPT !.at = "failed"]
  <2>1. /\ wins \in Records /\ wins.at = "done" /\ wins.asked = d.asked
        /\ fails \in Records /\ fails.at = "failed" /\ fails.asked = d.asked
    BY PlaceNames DEF Records
  <2>2. /\ dispatch[r].at = "exited" /\ role = "chatgpt" /\ UNCHANGED <<role, packet, metadata, out>>
        /\ \/ Set(r, fails) /\ UNCHANGED accepted
           \/ Set(r, wins) /\ \E a \in out : Accept(r, a)
    BY <2>d, <1>7 DEF FindsAnswer, Apart
  <2> HIDE DEF wins, fails
  <2> QED
    BY <2>1, <2>2, <2>d, RunMoves
<1>8. ASSUME NEW r \in Dispatches, DriverAnswers(r) \/ DriverDescribes(r) PROVE TeamInv'
  <2>d. PICK d \in Records : d = dispatch[r]
    BY <1>0
  <2> DEFINE goes(to) == [d EXCEPT !.process = to]
  <2>1. \A to \in {"answered", "ended"} :
          goes(to) \in Records /\ goes(to).at = d.at /\ goes(to).asked = d.asked
    BY PlaceNames DEF Records
  <2>2. \E to \in {"answered", "ended"} : Set(r, goes(to))
    BY <2>d, <1>8 DEF DriverAnswers, DriverDescribes
  <2>3. UNCHANGED <<role, packet, accepted>>
    BY <1>8 DEF DriverAnswers, DriverDescribes, Apart
  <2>4. out' \subseteq Answers /\ metadata' \subseteq Answers
    <3>1. CASE DriverDescribes(r)
      BY <3>1 DEF DriverDescribes
    <3>2. CASE DriverAnswers(r)
      <4>1. \A v \in dispatch[r].asked .. packet : v \in Nat
        BY <1>0, AskedIsNumber
      <4>2. \A v \in Nat, genuine \in {lane # "no model", FALSE} :
              [run |-> r, packet |-> v, genuine |-> genuine] \in Answers
        BY AnswerTypes
      <4>3. out' \subseteq Answers
        BY <3>2, <4>1, <4>2 DEF DriverAnswers
      <4>4. UNCHANGED metadata
        BY <3>2 DEF DriverAnswers
      <4> QED
        BY <4>3, <4>4
    <3> QED
      BY <1>8, <3>1, <3>2
  <2> HIDE DEF goes
  <2> QED
    BY <2>1, <2>2, <2>3, <2>4, <2>d, RunMoves
<1>9. ASSUME NEW r \in Dispatches, ReadManifest(r) \/ HashAnswer(r) PROVE TeamInv'
  <2>d. PICK d \in Records : d = dispatch[r]
    BY <1>0
  <2> DEFINE fails == [d EXCEPT !.at = "failed"]
             reads == [d EXCEPT !.at = "manifest", !.meta = metadata]
             digests == [d EXCEPT !.at = "hashed", !.hashed = out]
  <2>1. fails \in Records /\ fails.at = "failed" /\ fails.asked = d.asked
    BY PlaceNames DEF Records
  <2>3. reads \in Records /\ reads.at = "manifest" /\ reads.asked = d.asked
    BY PlaceNames DEF Records
  <2>4. digests \in Records /\ digests.at = "hashed" /\ digests.asked = d.asked
    BY PlaceNames DEF Records
  <2>2. /\ Set(r, fails) \/ Set(r, reads) \/ Set(r, digests)
        /\ UNCHANGED <<role, packet, out, metadata, accepted>>
    BY <2>d, <1>9 DEF ReadManifest, HashAnswer, Apart
  <2> HIDE DEF fails, reads, digests
  <2> QED
    BY <2>1, <2>2, <2>3, <2>4, <2>d, RunMoves
<1>10. ASSUME NEW r \in Dispatches, Validate(r) PROVE TeamInv'
  <2>d. PICK d \in Records : d = dispatch[r]
    BY <1>0
  <2> DEFINE wins  == [d EXCEPT !.at = "done"]
             fails == [d EXCEPT !.at = "failed"]
  <2>1. /\ wins \in Records /\ wins.at = "done" /\ wins.asked = d.asked
        /\ fails \in Records /\ fails.at = "failed" /\ fails.asked = d.asked
    BY PlaceNames DEF Records
  <2>2. /\ dispatch[r].at = "hashed" /\ UNCHANGED <<role, packet, metadata, out>>
        /\ \/ Set(r, fails) /\ UNCHANGED accepted
           \/ /\ Set(r, wins) /\ Contract(dispatch[r].meta, dispatch[r].hashed, packet)
              /\ \E a \in dispatch[r].hashed : Accept(r, a)
    BY <2>d, <1>10 DEF Validate, Apart
  <2> HIDE DEF wins, fails
  <2>3. CASE Set(r, fails) /\ UNCHANGED accepted
    BY <2>1, <2>2, <2>3, <2>d, RunMoves
  <2>4. ASSUME Set(r, wins), Contract(dispatch[r].meta, dispatch[r].hashed, packet),
               NEW a \in dispatch[r].hashed, Accept(r, a)
        PROVE  TeamInv'
    <3>1. a.genuine /\ a.packet = packet
      BY <2>4 DEF Contract
    <3>2. a.packet \in dispatch[r].asked .. packet
      BY <1>0, <3>1, AskedIsNumber DEF AskedOnce
    <3> QED
      BY <2>1, <2>2, <2>4, <3>1, <3>2, <2>d, RunMoves
  <2> QED
    BY <2>2, <2>3, <2>4
<1> QED
  BY <1>1, <1>2, <1>3, <1>4, <1>5, <1>6, <1>7, <1>8, <1>9, <1>10 DEF TeamNext

\* However runs of a role, late providers and edits of the packet interleave over
\* the one answer file, what a run accepts is from the model it names and answers
\* a packet the file held while the run was under way (model_team.py, run_role).
THEOREM TeamCorrect == TeamSpec => []AnswersWhatWasAsked
<1>1. TeamInv => AnswersWhatWasAsked
  BY DEF TeamInv
<1> QED
  BY <1>1, TeamInitInv, TeamStep, PTL DEF TeamSpec

------------------------------------------------------------------------------
(* The history drawer (HistoryPages) *)

HistorySpec == HistoryInit /\ [][HistoryNext]_historyVars

HistoryTypeOK ==
  /\ released \in [1 .. MaxId -> Int] /\ second \in Nat
  /\ shown \in [1 .. MaxId -> Nat] /\ more \in BOOLEAN
  /\ then \subseteq Terminal
  /\ \A r \in 1 .. MaxId : shown[r] > 0 => r \in Terminal

\* While there is more, the list ends at the cursor, and what it lacks lies
\* beyond: nothing is released into the part already shown.
CursorDivides ==
  more => /\ nextRow \in Terminal
          /\ \A r \in 1 .. MaxId : shown[r] > 0 => r = nextRow \/ Newer(r, nextRow)
          /\ \A r \in then : shown[r] > 0 \/ Older(r, nextRow)

HistoryInv == HistoryTypeOK /\ CursorDivides /\ PagesMissNothing

LEMMA HistoryInitInv == HistoryInit => HistoryInv
<1> SUFFICES ASSUME HistoryInit PROVE HistoryInv
  OBVIOUS
<1>1. \A r \in 1 .. MaxId : shown[r] = 0
  BY DEF HistoryInit, NothingShown
<1>2. shown \in [1 .. MaxId -> Nat] /\ released \in [1 .. MaxId -> Int]
  BY DEF HistoryInit, NothingShown
<1>3. HistoryTypeOK
  <2>1. second \in Nat /\ more \in BOOLEAN /\ then \subseteq Terminal
    BY DEF HistoryInit
  <2>2. \A r \in 1 .. MaxId : shown[r] > 0 => r \in Terminal
    BY <1>1
  <2> QED BY <1>2, <2>1, <2>2 DEF HistoryTypeOK
<1>4. CursorDivides /\ PagesMissNothing
  BY <1>1 DEF HistoryInit, CursorDivides, PagesMissNothing
<1> QED BY <1>3, <1>4 DEF HistoryInv

\* A page joins a list that no row of it is in yet; what had been released at
\* the reset and is not in the list then lies beyond the page.
LEMMA LoadStep ==
  ASSUME HistoryTypeOK, UNCHANGED <<released, second>>, then' \subseteq Terminal,
         NEW sofar \in [1 .. MaxId -> Nat], NEW c, Load(sofar, c),
         \A r \in 1 .. MaxId : sofar[r] <= 1 /\ (sofar[r] > 0 => r \in Terminal \ Rows(c)),
         \A r \in then' : sofar[r] = 0 => r \in Rows(c),
         \A r \in 1 .. MaxId, s \in Rows(c) : sofar[r] > 0 => Newer(r, s)
  PROVE  HistoryInv'
<1>1. PICK page \in SUBSET Rows(c) :
        /\ IsPage(page, Rows(c))
        /\ shown' = [r \in 1 .. MaxId |-> IF r \in page THEN sofar[r] + 1 ELSE sofar[r]]
        /\ more' = ~Fit(Rows(c))
        /\ nextRow' \in IF Fit(Rows(c)) THEN {0}
                        ELSE {l \in page : \A r \in page \ {l} : Newer(r, l)}
  BY DEF Load
<1>2. Rows(c) \subseteq Terminal /\ Terminal \subseteq 1 .. MaxId /\ Terminal' = Terminal
  BY DEF Rows, Terminal
<1>3. \A r \in 1 .. MaxId : /\ shown'[r] = IF r \in page THEN 1 ELSE sofar[r]
                            /\ shown'[r] \in Nat /\ shown'[r] <= 1
                            /\ shown'[r] > 0 <=> r \in page \/ sofar[r] > 0
  BY <1>1, <1>2
<1>4. shown' \in [1 .. MaxId -> Nat]
  BY <1>1, <1>3
<1>5. HistoryTypeOK'
  BY <1>1, <1>2, <1>3, <1>4 DEF HistoryTypeOK
<1>6. ASSUME more' PROVE CursorDivides'
  <2>1. nextRow' \in page /\ \A r \in page \ {nextRow'} : Newer(r, nextRow')
    BY <1>1, <1>6
  <2>2. \A r, s \in Terminal : Newer(r, s) <=> Older(s, r)
    BY <1>2 DEF Newer, Older, HistoryTypeOK
  <2>3. \A r \in 1 .. MaxId : shown'[r] > 0 => r = nextRow' \/ Newer(r, nextRow')
    BY <1>2, <1>3, <2>1
  <2>4. \A r \in then' : shown'[r] > 0 \/ Older(r, nextRow')
    <3> SUFFICES ASSUME NEW r \in then', ~(shown'[r] > 0) PROVE Older(r, nextRow')
      OBVIOUS
    <3>1. r \in Rows(c) \ page
      BY <1>2, <1>3
    <3>2. Newer(nextRow', r)
      BY <1>1, <2>1, <3>1 DEF IsPage
    <3> QED BY <1>2, <2>1, <2>2, <3>1, <3>2
  <2> QED BY <1>2, <2>1, <2>3, <2>4 DEF CursorDivides, Newer, Older
<1>7. PagesMissNothing'
  <2>1. ASSUME ~more', NEW r \in then' PROVE shown'[r] = 1
    <3>1. page = Rows(c)
      BY <1>1, <2>1 DEF IsPage
    <3>2. r \in page \/ sofar[r] > 0
      BY <1>2, <3>1
    <3> QED BY <1>2, <1>3, <3>2
  <2> QED BY <1>3, <2>1 DEF PagesMissNothing
<1>8. CursorDivides'
  BY <1>6 DEF CursorDivides
<1> QED BY <1>5, <1>7, <1>8 DEF HistoryInv

\* Releases fall behind the reset or beyond the cursor, and pages join as LoadStep says.
LEMMA HistoryStep ==
  ASSUME HistoryInv, [HistoryNext]_historyVars
  PROVE  HistoryInv'
<1> USE DEF HistoryInv
<1>1. ASSUME NEW r \in 1 .. MaxId, Released(r) PROVE HistoryInv'
  <2>1. /\ UNCHANGED <<second, shown, nextRow, more, then>>
        /\ released' \in [1 .. MaxId -> Int]
        /\ \A x \in Terminal : released'[x] = released[x] /\ x \in Terminal'
    BY <1>1 DEF Released, drawerVars, HistoryTypeOK, Terminal
  <2>2. HistoryTypeOK'
    BY <2>1 DEF HistoryTypeOK
  <2>3. CursorDivides'
    BY <2>1 DEF CursorDivides, HistoryTypeOK, Newer, Older
  <2>4. PagesMissNothing'
    BY <2>1 DEF PagesMissNothing
  <2> QED BY <2>2, <2>3, <2>4
<1>2. CASE SecondPasses \/ Closes \/ UNCHANGED historyVars
  <2>1. UNCHANGED <<released, shown, nextRow, more, then>> /\ second' \in Nat
    BY <1>2 DEF SecondPasses, Closes, historyVars, drawerVars, HistoryTypeOK
  <2> QED BY <2>1 DEF HistoryTypeOK, CursorDivides, PagesMissNothing, Terminal, Newer, Older
<1>3. CASE Opens
  <2>1. CASE shown = NothingShown
    <3>1. Load(NothingShown, 0) /\ then' = Terminal /\ UNCHANGED <<released, second>>
      BY <1>3, <2>1 DEF Opens
    <3>2. NothingShown \in [1 .. MaxId -> Nat] /\ \A r \in 1 .. MaxId : NothingShown[r] = 0
      BY DEF NothingShown
    <3>3. Rows(0) = Terminal
      BY DEF Rows
    <3> HIDE DEF NothingShown
    <3>4. /\ \A r \in 1 .. MaxId : NothingShown[r] <= 1
                 /\ (NothingShown[r] > 0 => r \in Terminal \ Rows(0))
          /\ \A r \in then' : NothingShown[r] = 0 => r \in Rows(0)
          /\ \A r \in 1 .. MaxId, s \in Rows(0) : NothingShown[r] > 0 => Newer(r, s)
      BY <3>1, <3>2, <3>3
    <3>5. then' \subseteq Terminal /\ HistoryTypeOK
      BY <3>1
    <3> QED BY <3>1, <3>2, <3>4, <3>5, LoadStep
  <2>2. CASE shown # NothingShown
    <3>1. UNCHANGED <<released, second, shown, nextRow, more, then>>
      BY <1>3, <2>2 DEF Opens
    <3> QED BY <3>1 DEF HistoryTypeOK, CursorDivides, PagesMissNothing, Terminal, Newer, Older
  <2> QED BY <2>1, <2>2
<1>4. CASE LoadsMore
  <2>1. more /\ Load(shown, nextRow) /\ UNCHANGED <<released, second, then>>
    BY <1>4 DEF LoadsMore
  <2>2. nextRow \in 1 .. MaxId /\ nextRow # 0
    BY <2>1 DEF CursorDivides, Terminal
  <2>3. \A r \in Rows(nextRow) : r \in Terminal /\ Older(r, nextRow)
    BY <2>2 DEF Rows
  <2>4. \A r \in 1 .. MaxId : shown[r] <= 1 /\ (shown[r] > 0 => r \in Terminal \ Rows(nextRow))
    BY <2>1, <2>2, <2>3 DEF CursorDivides, PagesMissNothing, HistoryTypeOK, Older, Newer
  <2>5. \A r \in then' : shown[r] = 0 => r \in Rows(nextRow)
    BY <2>1, <2>2 DEF CursorDivides, HistoryTypeOK, Rows, Terminal
  <2>6. \A r \in 1 .. MaxId, s \in Rows(nextRow) : shown[r] > 0 => Newer(r, s)
    BY <2>1, <2>2, <2>3 DEF CursorDivides, HistoryTypeOK, Older, Newer, Terminal
  <2> QED BY <2>1, <2>4, <2>5, <2>6, LoadStep DEF HistoryTypeOK
<1> QED BY <1>1, <1>2, <1>3, <1>4 DEF HistoryNext

\* Paging to the end lists every request that was released when the drawer was
\* filled, and none twice (read_resource_history_page, load_history_page),
\* whatever is released in between, however many in one second.
THEOREM HistoryCorrect == HistorySpec => []PagesMissNothing
<1>1. HistoryInit => HistoryInv
  BY HistoryInitInv
<1>2. HistoryInv /\ [HistoryNext]_historyVars => HistoryInv'
  BY HistoryStep
<1>3. HistoryInv => PagesMissNothing
  BY DEF HistoryInv
<1> QED BY <1>1, <1>2, <1>3, PTL DEF HistorySpec

===============================================================================
