------------------------------- MODULE LaneLock -------------------------------
(***************************************************************************)
(* cdp_lane_lock.py for one role: wrappers poll an advisory lock on the    *)
(* lane, write a sidecar naming the holder, start a command tree, reap it  *)
(* and unlock.  On Windows the tree joins a job that dies with the         *)
(* wrapper; on POSIX it is a session of its own that outlives a killed     *)
(* wrapper.  A status probe takes the lock for a moment.                   *)
(***************************************************************************)
EXTENDS Naturals

CONSTANTS Lanes,      \* wrapper calls for the role
          Unlocked, Probe \* the lock is free, is held by a status probe

ASSUME LaneAssumption == Unlocked \notin Lanes /\ Probe \notin Lanes

VARIABLES
  posix,    \* the platform
  lock,     \* the owner of the byte-range lock
  holder,   \* the wrapper the sidecar names, or Free
  stage,    \* [Lanes -> where the wrapper stands]
  family,     \* [Lanes -> "none", "unowned" (started, not yet registered), "owned", "gone"]
  forced    \* wrappers killed outright, or that gave up on a tree nothing kills

laneVars == <<posix, lock, holder, stage, family, forced>>

Move(w, to) == stage' = [stage EXCEPT ![w] = to]

LaneInit == /\ posix \in BOOLEAN
            /\ lock = Unlocked /\ holder = Unlocked /\ forced = {}
            /\ stage = [w \in Lanes |-> "poll"] /\ family = [w \in Lanes |-> "none"]

\* The poll loop: the lock, or LANE_BUSY at the deadline.
TryLock(w) ==
  /\ stage[w] = "poll"
  /\ IF lock = Unlocked THEN lock' = w /\ Move(w, "hold") ELSE Move(w, "done") /\ UNCHANGED lock
  /\ UNCHANGED <<posix, holder, family, forced>>

\* A failed write or removal of the sidecar is ignored.
WriteHolder(w) ==
  /\ stage[w] = "hold" /\ Move(w, "start")
  /\ holder' \in {holder, w}
  /\ UNCHANGED <<posix, lock, family, forced>>

StartTree(w) ==
  /\ stage[w] = "start"
  /\ \/ Move(w, "window") /\ family' = [family EXCEPT ![w] = "unowned"]
     \/ Move(w, "reap") /\ UNCHANGED family
  /\ UNCHANGED <<posix, lock, holder, forced>>

\* The process group is known, or the job assigned; a refused assignment kills
\* the process, not what it has started already.
OwnTree(w) ==
  /\ stage[w] = "window"
  /\ \/ Move(w, "wait") /\ family' = [family EXCEPT ![w] = "owned"]
     \/ ~posix /\ Move(w, "reap") /\ family' \in {family, [family EXCEPT ![w] = "gone"]}
  /\ UNCHANGED <<posix, lock, holder, forced>>

\* The command returns, perhaps before its descendants, or SIGTERM or an
\* interrupt arrives.
Interrupted(w) ==
  /\ stage[w] \in {"window", "wait"} /\ Move(w, "reap")
  /\ UNCHANGED <<posix, lock, holder, family, forced>>

FaultyReap(w) ==
  /\ stage[w] = "reap" /\ Move(w, "remove")
  /\ UNCHANGED <<posix, lock, holder, family, forced>>

\* terminate_then_kill: two, then five seconds; closing the job ends the rest.
Reap(w) ==
  /\ stage[w] = "reap" /\ Move(w, "remove")
  /\ \/ /\ family' = [family EXCEPT ![w] = IF @ = "owned" THEN "gone" ELSE @]
        /\ UNCHANGED forced
     \/ posix /\ family[w] = "owned" /\ forced' = forced \cup {w} /\ UNCHANGED family
  /\ UNCHANGED <<posix, lock, holder>>

RemoveHolder(w) ==
  /\ stage[w] = "remove" /\ Move(w, "unlock")
  /\ holder' \in {holder, Unlocked}
  /\ UNCHANGED <<posix, lock, family, forced>>

Unlock(w) ==
  /\ stage[w] = "unlock" /\ lock' = Unlocked /\ Move(w, "done")
  /\ UNCHANGED <<posix, holder, family, forced>>

Killed(w) ==
  /\ stage[w] \notin {"poll", "done"} /\ Move(w, "done")
  /\ lock' = Unlocked /\ forced' = forced \cup {w}
  /\ family' = [family EXCEPT ![w] = IF @ = "owned" /\ ~posix THEN "gone" ELSE @]
  /\ UNCHANGED <<posix, holder>>

TreeEnds(w) ==
  /\ family[w] \in {"unowned", "owned"} /\ family' = [family EXCEPT ![w] = "gone"]
  /\ UNCHANGED <<posix, lock, holder, stage, forced>>

\* --status locks and unlocks the lane of every role.
ProbeLane == /\ \/ lock = Unlocked /\ lock' = Probe
                \/ lock = Probe /\ lock' = Unlocked
             /\ UNCHANGED <<posix, holder, stage, family, forced>>

LaneNext == ProbeLane \/ \E w \in Lanes :
  \/ TryLock(w) \/ WriteHolder(w) \/ StartTree(w) \/ OwnTree(w) \/ Interrupted(w)
  \/ Reap(w) \/ RemoveHolder(w) \/ Unlock(w) \/ Killed(w) \/ TreeEnds(w)

-------------------------------------------------------------------------------
(* Properties *)

\* A command tree runs without the lock of its lane only in the documented
\* window between Popen and its registration, or on POSIX when its wrapper was
\* killed outright or gave up killing it.
TreeUnderLock ==
  \A w \in Lanes : family[w] = "owned" /\ lock # w => posix /\ w \in forced

===============================================================================
