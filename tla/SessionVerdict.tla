--------------------------- MODULE SessionVerdict ---------------------------
(***************************************************************************)
(* The verdict file of one session and the lock file beside it             *)
(* (src/scripts/session_lifecycle.py).  The SessionEnd hook writes the     *)
(* verdict; the SessionStart hooks of later sessions surface it (they      *)
(* stamp surfaced_at); the curator renders it and then consumes it         *)
(* (consumed_at).  Every hook is a process of its own.                     *)
(*                                                                         *)
(* Surfacing and consuming are read-modify-write cycles under the lock     *)
(* file; SessionEnd replaces the file without it.  Each step below is one  *)
(* system call or one atomic replace, and the processes interleave between *)
(* any two.  A lock file older than _VERDICT_LOCK_STALE_S may be removed   *)
(* by whoever waits for it.                                                *)
(*                                                                         *)
(* One file is followed: locks and verdicts are per session, and which of  *)
(* several pending verdicts is the newest is the environment's business.   *)
(* A stamp is the process that set it, instead of a time.  Left out: the   *)
(* reaper (files older than a week), another repository's verdicts, the    *)
(* verdict's contents, and I/O errors (a lock file that cannot be removed  *)
(* stays, as a killed process's does).                                     *)
(***************************************************************************)
EXTENDS Naturals

CONSTANTS
    Client,       \* hook and curator processes
    MaxEnds,      \* bound on the SessionEnds of this session (it may be resumed)
    MaxCrashes,   \* bound on the processes killed halfway
    Nobody,       \* no stamp, no owner
    Killed        \* the owner of a lock file left behind

ASSUME VerdictAssumption ==
    /\ Nobody \notin Client /\ Killed \notin Client \cup {Nobody}
    /\ MaxEnds \in Nat
    /\ MaxCrashes \in Nat

VARIABLES
    file,       \* the verdict: created (which SessionEnd, 0: no file yet) and stamps
    lock,       \* the lock file: whose token it holds, and whether it is stale
    call,       \* what each process is in the middle of
    ends,       \* SessionEnds so far
    crashes,    \* processes killed so far
    expired     \* the kinds of lock that have outlived their five seconds (history)

vars == <<file, lock, call, ends, crashes, expired>>

----------------------------------------------------------------------------
Stamp == Client \cup {Nobody}
Verdict == [created : 0 .. MaxEnds, surfaced : Stamp, consumed : Stamp]

\* The verdict as SessionEnd writes it.
Fresh(n) == [created |-> n, surfaced |-> Nobody, consumed |-> Nobody]

Step == {"idle", "expect", "lock", "steal", "read", "write", "release", "unlink"}

\* One call of surface_pending_verdict or consume_pending_verdict: its next step,
\* the created_at it must find (consume), and the payload it is about to write.
Call == [op : {"surface", "consume"}, at : Step, expected : 0 .. MaxEnds, payload : Verdict]
Idle == [op |-> "surface", at |-> "idle", expected |-> 0, payload |-> Fresh(0)]

Free == [owner |-> Nobody, stale |-> FALSE]
Lock == [owner : Client \cup {Nobody, Killed}, stale : BOOLEAN]

\* There is a verdict, and no curator has consumed it.
Pending == file.created > 0 /\ file.consumed = Nobody

\* Mutant: created_at is not compared, so whatever is pending will do.
FaultyWanted(c) == Pending

\* The same for a caller that wants the verdict it has rendered and no other.
Wanted(c) ==
    /\ Pending
    /\ call[c].op = "consume" => file.created = call[c].expected

Goto(c, step) == call' = [call EXCEPT ![c].at = step]
Return(c) == call' = [call EXCEPT ![c] = Idle]

Init ==
    /\ file = Fresh(0)
    /\ lock = Free
    /\ call = [c \in Client |-> Idle]
    /\ ends = 0
    /\ crashes = 0
    /\ expired = {}

----------------------------------------------------------------------------
(* The session                                                             *)

\* The session ends, perhaps not for the first time: its verdict is written anew,
\* with no stamps, whoever is reading or writing the old one.
SessionEnd ==
    /\ ends < MaxEnds
    /\ ends' = ends + 1
    /\ file' = Fresh(ends + 1)
    /\ UNCHANGED <<lock, call, crashes, expired>>

----------------------------------------------------------------------------
(* Finding a verdict                                                       *)

\* A session starts: the scan of the state directory finds this verdict pending.
Surface(c) ==
    /\ call[c].at = "idle" /\ Pending
    /\ Goto(c, "lock")
    /\ UNCHANGED <<file, lock, ends, crashes, expired>>

\* The curator looks up the pending verdict and renders it.
Render(c) ==
    /\ call[c].at = "idle" /\ Pending
    /\ call' = [call EXCEPT ![c] = [Idle EXCEPT !.op = "consume", !.at = "expect",
                                                !.expected = file.created]]
    /\ UNCHANGED <<file, lock, ends, crashes, expired>>

\* It then asks to consume that very verdict: a look before the lock.
Expect(c) ==
    /\ call[c].at = "expect"
    /\ IF Wanted(c) THEN Goto(c, "lock") ELSE Return(c)
    /\ UNCHANGED <<file, lock, ends, crashes, expired>>

----------------------------------------------------------------------------
(* The lock file                                                           *)

\* open(O_CREAT | O_EXCL), and the token is written.
Acquire(c) ==
    /\ call[c].at = "lock" /\ lock = Free
    /\ lock' = [owner |-> c, stale |-> FALSE]
    /\ Goto(c, "read")
    /\ UNCHANGED <<file, ends, crashes, expired>>

\* Mutant: only the caller's own token is ever removed.
FaultyFindStale(c) ==
    /\ call[c].at = "lock" /\ lock.stale /\ lock.owner = c
    /\ Goto(c, "steal")
    /\ UNCHANGED <<file, lock, ends, crashes, expired>>

\* The file exists, and stat says that it is stale.
FindStale(c) ==
    /\ call[c].at = "lock" /\ lock.stale
    /\ Goto(c, "steal")
    /\ UNCHANGED <<file, lock, ends, crashes, expired>>

\* It is removed by name -- whatever file has that name by now -- and the loop
\* goes round again, as it does when there is no file any more.
Steal(c) ==
    /\ call[c].at = "steal"
    /\ lock' = Free
    /\ Goto(c, "lock")
    /\ UNCHANGED <<file, ends, crashes, expired>>

\* The lock is held and the deadline is over: the caller changes nothing.
GiveUp(c) ==
    /\ call[c].at = "lock" /\ lock # Free /\ ~lock.stale
    /\ Return(c)
    /\ UNCHANGED <<file, lock, ends, crashes, expired>>

\* On the way out the token in the file is read...
Release(c) ==
    /\ call[c].at = "release"
    /\ IF lock.owner = c THEN Goto(c, "unlink") ELSE Return(c)
    /\ UNCHANGED <<file, lock, ends, crashes, expired>>

\* ... and, if it was this caller's, the file is removed, by name.
Unlink(c) ==
    /\ call[c].at = "unlink"
    /\ lock' = Free
    /\ Return(c)
    /\ UNCHANGED <<file, ends, crashes, expired>>

----------------------------------------------------------------------------
(* The read-modify-write cycle                                             *)

\* The verdict as this caller would write it back.
Stamped(c) ==
    IF call[c].op = "surface"
      THEN [file EXCEPT !.surfaced = c]
      ELSE [file EXCEPT !.consumed = c]

\* Mutant: the verdict was checked before the lock and is not checked again.
FaultyRead(c) ==
    /\ call[c].at = "read"
    /\ call' = [call EXCEPT ![c].at = "write", ![c].payload = Stamped(c)]
    /\ UNCHANGED <<file, lock, ends, crashes, expired>>

\* The verdict is read again under the lock.  A consumed or a different one is left
\* alone, and so is one that has been surfaced before.
Read(c) ==
    /\ call[c].at = "read"
    /\ IF Wanted(c) /\ (call[c].op = "surface" => file.surfaced = Nobody)
         THEN call' = [call EXCEPT ![c].at = "write", ![c].payload = Stamped(c)]
         ELSE Goto(c, "release")
    /\ UNCHANGED <<file, lock, ends, crashes, expired>>

\* The whole file is replaced by what was read, with the stamp.
Write(c) ==
    /\ call[c].at = "write"
    /\ file' = call[c].payload
    /\ Goto(c, "release")
    /\ UNCHANGED <<lock, ends, crashes, expired>>

----------------------------------------------------------------------------
(* Time and the host                                                       *)

\* Five seconds after its creation a lock file is stale, held or left behind.
GoesStale ==
    /\ lock # Free /\ ~lock.stale
    /\ lock' = [lock EXCEPT !.stale = TRUE]
    /\ expired' = expired \cup {IF lock.owner = Killed THEN "LEFT" ELSE "HELD"}
    /\ UNCHANGED <<file, call, ends, crashes>>

\* A process is killed (a hook that overruns its time is); its lock stays.
Kill(c) ==
    /\ crashes < MaxCrashes /\ call[c].at # "idle"
    /\ crashes' = crashes + 1
    /\ lock' = IF lock.owner = c THEN [lock EXCEPT !.owner = Killed] ELSE lock
    /\ Return(c)
    /\ UNCHANGED <<file, ends, expired>>

\* A process started is a process that goes on.
Continue(c) ==
    \/ Expect(c)
    \/ Acquire(c) \/ FindStale(c) \/ Steal(c) \/ GiveUp(c)
    \/ Read(c) \/ Write(c)
    \/ Release(c) \/ Unlink(c)

Next ==
    \/ SessionEnd \/ GoesStale
    \/ \E c \in Client : Surface(c) \/ Render(c) \/ Continue(c) \/ Kill(c)

Spec == Init /\ [][Next]_vars

\* The host runs its processes, and time passes.  No session has to start.
FairSpec ==
    /\ Spec
    /\ WF_vars(GoesStale)
    /\ \A c \in Client : WF_vars(Continue(c))

----------------------------------------------------------------------------
(* Properties                                                              *)

TypeOK ==
    /\ file \in Verdict
    /\ lock \in Lock
    /\ call \in [Client -> Call]
    /\ ends \in 0 .. MaxEnds
    /\ crashes \in 0 .. MaxCrashes
    /\ expired \subseteq {"LEFT", "HELD"}

\* Between taking the lock and giving it back.
Inside(c) == call[c].at \in {"read", "write", "release", "unlink"}

\* "Serialize one verdict's read-modify-write cycle across hook processes"
\* (_verdict_lock): until a lock expires, one process at a time is inside, even
\* when processes are killed halfway.
OneInside == expired = {} => \A c, d \in Client : Inside(c) /\ Inside(d) => c = d

\* The stamps on a verdict are not taken off or replaced by this step.
KeepsStamps ==
    file'.created = file.created =>
        /\ file.consumed # Nobody => file'.consumed = file.consumed
        /\ file.surfaced # Nobody => file'.surfaced = file.surfaced

\* consumed_at is "stamped, exactly once" (design/plans/
\* 2026-07-25_session_lifecycle_and_hook_hardening_r1.md:640): until a lock expires,
\* stamps are final, however hooks, curators and SessionEnds overlap.
StampedOnce == [][expired = {} => KeepsStamps]_vars

\* A curator stamps the verdict it has rendered, never the one of a later
\* SessionEnd that nobody has read: expected_created_at, checked twice.  Locks may
\* expire here.
ConsumedWasRendered ==
    [][\A c \in Client :
          file'.consumed = c /\ file.consumed # c => file'.created = call[c].expected]_vars

\* A lock left behind by a killed process does not shut the later ones out for ever,
\* provided that later ones come.
LeftLockIsRemoved ==
    []<>(\E c \in Client : call[c].at = "lock")
        => (lock.owner = Killed ~> lock.owner # Killed)

\* "a stale surfaced_at write cannot erase a concurrent consumed_at" (the same plan,
\* line 1644), although locks left behind by killed processes expire, as they must.
StampsAreFinal == [][expired \subseteq {"LEFT"} => KeepsStamps]_vars
=============================================================================
