------------------------------ MODULE StateReaper ------------------------------
(***************************************************************************)
(* The files a session keeps in the state directory, the router that makes *)
(* them at SessionStart, and the reaper that every other session's start   *)
(* runs over them: a scan for old files of sessions whose transcript is    *)
(* old, then, file by file, a second look and an unlink, until the time    *)
(* budget is spent; a cursor makes the next pass go on after the last file.*)
(* One session and its files; one pass at a time.                          *)
(***************************************************************************)
EXTENDS Naturals, FiniteSets

Files == {"binding", "plan", "verdict"}
\* The reaper's order: oldest first.
Rank  == [f \in Files |-> CASE f = "binding" -> 1 [] f = "plan" -> 2 [] f = "verdict" -> 3]

VARIABLES
  stored,    \* [Files -> "none", "new", "old" (past retention), "ancient" (past the outer bound)]
  consumed,  \* the verdict carries consumed_at
  active,    \* the session's transcript is younger than the retention
  pinned,    \* a file that cannot be unlinked, or {}
  window,    \* candidates of this pass not yet examined
  cached,    \* what this pass knows of the session: "unknown", "live", "dead"
  target,    \* {f} between the second look and the unlink
  last,      \* rank of the last file examined in this pass, or 0
  cursor,    \* rank the stored cursor names, or 0
  changed    \* history: the session wrote or started since the pass looked at it

reaperVars  == <<stored, consumed, active, pinned, window, cached, target, last, cursor, changed>>
passVars    == <<window, cached, target, last, cursor>>
sessionVars == <<stored, consumed, active, changed>>

Put(f, age) == stored' = [stored EXCEPT ![f] = age]

ReaperInit ==
  /\ stored = [f \in Files |-> "none"] /\ consumed = FALSE /\ active = FALSE
  /\ pinned \in {{}} \cup {{f} : f \in Files}
  /\ window = {} /\ cached = "unknown" /\ target = {} /\ last = 0 /\ cursor = 0
  /\ changed = FALSE

\* SessionStart: a session without a plan gets binding and plan; the binding is
\* written once, and a session resumed with its plan does not get it again.
SessionStarts ==
  /\ active' = TRUE /\ changed' = TRUE
  /\ IF stored["plan"] = "none"
     THEN stored' = [stored EXCEPT !["plan"] = "new",
                               !["binding"] = IF @ = "none" THEN "new" ELSE @]
     ELSE UNCHANGED stored
  /\ UNCHANGED <<consumed, pinned, passVars>>

\* The plan is updated; at the end of the session, or of a turn, a verdict is written.
SessionWrites ==
  /\ active /\ changed' = TRUE
  /\ \/ stored["plan"] # "none" /\ Put("plan", "new") /\ UNCHANGED consumed
     \/ Put("verdict", "new") /\ consumed' = FALSE
  /\ UNCHANGED <<active, pinned, passVars>>

\* The curator marks the verdict it has read: a new file with the old created_at,
\* by which the outer bound goes.
Consume ==
  /\ stored["verdict"] # "none" /\ consumed' = TRUE
  /\ IF stored["verdict"] = "ancient" THEN UNCHANGED stored ELSE Put("verdict", "new")
  /\ UNCHANGED <<active, pinned, changed, passVars>>

TimePasses ==
  /\ \/ \E f \in Files : stored[f] = "new" /\ Put(f, "old") /\ UNCHANGED active
     \/ stored["verdict"] = "old" /\ Put("verdict", "ancient") /\ UNCHANGED active
     \/ /\ active /\ stored["plan"] # "new" /\ stored["binding"] # "new"
        /\ active' = FALSE /\ UNCHANGED stored
  /\ UNCHANGED <<consumed, pinned, changed, passVars>>

-------------------------------------------------------------------------------
FaultyKnownLive == FALSE

\* The session is live when its binding names a transcript that is fresh.
KnownLive == stored["binding"] # "none" /\ active

HardExpired(f) == f = "verdict" /\ stored[f] = "ancient"
Delete(f) == \/ HardExpired(f)
             \/ f # "verdict" /\ stored[f] = "old"
             \/ f = "verdict" /\ consumed /\ stored[f] = "old"

Reapable == {f \in Files : Delete(f) /\ (HardExpired(f) \/ ~KnownLive)}

Scan ==
  /\ window = {} /\ target = {} /\ last = 0
  /\ Reapable # {} /\ window' = Reapable
  /\ cached' = "unknown"
  /\ UNCHANGED <<sessionVars, pinned, target, last, cursor>>

FaultyIsNext(f) == \A g \in window : Rank[f] <= Rank[g]

\* Reapable after the cursor come first, then the window wraps.
IsNext(f) == \A g \in window :
  IF Rank[f] > cursor THEN Rank[g] > cursor => Rank[f] <= Rank[g]
                      ELSE Rank[g] <= cursor /\ Rank[f] <= Rank[g]

\* The second look: liveness is read once per pass and session, the age is that
\* of the scan, the content of a verdict is read again.
Examine(f) ==
  /\ target = {} /\ f \in window /\ IsNext(f)
  /\ window' = window \ {f} /\ last' = Rank[f]
  /\ cached' = IF cached # "unknown" THEN cached ELSE IF KnownLive THEN "live" ELSE "dead"
  /\ changed' = IF cached = "unknown" THEN FALSE ELSE changed
  /\ target' = IF /\ cached' = "live" => HardExpired(f)
                  /\ f = "verdict" => HardExpired(f) \/ consumed
               THEN {f} ELSE {}
  /\ UNCHANGED <<stored, consumed, active, pinned, cursor>>

UnlinkFile(f) ==
  /\ target = {f} /\ target' = {}
  /\ IF f \in pinned THEN UNCHANGED stored ELSE Put(f, "none")
  /\ UNCHANGED <<consumed, active, pinned, changed, window, cached, last, cursor>>

\* The window is done, or the budget is spent after at least one stored.
EndPass ==
  /\ last # 0 /\ target = {}
  /\ cursor' = last /\ last' = 0 /\ window' = {}
  /\ UNCHANGED <<sessionVars, pinned, cached, target>>

Reaper == Scan \/ EndPass \/ \E f \in Files : Examine(f) \/ UnlinkFile(f)

ReaperNext == SessionStarts \/ SessionWrites \/ Consume \/ TimePasses \/ Reaper

\* Sessions go on starting, and each start runs a pass to its end.
ReaperFairness == WF_reaperVars(Reaper)

-------------------------------------------------------------------------------
(* Properties *)

\* What a live session needs is unlinked only if the session came back after the
\* pass had looked at it, or had lost its binding to an earlier pass; a verdict
\* nobody has read only past the outer bound, or when it replaced a read one.
ReapsOnlyAbandoned ==
  [][\A f \in Files : stored[f] # "none" /\ stored'[f] = "none" =>
       IF f = "verdict" THEN consumed \/ stored[f] = "ancient" \/ changed
                        ELSE active => changed \/ stored["binding"] = "none"]_reaperVars

\* No old file of an abandoned session waits for ever behind one that cannot be
\* unlinked.
OldFilesReaped ==
  \A f \in Files : (f \notin pinned /\ f \in Reapable) ~> (f \notin Reapable)
===============================================================================
