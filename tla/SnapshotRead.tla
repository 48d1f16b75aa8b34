------------------------------ MODULE SnapshotRead ------------------------------
(***************************************************************************)
(* The read-only copy of the store (conductor_store.py): the database and  *)
(* its log are copied one after the other, beside writers that know        *)
(* nothing of it, and the copy counts when their signatures before and     *)
(* after agree.  SQLite is external: a commit appends pages to the log, a  *)
(* checkpoint moves them to the database, and the next commit then starts  *)
(* the log again.  A signature is a size and a time of limited resolution. *)
(***************************************************************************)
EXTENDS Naturals

CONSTANTS MaxWrites,  \* bound on the commits to the store
          Attempts     \* attempts of one read (3 in the code)

Pages == {"rows", "leases"}

VARIABLES
  main,     \* [Pages -> version] in the database file
  wal,      \* [Pages -> version] in the log, 0 for none
  commits,  \* commits so far
  moving,   \* pages a running checkpoint has still to move
  settled,  \* the whole log has been moved: the next commit restarts it
  reused,   \* the log was restarted: appending need not make it longer
  hot,      \* files written within the present tick of the clock
  reader,   \* where the copy stands: "off", a page, "log", "after", "taken", "failed"
  copy,     \* [Pages -> version] copied
  differs,    \* the signatures differ from those taken before the copy
  attempt,
  current,  \* history: the states the store was in since that look
  blurred   \* history: a write since that look left its signature as it was

fileVars == <<main, wal, commits, moving, settled, reused>>
copyVars == <<reader, copy, attempt>>
readVars == <<fileVars, hot, copyVars, differs, current, blurred>>

Overlay(m, w) == [p \in Pages |-> IF w[p] = 0 THEN m[p] ELSE w[p]]
Truth   == Overlay(main, wal)
Empty   == [p \in Pages |-> 0]

ReadInit ==
  /\ main = Empty /\ wal = Empty /\ commits = 0 /\ moving = {} /\ settled = FALSE
  /\ reused = FALSE /\ hot = {} /\ reader = "off" /\ copy = Empty /\ differs = FALSE
  /\ attempt = 1 /\ current = {} /\ blurred = FALSE

\* A write shows in the signature unless another in the same tick came before it.
Writes(f, grows) ==
  LET shows == grows \/ f \notin hot IN
  /\ hot' = hot \cup {f}
  /\ IF reader = "off" THEN UNCHANGED <<differs, blurred, current>>
     ELSE /\ differs' = (differs \/ shows) /\ blurred' = (blurred \/ ~shows)
          /\ current' = current \cup {Overlay(main', wal')}

Commit ==
  /\ commits < MaxWrites /\ commits' = commits + 1
  /\ \E ps \in (SUBSET Pages) \ {{}} :
       wal' = [p \in Pages |-> IF p \in ps THEN commits' ELSE IF settled THEN 0 ELSE wal[p]]
  /\ reused' = (reused \/ settled) /\ settled' = FALSE /\ moving' = {} /\ UNCHANGED main
  /\ Writes("wal", ~reused')
  /\ UNCHANGED copyVars

Checkpoint ==
  \/ /\ moving = {} /\ ~settled /\ wal # Empty /\ moving' = Pages
     /\ UNCHANGED <<main, wal, commits, settled, reused, hot, copyVars, differs, current, blurred>>
  \/ \E p \in moving :
       /\ main' = [main EXCEPT ![p] = Truth[p]] /\ moving' = moving \ {p}
       /\ settled' = (moving' = {}) /\ UNCHANGED <<wal, commits, reused>>
       /\ Writes("db", FALSE)
       /\ UNCHANGED copyVars

ClockTicks == hot # {} /\ hot' = {} /\ UNCHANGED <<fileVars, copyVars, differs, current, blurred>>

LookBefore ==
  /\ reader \in {"off", "again"} /\ reader' = "rows"
  /\ differs' = FALSE /\ current' = {Truth} /\ blurred' = FALSE
  /\ UNCHANGED <<fileVars, hot, copy, attempt>>

\* The database, page by page, then the log over it.
CopyFiles ==
  /\ \/ /\ reader \in Pages /\ copy' = [copy EXCEPT ![reader] = main[reader]]
        /\ reader' = IF reader = "rows" THEN "leases" ELSE "log"
     \/ reader = "log" /\ copy' = Overlay(copy, wal) /\ reader' = "after"
  /\ UNCHANGED <<fileVars, hot, differs, attempt, current, blurred>>

Retry == IF attempt < Attempts THEN reader' = "again" /\ attempt' = attempt + 1
                               ELSE reader' = "failed" /\ UNCHANGED attempt

CopyFails == /\ reader \in Pages \cup {"log"} /\ Retry
             /\ UNCHANGED <<fileVars, hot, copy, differs, current, blurred>>

FaultySame == TRUE

\* before == after.
Same == ~differs

LookAfter == /\ reader = "after" /\ IF Same THEN reader' = "taken" /\ UNCHANGED attempt ELSE Retry
             /\ UNCHANGED <<fileVars, hot, copy, differs, current, blurred>>

ReadNext == \/ Commit \/ Checkpoint \/ ClockTicks
            \/ LookBefore \/ CopyFiles \/ CopyFails \/ LookAfter

-------------------------------------------------------------------------------
(* Properties *)

\* A copy that is taken is a state the store was in while it was being copied,
\* however commits and checkpoints fall among the copies of the two files, or a
\* write left no trace in a signature, another in the same tick being before it.
CopyIsConsistent == reader = "taken" => copy \in current \/ blurred
===============================================================================
