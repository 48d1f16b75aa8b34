---------------------------- MODULE PytestAdapter ----------------------------
(***************************************************************************)
(* run_bounded_pytest: the wrapper that asks for the capacity-one gate,    *)
(* starts pytest, records its process, renews the lease from a sequence of *)
(* its own, and releases or fences its request on the way out.  A wrapper  *)
(* started from inside a pytest run inherits the lease of the run.  The    *)
(* rows are those of HostResources, cut down to one pool without slots.    *)
(***************************************************************************)
EXTENDS Naturals, FiniteSets

CONSTANTS Wrappers,   \* calls of run_bounded_pytest
          NoWrapper,
          MaxBeats    \* bound on the heartbeats of one wrapper

ASSUME PytestAssumption == NoWrapper \notin Wrappers /\ MaxBeats \in Nat \ {0}

VARIABLES
  row,       \* [Wrappers -> state of the request row]
  held,      \* [Wrappers -> its lease row: "NONE", "FRESH", "EXPIRED"]
  seqNo,     \* [Wrappers -> heartbeat_sequence of that row]
  from,      \* [Wrappers -> the wrapper whose lease it inherited]
  known,     \* requests whose pytest process is recorded on their row
  suite,     \* [Wrappers -> "none", "running", "gone"], the pytest process
  at,        \* [Wrappers -> where the wrapper stands]
  beats,     \* [Wrappers -> its local sequence]
  why        \* [Wrappers -> what the way out has learned]

pytestVars == <<row, held, seqNo, from, known, suite, at, beats, why>>
gate == <<row, held, from>>

LeaseOf(w)   == IF from[w] = NoWrapper THEN w ELSE from[w]
HoldsGate(s) == {w \in Wrappers : s[w] \in {"ACTIVE", "RECOVERY_REQUIRED"}}
Inheritors(w) == {c \in Wrappers : from[c] = w /\ row[c] = "INHERITED"}
LeaseIsLive(l) == row[l] = "ACTIVE" /\ held[l] = "FRESH"
To(w, to)  == at' = [at EXCEPT ![w] = to]

\* A row has left the gate: the head of the queue, whichever it is, gets a lease.
Promoted(s) ==
  LET waiting == {w \in Wrappers : s[w] = "QUEUED"} IN
  IF HoldsGate(s) # {} \/ waiting = {}
  THEN row' = s /\ UNCHANGED <<held, seqNo>>
  ELSE \E w \in waiting : /\ row' = [s EXCEPT ![w] = "ACTIVE"]
                          /\ held' = [held EXCEPT ![w] = "FRESH"]
                          /\ seqNo' = [seqNo EXCEPT ![w] = 1]

PytestInit ==
  /\ row = [w \in Wrappers |-> "NONE"] /\ held = [w \in Wrappers |-> "NONE"]
  /\ seqNo = [w \in Wrappers |-> 0] /\ from = [w \in Wrappers |-> NoWrapper]
  /\ known = {} /\ suite = [w \in Wrappers |-> "none"]
  /\ at = [w \in Wrappers |-> "idle"] /\ beats = [w \in Wrappers |-> 1]
  /\ why = [w \in Wrappers |-> "none"]

\* request() for a wrapper without a lease to inherit, or with one that is no
\* longer live.  A queued answer ends the call; so does every replay of it, even
\* after the row has been promoted.
Ask(w) ==
  /\ at[w] = "idle"
  /\ IF HoldsGate(row) = {}
     THEN /\ row' = [row EXCEPT ![w] = "ACTIVE"]
          /\ held' = [held EXCEPT ![w] = "FRESH"]
          /\ seqNo' = [seqNo EXCEPT ![w] = 1]
          /\ To(w, "spawn")
     ELSE /\ row' = [row EXCEPT ![w] = "QUEUED"]
          /\ To(w, "done") /\ UNCHANGED <<held, seqNo>>
  /\ UNCHANGED <<from, known, suite, beats, why>>

\* request() from inside the pytest run of l, whose lease is in the environment.
AskInside(w, l) ==
  /\ at[w] = "idle" /\ w # l /\ suite[l] = "running" /\ LeaseIsLive(LeaseOf(l))
  /\ IF Inheritors(LeaseOf(l)) = {}
     THEN /\ row' = [row EXCEPT ![w] = "INHERITED"]
          /\ from' = [from EXCEPT ![w] = LeaseOf(l)]
          /\ To(w, "spawn")
     ELSE /\ row' = [row EXCEPT ![w] = "QUARANTINED"]
          /\ To(w, "done") /\ UNCHANGED from
  /\ UNCHANGED <<held, seqNo, known, suite, beats, why>>

\* Popen, and the failure of Popen.
Spawn(w) ==
  /\ at[w] = "spawn"
  /\ \/ suite' = [suite EXCEPT ![w] = "running"] /\ To(w, "record")
     \/ UNCHANGED suite /\ To(w, "leave")
  /\ UNCHANGED <<gate, seqNo, known, beats, why>>

\* The process identity is written to the lease or, inherited, to the request;
\* a failed write leaves through finally with pytest running, and one that finds
\* the row already swept protects nothing.
Record(w) ==
  /\ at[w] = "record"
  /\ \/ /\ known' = IF row[w] = "RELEASED" THEN known ELSE known \cup {w}
        /\ To(w, "wait")
     \/ UNCHANGED known /\ To(w, "leave")
  /\ UNCHANGED <<gate, seqNo, suite, beats, why>>

PytestExits(w) ==
  /\ suite[w] = "running"
  /\ suite' = [suite EXCEPT ![w] = "gone"]
  /\ UNCHANGED <<gate, seqNo, known, at, beats, why>>

Returned(w) ==
  /\ at[w] = "wait" /\ suite[w] = "gone"
  /\ To(w, "leave")
  /\ UNCHANGED <<gate, seqNo, known, suite, beats, why>>

\* Stopping pytest: its end is observed, or it is left in doubt.
Stop(w, reason) ==
  /\ \/ suite' = [suite EXCEPT ![w] = "gone"] /\ why' = [why EXCEPT ![w] = reason]
     \/ UNCHANGED suite /\ why' = [why EXCEPT ![w] = "ambiguous"]
  /\ To(w, "leave")

TimesOut(w) ==
  /\ at[w] = "wait" /\ suite[w] = "running"
  /\ Stop(w, "timeout")
  /\ UNCHANGED <<gate, seqNo, known, beats>>

\* The heartbeat of HostResources: accepted by a live lease and only with a
\* sequence above the recorded one.  Any refusal stops pytest.
BeatAccepted(w) == LeaseIsLive(LeaseOf(w)) /\ beats[w] + 1 > seqNo[LeaseOf(w)]

Beat(w) ==
  /\ at[w] = "wait" /\ suite[w] = "running" /\ beats[w] < MaxBeats
  /\ beats' = [beats EXCEPT ![w] = @ + 1]
  /\ IF BeatAccepted(w)
     THEN /\ seqNo' = [seqNo EXCEPT ![LeaseOf(w)] = beats[w] + 1]
          /\ UNCHANGED <<suite, at, why>>
     ELSE Stop(w, "lost") /\ UNCHANGED seqNo
  /\ UNCHANGED <<gate, known>>

\* release: refused for a fenced row and for a parent with an inheritor.
MayRelease(w) == /\ row[w] \in {"ACTIVE", "INHERITED"}
                 /\ row[w] = "ACTIVE" => Inheritors(w) = {}

\* finally.
FaultyLeave(w) ==
  /\ at[w] = "leave" /\ To(w, "done")
  /\ IF row[w] \in {"ACTIVE", "INHERITED"} /\ MayRelease(w)
     THEN Promoted([row EXCEPT ![w] = "RELEASED"])
     ELSE UNCHANGED <<row, held, seqNo>>
  /\ UNCHANGED <<from, known, suite, beats, why>>

Leave(w) ==
  /\ at[w] = "leave" /\ To(w, "done")
  /\ IF suite[w] = "running" \/ why[w] = "ambiguous"
     THEN /\ row' = [row EXCEPT ![w] = IF @ \in {"ACTIVE", "INHERITED"}
                                       THEN "RECOVERY_REQUIRED" ELSE @]
          /\ UNCHANGED <<held, seqNo>>
     ELSE IF MayRelease(w) /\ (why[w] = "lost" => row[w] = "ACTIVE")
          THEN Promoted([row EXCEPT ![w] = "RELEASED"])
          ELSE UNCHANGED <<row, held, seqNo>>
  /\ UNCHANGED <<from, known, suite, beats, why>>

WrapperDies(w) ==
  /\ at[w] \in {"spawn", "record", "wait", "leave"}
  /\ To(w, "done")
  /\ UNCHANGED <<gate, seqNo, known, suite, beats, why>>

\* The daemon's reconcile over these rows: an expired lease is fenced, and a
\* fenced or inherited row is released once every recorded process is gone.  A
\* fenced row that names no process counts as ownerless, an inherited one never.
LeaseLapses(w) ==
  /\ held[w] = "FRESH"
  /\ held' = [held EXCEPT ![w] = "EXPIRED"]
  /\ UNCHANGED <<row, from, seqNo, known, suite, at, beats, why>>

FenceExpired(w) ==
  /\ row[w] = "ACTIVE" /\ held[w] = "EXPIRED"
  /\ row' = [row EXCEPT ![w] = "RECOVERY_REQUIRED"]
  /\ UNCHANGED <<held, from, seqNo, known, suite, at, beats, why>>

\* The processes the sweep knows of: an inherited row answers for itself alone,
\* every other one for its lease as well.
Recorded(w) == known \cap IF row[w] = "INHERITED" THEN {w} ELSE {w, LeaseOf(w)}

FaultyOwnerless(w) == /\ Recorded(w) # {}
                      /\ \A v \in Recorded(w) : suite[v] = "gone"

Ownerless(w) == /\ Recorded(w) = {} => row[w] # "INHERITED"
                /\ \A v \in Recorded(w) : suite[v] = "gone"

SweepRow(w) ==
  /\ row[w] \in {"ACTIVE", "RECOVERY_REQUIRED", "INHERITED"}
  /\ row[w] \in {"ACTIVE", "INHERITED"} => held[LeaseOf(w)] # "FRESH"
  /\ Ownerless(w) /\ Inheritors(LeaseOf(w)) \subseteq {w}
  /\ Promoted([row EXCEPT ![w] = "RELEASED"])
  /\ UNCHANGED <<from, known, suite, at, beats, why>>

Wrap(w) == \/ Spawn(w) \/ Record(w) \/ Returned(w) \/ TimesOut(w) \/ Beat(w) \/ Leave(w)
Reconcile(w) == FenceExpired(w) \/ SweepRow(w)

PytestNext == \E w \in Wrappers :
  \/ Ask(w) \/ (\E l \in Wrappers : AskInside(w, l))
  \/ Wrap(w) \/ PytestExits(w) \/ WrapperDies(w)
  \/ LeaseLapses(w) \/ Reconcile(w)

\* A wrapper runs on and stops a suite that never ends, a lease no one renews
\* runs out, and the daemon reconciles at every poll.
PytestFairness == \A w \in Wrappers :
  /\ WF_pytestVars(Wrap(w))
  /\ WF_pytestVars(LeaseLapses(w)) /\ SF_pytestVars(Reconcile(w))

PytestSpec == PytestInit /\ [][PytestNext]_pytestVars /\ PytestFairness

-------------------------------------------------------------------------------
(* Properties *)

PytestTypeOK ==
  /\ row \in [Wrappers -> {"NONE", "QUEUED", "ACTIVE", "INHERITED",
                           "RECOVERY_REQUIRED", "RELEASED", "QUARANTINED"}]
  /\ held \in [Wrappers -> {"NONE", "FRESH", "EXPIRED"}]
  /\ from \in [Wrappers -> Wrappers \cup {NoWrapper}]
  /\ seqNo \in [Wrappers -> 0 .. MaxBeats] /\ beats \in [Wrappers -> 1 .. MaxBeats]
  /\ suite \in [Wrappers -> {"none", "running", "gone"}]
  /\ known \subseteq {w \in Wrappers : suite[w] # "none"}
  /\ at \in [Wrappers -> {"idle", "spawn", "record", "wait", "leave", "done"}]
  /\ why \in [Wrappers -> {"none", "timeout", "lost", "ambiguous"}]

\* Two unrelated pytest runs overlap only when one of them was never recorded:
\* its wrapper died, stalled or failed between Popen and the record, so that its
\* row was fenced and swept as ownerless while the suite was running.
OverlapOnlyUnrecorded ==
  \A v, w \in Wrappers :
    (suite[v] = "running" /\ suite[w] = "running" /\ v # w
       /\ LeaseOf(v) # LeaseOf(w)) => (\E u \in Wrappers : suite[u] = "running" /\ u \notin known)

\* Whatever holds the gate leaves it: a promoted row whose caller has gone, a
\* fence, a run whose wrapper died.  What keeps it for good is a suite that still
\* runs with no wrapper to stop it, and an inherited run that was never recorded,
\* which only an operator can clear.
GateIsFreed ==
  \A w \in Wrappers : (w \in HoldsGate(row)) ~>
    \/ w \notin HoldsGate(row)
    \/ \E v \in Wrappers : suite[v] = "running" /\ at[v] = "done"
    \/ \E c \in Wrappers \ known : row[c] = "INHERITED"
===============================================================================
