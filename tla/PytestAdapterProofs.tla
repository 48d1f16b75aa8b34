------------------------- MODULE PytestAdapterProofs -------------------------
(***************************************************************************)
(* Theorems about PytestAdapter, for any number of wrappers.               *)
(*                                                                         *)
(* The rows that occupy the gate all belong to one lease (OneLease): it    *)
(* is handed on only when nothing holds it, and then nothing inherits from *)
(* it either (HeirsHaveLease).  A pytest run that is recorded keeps its    *)
(* row there (RecordedOccupies), for a row is released by its own wrapper  *)
(* after the run, or by a sweep that looks at every process it knows.      *)
(***************************************************************************)
EXTENDS PytestAdapter, TLAPS

Occupied == {"ACTIVE", "RECOVERY_REQUIRED", "INHERITED"}

OneLease == \A v, w \in Wrappers :
    row[v] \in Occupied /\ row[w] \in Occupied => LeaseOf(v) = LeaseOf(w)

\* An inherited row has its lease, and only a row that was admitted has one.
HeirsHaveLease == \A w \in Wrappers :
    /\ row[w] = "INHERITED" => /\ from[w] \in Wrappers
                               /\ row[from[w]] \in {"ACTIVE", "RECOVERY_REQUIRED"}
    /\ row[w] \in {"NONE", "QUEUED", "ACTIVE"} => from[w] = NoWrapper

RecordedOccupies == \A w \in Wrappers :
    suite[w] = "running" /\ w \in known => row[w] \in Occupied

\* Where a wrapper stands, its row and its run agree.
Standing == \A w \in Wrappers :
    /\ at[w] = "idle" => row[w] = "NONE"
    /\ at[w] \in {"idle", "spawn"} => suite[w] = "none"
    /\ at[w] \in {"record", "wait"} => suite[w] # "none"
    /\ at[w] \in {"spawn", "record", "wait", "leave"} => row[w] \in Occupied \cup {"RELEASED"}

Inv == PytestTypeOK /\ OneLease /\ HeirsHaveLease /\ RecordedOccupies /\ Standing
------------------------------------------------------------------------------

\* At the start the gate is empty.
LEMMA InitInv == PytestInit => Inv
  BY PytestAssumption DEF PytestInit, Inv, PytestTypeOK, OneLease, HeirsHaveLease,
     RecordedOccupies, Standing, Occupied

\* The types, wrapper by wrapper and step by step.
LEMMA TypesStep ==
  ASSUME PytestTypeOK, Standing, [PytestNext]_pytestVars
  PROVE  PytestTypeOK'
<1> USE PytestAssumption DEF PytestTypeOK, To, gate
<1>1. CASE UNCHANGED pytestVars
  BY <1>1 DEF pytestVars
<1>2. ASSUME NEW w \in Wrappers, Ask(w) PROVE PytestTypeOK'
  BY <1>2 DEF Ask
<1>3. ASSUME NEW w \in Wrappers, NEW l \in Wrappers, AskInside(w, l) PROVE PytestTypeOK'
  BY <1>3 DEF AskInside, LeaseOf
<1>4. ASSUME NEW w \in Wrappers, Wrap(w) PROVE PytestTypeOK'
  <2>1. CASE Spawn(w)
    BY <2>1 DEF Spawn
  <2>2. CASE Record(w)
    BY <2>2 DEF Record, Standing
  <2>3. CASE Returned(w)
    BY <2>3 DEF Returned
  <2>4. CASE TimesOut(w)
    BY <2>4 DEF TimesOut, Stop
  <2>5. CASE Beat(w)
    BY <2>5 DEF Beat, Stop, LeaseOf
  <2>6. CASE Leave(w)
    BY <2>6 DEF Leave, Promoted
  <2> QED
    BY <1>4, <2>1, <2>2, <2>3, <2>4, <2>5, <2>6 DEF Wrap
<1>5. ASSUME NEW w \in Wrappers, PytestExits(w) \/ WrapperDies(w) \/ LeaseLapses(w)
      PROVE PytestTypeOK'
  BY <1>5 DEF PytestExits, WrapperDies, LeaseLapses
<1>6. ASSUME NEW w \in Wrappers, Reconcile(w) PROVE PytestTypeOK'
  BY <1>6 DEF Reconcile, FenceExpired, SweepRow, Promoted
<1> QED
  BY <1>1, <1>2, <1>3, <1>4, <1>5, <1>6 DEF PytestNext
\* The gate after a row has left it: free, or handed to the head of the queue.
LEMMA PromotedCases ==
  ASSUME NEW s, Promoted(s)
  PROVE  \/ row' = s
         \/ \E x \in Wrappers : /\ HoldsGate(s) = {} /\ s[x] = "QUEUED"
                               /\ row' = [s EXCEPT ![x] = "ACTIVE"]
  BY DEF Promoted

\* A row without heirs and without a recorded run may leave.
LEMMA ReleaseStep ==
  ASSUME PytestTypeOK, OneLease, HeirsHaveLease, RecordedOccupies, NEW w \in Wrappers,
         row[w] \in Occupied, suite[w] = "running" => w \notin known,
         \A c \in Wrappers : row[c] = "INHERITED" => from[c] # w,
         Promoted([row EXCEPT ![w] = "RELEASED"]),
         UNCHANGED <<from, known, suite>>
  PROVE  OneLease' /\ HeirsHaveLease' /\ RecordedOccupies'
<1> DEFINE s == [row EXCEPT ![w] = "RELEASED"]
<1> USE PytestAssumption DEF PytestTypeOK, LeaseOf, Occupied
<1>0. /\ s[w] = "RELEASED"
      /\ \A x \in Wrappers : x # w => s[x] = row[x]
  OBVIOUS
<1>1. CASE row' = s
  BY <1>0, <1>1 DEF OneLease, HeirsHaveLease, RecordedOccupies
<1>2. ASSUME NEW x \in Wrappers, HoldsGate(s) = {}, s[x] = "QUEUED",
             row' = [s EXCEPT ![x] = "ACTIVE"]
      PROVE  OneLease' /\ HeirsHaveLease' /\ RecordedOccupies'
  <2>1. \A y \in Wrappers : s[y] \notin {"ACTIVE", "RECOVERY_REQUIRED"}
    BY <1>2 DEF HoldsGate
  <2>2. \A y \in Wrappers : s[y] # "INHERITED"
    BY <1>0, <2>1 DEF HeirsHaveLease
  <2>3. x # w /\ row[x] = "QUEUED" /\ row'[x] = "ACTIVE"
        /\ \A y \in Wrappers : y # x => row'[y] = s[y]
    BY <1>0, <1>2
  <2> HIDE DEF s
  <2>4. \A y \in Wrappers : row'[y] \in Occupied => y = x
    BY <2>1, <2>2, <2>3
  <2>5. OneLease'
    BY <2>4 DEF OneLease
  <2>6. HeirsHaveLease'
    BY <1>0, <2>2, <2>3 DEF HeirsHaveLease
  <2>7. RecordedOccupies'
    BY <1>0, <2>1, <2>2, <2>3 DEF RecordedOccupies
  <2> QED
    BY <2>5, <2>6, <2>7
<1> QED
  BY <1>1, <1>2, PromotedCases

\* The gate is handed on only when nothing holds it, and then to one row.
LEMMA GateStep ==
  ASSUME Inv, [PytestNext]_pytestVars
  PROVE  OneLease' /\ HeirsHaveLease' /\ RecordedOccupies'
<1> DEFINE Goal == OneLease /\ HeirsHaveLease /\ RecordedOccupies
<1> USE PytestAssumption DEF Inv, PytestTypeOK, To, gate, LeaseOf, Occupied
<1>0. ASSUME UNCHANGED <<row, from, known, suite>> PROVE Goal'
  BY <1>0 DEF OneLease, HeirsHaveLease, RecordedOccupies
<1>1. CASE UNCHANGED pytestVars
  BY <1>0, <1>1 DEF pytestVars
<1>2. ASSUME NEW w \in Wrappers, Ask(w) PROVE Goal'
  <2>1. row[w] = "NONE" /\ suite[w] = "none" /\ from[w] = NoWrapper
    BY <1>2 DEF Ask, Standing, HeirsHaveLease
  <2>2. CASE HoldsGate(row) = {}
    <3>1. \A x \in Wrappers : row[x] \notin Occupied
      BY <2>2 DEF HoldsGate, HeirsHaveLease
    <3>2. row' = [row EXCEPT ![w] = "ACTIVE"]
      BY <1>2, <2>2 DEF Ask
    <3> QED
      BY <1>2, <2>1, <3>1, <3>2 DEF Ask, OneLease, HeirsHaveLease, RecordedOccupies
  <2>3. CASE HoldsGate(row) # {}
    <3>1. row' = [row EXCEPT ![w] = "QUEUED"]
      BY <1>2, <2>3 DEF Ask
    <3> QED
      BY <1>2, <2>1, <3>1 DEF Ask, OneLease, HeirsHaveLease, RecordedOccupies
  <2> QED
    BY <2>2, <2>3
<1>3. ASSUME NEW w \in Wrappers, NEW l \in Wrappers, AskInside(w, l) PROVE Goal'
  <2>1. row[w] = "NONE" /\ suite[w] = "none" /\ from[w] = NoWrapper
    BY <1>3 DEF AskInside, Standing, HeirsHaveLease
  <2>2. PICK m \in Wrappers : m = LeaseOf(l) /\ row[m] = "ACTIVE" /\ from[m] = NoWrapper /\ m # w
    BY <1>3, <2>1 DEF AskInside, LeaseIsLive, HeirsHaveLease
  <2>3. CASE Inheritors(LeaseOf(l)) = {}
    <3>1. row' = [row EXCEPT ![w] = "INHERITED"] /\ from' = [from EXCEPT ![w] = m]
      BY <1>3, <2>2, <2>3 DEF AskInside
    <3>2. \A x \in Wrappers : row[x] \in Occupied => LeaseOf(x) = m
      BY <2>2 DEF OneLease
    <3>3. OneLease'
      BY <2>1, <2>2, <3>1, <3>2 DEF OneLease
    <3>4. HeirsHaveLease' /\ RecordedOccupies'
      BY <1>3, <2>1, <2>2, <3>1 DEF AskInside, HeirsHaveLease, RecordedOccupies
    <3> QED
      BY <3>3, <3>4
  <2>4. CASE Inheritors(LeaseOf(l)) # {}
    <3>1. row' = [row EXCEPT ![w] = "QUARANTINED"] /\ UNCHANGED from
      BY <1>3, <2>4 DEF AskInside
    <3> QED
      BY <1>3, <2>1, <3>1 DEF AskInside, OneLease, HeirsHaveLease, RecordedOccupies
  <2> QED
    BY <2>3, <2>4
<1>4. ASSUME NEW w \in Wrappers, Wrap(w) PROVE Goal'
  <2>1. CASE Spawn(w)
    BY <2>1 DEF Spawn, Standing, OneLease, HeirsHaveLease, RecordedOccupies
  <2>2. CASE Record(w)
    BY <2>2 DEF Record, Standing, OneLease, HeirsHaveLease, RecordedOccupies
  <2>3. CASE Returned(w)
    BY <1>0, <2>3 DEF Returned
  <2>4. CASE TimesOut(w) \/ Beat(w)
    BY <2>4 DEF TimesOut, Beat, Stop, OneLease, HeirsHaveLease, RecordedOccupies
  <2>5. CASE Leave(w)
    <3>1. CASE row' = [row EXCEPT ![w] = IF @ \in {"ACTIVE", "INHERITED"}
                                         THEN "RECOVERY_REQUIRED" ELSE @]
      BY <2>5, <3>1 DEF Leave, OneLease, HeirsHaveLease, RecordedOccupies
    <3>2. CASE suite[w] # "running" /\ MayRelease(w) /\ Promoted([row EXCEPT ![w] = "RELEASED"])
      <4>1. \A c \in Wrappers : row[c] = "INHERITED" => from[c] # w
        BY <3>2 DEF MayRelease, Inheritors, HeirsHaveLease
      <4> QED
        BY <2>5, <3>2, <4>1, ReleaseStep DEF Leave, MayRelease
    <3>3. CASE UNCHANGED row
      BY <1>0, <2>5, <3>3 DEF Leave
    <3> QED
      BY <2>5, <3>1, <3>2, <3>3 DEF Leave
  <2> QED
    BY <1>4, <2>1, <2>2, <2>3, <2>4, <2>5 DEF Wrap
<1>5. ASSUME NEW w \in Wrappers, PytestExits(w) PROVE Goal'
  BY <1>5 DEF PytestExits, OneLease, HeirsHaveLease, RecordedOccupies
<1>6. ASSUME NEW w \in Wrappers, WrapperDies(w) \/ LeaseLapses(w) PROVE Goal'
  BY <1>0, <1>6 DEF WrapperDies, LeaseLapses
<1>7. ASSUME NEW w \in Wrappers, FenceExpired(w) PROVE Goal'
  BY <1>7 DEF FenceExpired, OneLease, HeirsHaveLease, RecordedOccupies
<1>8. ASSUME NEW w \in Wrappers, SweepRow(w) PROVE Goal'
  <2>1. suite[w] = "running" => w \notin known
    BY <1>8 DEF SweepRow, Ownerless, Recorded
  <2>2. ASSUME NEW c \in Wrappers, row[c] = "INHERITED", from[c] = w PROVE FALSE
    <3>1. row[w] \in {"ACTIVE", "RECOVERY_REQUIRED"} /\ LeaseOf(c) = w
      BY <2>2 DEF HeirsHaveLease
    <3>2. LeaseOf(w) = w
      BY <2>2, <3>1 DEF OneLease
    <3>3. c \in Inheritors(LeaseOf(w))
      BY <2>2, <3>2 DEF Inheritors
    <3> QED
      BY <1>8, <2>2, <3>1, <3>3 DEF SweepRow
  <2> QED
    BY <1>8, <2>1, <2>2, ReleaseStep DEF SweepRow
<1> QED
  BY <1>1, <1>2, <1>3, <1>4, <1>5, <1>6, <1>7, <1>8 DEF PytestNext, Reconcile
\* A row that leaves the gate or enters it from the queue keeps every wrapper standing.
LEMMA PromotedStanding ==
  ASSUME PytestTypeOK, Standing, NEW w \in Wrappers, row[w] \in Occupied,
         Promoted([row EXCEPT ![w] = "RELEASED"]), NEW x \in Wrappers
  PROVE  /\ row[x] = "NONE" => row'[x] = "NONE"
         /\ row[x] \in Occupied \cup {"RELEASED"} => row'[x] \in Occupied \cup {"RELEASED"}
<1> DEFINE s == [row EXCEPT ![w] = "RELEASED"]
<1>1. /\ row[x] = "NONE" => s[x] = "NONE"
      /\ row[x] \in Occupied \cup {"RELEASED"} => s[x] \in Occupied \cup {"RELEASED"}
      /\ s \in [Wrappers -> Occupied \cup {"NONE", "QUEUED", "RELEASED", "QUARANTINED"}]
  BY DEF PytestTypeOK, Occupied
<1> HIDE DEF s
<1>2. \/ row' = s
      \/ \E y \in Wrappers : s[y] = "QUEUED" /\ row' = [s EXCEPT ![y] = "ACTIVE"]
  BY PromotedCases DEF s
<1> QED
  BY <1>1, <1>2 DEF Occupied

\* Where a wrapper stands decides what its row and its suite can be.
LEMMA StandingStep ==
  ASSUME PytestTypeOK, Standing, [PytestNext]_pytestVars
  PROVE  Standing'
<1> USE DEF PytestTypeOK, Standing, To, gate, Occupied
<1>1. CASE UNCHANGED pytestVars
  BY <1>1 DEF pytestVars
<1>2. ASSUME NEW w \in Wrappers, Ask(w) PROVE Standing'
  BY <1>2 DEF Ask
<1>3. ASSUME NEW w \in Wrappers, NEW l \in Wrappers, AskInside(w, l) PROVE Standing'
  BY <1>3 DEF AskInside
<1>4. ASSUME NEW w \in Wrappers, Wrap(w) PROVE Standing'
  <2>1. CASE Spawn(w)
    BY <2>1 DEF Spawn
  <2>2. CASE Record(w)
    BY <2>2 DEF Record
  <2>3. CASE Returned(w)
    BY <2>3 DEF Returned
  <2>4. CASE TimesOut(w)
    BY <2>4 DEF TimesOut, Stop
  <2>5. CASE Beat(w)
    BY <2>5 DEF Beat, Stop
  <2>6. CASE Leave(w)
    <3>1. CASE Promoted([row EXCEPT ![w] = "RELEASED"]) /\ MayRelease(w)
      BY <2>6, <3>1, PromotedStanding DEF Leave, MayRelease
    <3>2. CASE UNCHANGED row
      BY <2>6, <3>2 DEF Leave
    <3>3. CASE row' = [row EXCEPT ![w] = IF @ \in {"ACTIVE", "INHERITED"}
                                         THEN "RECOVERY_REQUIRED" ELSE @]
      BY <2>6, <3>3 DEF Leave
    <3> QED
      BY <2>6, <3>1, <3>2, <3>3 DEF Leave
  <2> QED
    BY <1>4, <2>1, <2>2, <2>3, <2>4, <2>5, <2>6 DEF Wrap
<1>5. ASSUME NEW w \in Wrappers, PytestExits(w) PROVE Standing'
  BY <1>5 DEF PytestExits
<1>6. ASSUME NEW w \in Wrappers, WrapperDies(w) \/ LeaseLapses(w) PROVE Standing'
  BY <1>6 DEF WrapperDies, LeaseLapses
<1>7. ASSUME NEW w \in Wrappers, FenceExpired(w) PROVE Standing'
  BY <1>7 DEF FenceExpired
<1>8. ASSUME NEW w \in Wrappers, SweepRow(w) PROVE Standing'
  BY <1>8, PromotedStanding DEF SweepRow
<1> QED
  BY <1>1, <1>2, <1>3, <1>4, <1>5, <1>6, <1>7, <1>8 DEF PytestNext, Reconcile

LEMMA AlwaysInv == PytestSpec => []Inv
<1>1. Inv /\ [PytestNext]_pytestVars => Inv'
  BY TypesStep, GateStep, StandingStep DEF Inv
<1> QED
  BY <1>1, InitInv, PTL DEF PytestSpec

------------------------------------------------------------------------------
(* The theorems *)

\* The rows, leases, runs and wrappers keep their types.
THEOREM PytestTypes == PytestSpec => []PytestTypeOK
  BY AlwaysInv, PTL DEF Inv

\* However many wrappers ask, nest, die, stall and are swept: two pytest runs of
\* different leases are at work together only while one at work was never recorded.
THEOREM RecordedRunsNeverOverlap == PytestSpec => []OverlapOnlyUnrecorded
<1>1. Inv => OverlapOnlyUnrecorded
  BY DEF Inv, OverlapOnlyUnrecorded, OneLease, RecordedOccupies
<1> QED
  BY <1>1, AlwaysInv, PTL
==============================================================================
