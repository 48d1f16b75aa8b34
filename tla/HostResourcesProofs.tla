------------------------ MODULE HostResourcesProofs ------------------------
(***************************************************************************)
(* What holds of HostResources, of the line of ResourceQueue it implements *)
(* and of the verdict GateVerdict makes of its journal, for every host:    *)
(* any pools, capacities, attempts, processes and journal length that      *)
(* ConstantsAssumption admits.                                             *)
(***************************************************************************)
EXTENDS GateVerdict, FiniteSetTheorems, WellFoundedInduction, TLAPS

----------------------------------------------------------------------------
(* Promotion                                                               *)

\* A row that promotion picks is a waiter whose attempt is not UNKNOWN, and its
\* own pool, account and slot have room for it (_promote_related_locked).
LEMMA PromotableHasRoom ==
    ASSUME NEW s, NEW u, NEW p, NEW q \in Promotable(s, u, p)
    PROVE  /\ q \in Request
           /\ s[q] = "QUEUED"
           /\ req[q].attempt \notin u
           /\ ~PoolFull(s, req[q].pool)
           /\ ~SourceFull(s, req[q].pool)
           /\ ~SlotBusy(s, req[q].pool, req[q].slot)
<1> DEFINE open == {x \in Related(p) : /\ ~SourceFull(s, x)
                                       /\ ~PoolFull(s, x)
                                       /\ Eligible(s, u, x) # {}}
           waiting == UNION {In(s, {"QUEUED"}, x) : x \in open}
<1>1. PICK r \in FirstOf(waiting) : q \in FirstOf(Eligible(s, u, req[r].pool))
  BY DEF Promotable
<1>2. r \in waiting
  BY <1>1 DEF FirstOf
<1>3. PICK x \in open : r \in In(s, {"QUEUED"}, x)
  BY <1>2
<1>4. req[r].pool = x
  BY <1>3 DEF In
<1>5. q \in Eligible(s, u, x)
  BY <1>1, <1>4 DEF FirstOf
<1>6. q \in Request /\ s[q] = "QUEUED" /\ req[q].pool = x
  BY <1>5 DEF Eligible, In
<1>7. req[q].attempt \notin u /\ ~SlotBusy(s, x, req[q].slot)
  BY <1>5 DEF Eligible
<1> QED
  BY <1>3, <1>6, <1>7

LEMMA PrioritiesAreNumbers == Priority \subseteq Int
BY ConstantsAssumption

\* At most one row: priorities are numbers and ids break their ties.
LEMMA PromotableIsOne ==
    ASSUME TypeOK, NEW s, NEW u, NEW p,
           NEW q \in Promotable(s, u, p), NEW x \in Promotable(s, u, p)
    PROVE  q = x
<1> DEFINE open == {y \in Related(p) : /\ ~SourceFull(s, y)
                                       /\ ~PoolFull(s, y)
                                       /\ Eligible(s, u, y) # {}}
           waiting == UNION {In(s, {"QUEUED"}, y) : y \in open}
<1>1. \A rs \in SUBSET Request : \A a, b \in FirstOf(rs) : a = b
  <2> SUFFICES ASSUME NEW rs \in SUBSET Request, NEW a \in FirstOf(rs), NEW b \in FirstOf(rs)
               PROVE  a = b
    OBVIOUS
  <2>1. a \in rs /\ b \in rs
    BY DEF FirstOf
  <2>2. a \in Request /\ b \in Request
    BY <2>1
  <2>3. a \in Int /\ b \in Int
    BY <2>2 DEF Request
  <2>4. req[a] \in Row /\ req[b] \in Row
    BY <2>2 DEF TypeOK
  <2>5. req[a].prio \in Priority /\ req[b].prio \in Priority
    BY <2>4 DEF Row
  <2>6. req[a].prio \in Int /\ req[b].prio \in Int
    BY <2>5, PrioritiesAreNumbers
  <2>7. /\ req[a].prio > req[b].prio \/ (req[a].prio = req[b].prio /\ a <= b)
        /\ req[b].prio > req[a].prio \/ (req[b].prio = req[a].prio /\ b <= a)
    BY <2>1 DEF FirstOf
  <2> QED
    BY <2>3, <2>6, <2>7
<1>2. waiting \in SUBSET Request
  BY DEF In
<1>3. PICK r \in FirstOf(waiting) : q \in FirstOf(Eligible(s, u, req[r].pool))
  BY DEF Promotable
<1>4. PICK y \in FirstOf(waiting) : x \in FirstOf(Eligible(s, u, req[y].pool))
  BY DEF Promotable
<1>5. r = y
  BY <1>1, <1>2, <1>3, <1>4
<1>6. Eligible(s, u, req[r].pool) \in SUBSET Request
  BY DEF Eligible, In
<1> QED
  BY <1>1, <1>3, <1>4, <1>5, <1>6

----------------------------------------------------------------------------
(* Type correctness                                                        *)

LEMMA BlankIsRow == Blank \in Row
<1>1. PICK p \in Pool, a \in Attempt, n \in Priority : TRUE
  BY ConstantsAssumption
<1>2. [pool |-> p, attempt |-> a, slot |-> NoSlot, prio |-> n, parent |-> None] \in Row
  BY <1>1 DEF Row
<1> QED
  BY <1>2 DEF Blank

\* A journal and lease table of the right type stay so when they are committed.
LEMMA CommitTypes ==
    ASSUME TypeOK,
           NEW s \in [Request -> State \cup {"NONE"}],
           NEW l \in [Request -> {"NONE", "FRESH", "EXPIRED"}],
           NEW u, NEW p, CommitAndPromote(s, l, u, p)
    PROVE  /\ st' \in [Request -> State \cup {"NONE"}]
           /\ \A r \in Request : st'[r] = "NONE" <=> s[r] = "NONE"
           /\ lease' \in [Request -> {"NONE", "FRESH", "EXPIRED"}]
           /\ proc' \in [Request -> Proc \cup {NoProc}]
           /\ seq' \in [Request -> 0 .. MaxSequence]
           /\ age' \in [Request -> 0 .. 2]
<1>1. \A r \in Promotable(s, u, p) : s[r] = "QUEUED"
  BY PromotableHasRoom
<1>2. 1 \in 0 .. MaxSequence /\ 0 \in 0 .. MaxSequence /\ 0 \in 0 .. 2
  BY ConstantsAssumption
<1>3. st' = [r \in Request |-> IF r \in Promotable(s, u, p) THEN "ACTIVE" ELSE s[r]]
  BY DEF CommitAndPromote
<1>4. lease' = [r \in Request |-> IF r \in Promotable(s, u, p) THEN "FRESH" ELSE l[r]]
  BY DEF CommitAndPromote
<1>5. proc' \in [Request -> Proc \cup {NoProc}]
  BY DEF CommitAndPromote, TypeOK
<1>6. seq' \in [Request -> 0 .. MaxSequence]
  BY <1>2 DEF CommitAndPromote, TypeOK
<1>7. age' \in [Request -> 0 .. 2]
  BY <1>2 DEF CommitAndPromote, TypeOK
<1> QED
  BY <1>1, <1>3, <1>4, <1>5, <1>6, <1>7 DEF State

\* The row a request inserts.
LEMMA InsertTypes ==
    ASSUME TypeOK, count < MaxRequests, NEW row \in Row, NEW p \in Proc \cup {NoProc},
           NEW state \in State, Insert(row, state, p)
    PROVE  /\ count' \in 0 .. MaxRequests
           /\ count' \in Request /\ count' = count + 1
           /\ st' \in [Request -> State \cup {"NONE"}]
           /\ \A r \in Request : st'[r] # "NONE" <=> r <= count'
           /\ req' \in [Request -> Row]
           /\ owner' \in [Request -> Proc \cup {NoProc}]
           /\ age' \in [Request -> 0 .. 2]
<1>1. count \in 0 .. MaxRequests /\ MaxRequests \in Nat
  BY ConstantsAssumption DEF TypeOK
<1>2. count' = count + 1 /\ count' \in Request /\ count' \in 0 .. MaxRequests
  BY <1>1 DEF Insert, Request
<1>3. st' = [st EXCEPT ![count + 1] = state] /\ count + 1 \in Request
  BY <1>2 DEF Insert
<1>4. \A r \in Request : r \in Int
  BY DEF Request
<1>5. \A r \in Request : st'[r] # "NONE" <=> r <= count'
  BY <1>1, <1>2, <1>3, <1>4 DEF TypeOK, State
<1>6. st' \in [Request -> State \cup {"NONE"}]
  BY <1>3 DEF TypeOK
<1>7. req' \in [Request -> Row] /\ owner' \in [Request -> Proc \cup {NoProc}]
  BY <1>2 DEF Insert, TypeOK
<1>8. age' \in [Request -> 0 .. 2]
  BY <1>2 DEF Insert, TypeOK
<1> QED
  BY <1>2, <1>5, <1>6, <1>7, <1>8

LEMMA TypeInit == Init => TypeOK
<1> SUFFICES ASSUME Init PROVE TypeOK
  OBVIOUS
<1>1. MaxRequests \in Nat /\ 0 \in 0 .. MaxSequence
  BY ConstantsAssumption
<1>2. \A r \in Request : r \in Int /\ r > 0
  BY DEF Request
<1>3. count \in 0 .. MaxRequests /\ \A r \in Request : st[r] # "NONE" <=> r <= count
  BY <1>1, <1>2 DEF Init
<1>4. req \in [Request -> Row]
  BY BlankIsRow DEF Init
<1>5. seq \in [Request -> 0 .. MaxSequence] /\ age \in [Request -> 0 .. 2]
  BY <1>1 DEF Init
<1> QED
  BY <1>3, <1>4, <1>5 DEF Init, TypeOK

\* The steps of a transaction that change no row's state or request.
LEMMA TypeTransaction ==
    ASSUME TypeOK,
           \/ \E kind \in {"request", "reconcile", "sweep"} : BeginTransaction(kind)
           \/ SweepAgain
           \/ FinishSweep
           \/ Refuse
    PROVE  TypeOK'
<1>1. Candidates \subseteq 1 .. count
  <2>1. \A r \in Request : r \in Int /\ r >= 1
    BY DEF Request
  <2>2. count \in Int
    BY DEF TypeOK
  <2> QED
    BY <2>1, <2>2 DEF Candidates, TypeOK, Live
<1>2. CASE \E kind \in {"request", "reconcile", "sweep"} : BeginTransaction(kind)
  BY <1>1, <1>2 DEF BeginTransaction, TypeOK, grant
<1>3. CASE SweepAgain
  BY <1>1, <1>3 DEF SweepAgain, TypeOK, grant
<1>4. CASE FinishSweep
  BY <1>4 DEF FinishSweep, EndTransaction, TypeOK, grant
<1>5. CASE Refuse
  BY <1>5 DEF Refuse, EndTransaction, TypeOK, grant
<1> QED
  BY <1>2, <1>3, <1>4, <1>5

\* The journal of a commit is the old one with some rows released.
LEMMA TypeCommit ==
    ASSUME TypeOK,
           NEW s \in [Request -> State \cup {"NONE"}],
           \A r \in Request : s[r] = "NONE" <=> st[r] = "NONE",
           NEW l \in [Request -> {"NONE", "FRESH", "EXPIRED"}],
           NEW u, NEW p, CommitAndPromote(s, l, u, p),
           auto' \subseteq 1 .. count, overheld' \subseteq overheld, unknown' \subseteq Registered,
           todo' \subseteq 1 .. count, swept' \subseteq Request, dirty' \in BOOLEAN,
           UNCHANGED <<count, req, owner, life, op, snap>>
    PROVE  TypeOK'
<1>1. /\ st' \in [Request -> State \cup {"NONE"}]
      /\ \A r \in Request : st'[r] = "NONE" <=> s[r] = "NONE"
      /\ lease' \in [Request -> {"NONE", "FRESH", "EXPIRED"}]
      /\ proc' \in [Request -> Proc \cup {NoProc}]
      /\ seq' \in [Request -> 0 .. MaxSequence]
      /\ age' \in [Request -> 0 .. 2]
  BY CommitTypes
<1> QED
  BY <1>1 DEF TypeOK

LEMMA TypeSweepReleases == ASSUME TypeOK, SweepReleases PROVE TypeOK'
<1>1. PICK r \in Stale :
        LET a == req[r].attempt
            released == {r} \cup {q \in Request : st[q] = "QUEUED" /\ req[q].attempt = a}
            s == [q \in Request |-> IF q \in released THEN "RELEASED" ELSE st[q]]
        IN  /\ unknown' = unknown \cup ({a} \cap Registered)
            /\ CommitAndPromote(s, [lease EXCEPT ![r] = "NONE"], unknown', req[r].pool)
            /\ auto' = auto \cup released
            /\ overheld' = overheld \ {r}
            /\ todo' = {c \in todo : c > r}
            /\ swept' = swept \cup {r}
  BY DEF SweepReleases
<1> DEFINE a == req[r].attempt
           released == {r} \cup {q \in Request : st[q] = "QUEUED" /\ req[q].attempt = a}
           s == [q \in Request |-> IF q \in released THEN "RELEASED" ELSE st[q]]
           l == [lease EXCEPT ![r] = "NONE"]
<1>2. r \in todo /\ r \in Request /\ r <= count /\ st[r] # "NONE"
  <2>1. r \in todo /\ r \in 1 .. count /\ count \in 0 .. MaxRequests /\ MaxRequests \in Nat
    BY ConstantsAssumption DEF Stale, TypeOK
  <2>2. r \in Request /\ r <= count
    BY <2>1 DEF Request
  <2> QED
    BY <2>1, <2>2 DEF TypeOK
<1>3. s \in [Request -> State \cup {"NONE"}] /\ l \in [Request -> {"NONE", "FRESH", "EXPIRED"}]
  BY <1>2 DEF TypeOK, State
<1>4. \A q \in Request : s[q] = "NONE" <=> st[q] = "NONE"
  BY <1>2
<1>5. CommitAndPromote(s, l, unknown', req[r].pool)
  BY <1>1
<1>6. released \subseteq 1 .. count
  <2>1. \A q \in Request : q \in Int /\ q >= 1
    BY DEF Request
  <2>2. \A q \in released : q \in Request /\ q <= count
    BY <1>2 DEF TypeOK
  <2>3. count \in Int
    BY DEF TypeOK
  <2> QED
    BY <2>1, <2>2, <2>3
<1>7. /\ auto' \subseteq 1 .. count /\ overheld' \subseteq overheld /\ unknown' \subseteq Registered
      /\ todo' \subseteq 1 .. count /\ swept' \subseteq Request /\ dirty' \in BOOLEAN
      /\ UNCHANGED <<count, req, owner, life, op, snap>>
  BY <1>1, <1>2, <1>6 DEF SweepReleases, TypeOK
<1> HIDE DEF s, l, released
<1> QED
  BY <1>3, <1>4, <1>5, <1>7, TypeCommit

LEMMA TypeAnswer ==
    ASSUME TypeOK, count < MaxRequests, NEW row \in Row, NEW p \in Proc \cup {NoProc},
           Inherit(row, p) \/ Admit(row, p)
    PROVE  TypeOK'
<1>1. PICK state \in State : Insert(row, state, p)
  BY DEF Inherit, Admit, State
<1>2. /\ count' \in 0 .. MaxRequests /\ count' \in Request
      /\ st' \in [Request -> State \cup {"NONE"}]
      /\ \A r \in Request : st'[r] # "NONE" <=> r <= count'
      /\ req' \in [Request -> Row]
      /\ owner' \in [Request -> Proc \cup {NoProc}]
      /\ age' \in [Request -> 0 .. 2]
  BY <1>1, InsertTypes
<1>3. EndTransaction /\ UNCHANGED <<overheld, auto, unknown, life>>
  BY DEF Inherit, Admit
<1>4. 1 \in 0 .. MaxSequence
  BY ConstantsAssumption
<1>5. \/ UNCHANGED grant
      \/ /\ lease' = [lease EXCEPT ![count'] = "FRESH"]
         /\ proc' = [proc EXCEPT ![count'] = owner'[count']]
         /\ seq' = [seq EXCEPT ![count'] = 1]
  BY DEF Inherit, Admit
<1>6. /\ lease' \in [Request -> {"NONE", "FRESH", "EXPIRED"}]
      /\ proc' \in [Request -> Proc \cup {NoProc}]
      /\ seq' \in [Request -> 0 .. MaxSequence]
  BY <1>2, <1>4, <1>5 DEF TypeOK, grant
<1>7. /\ op' = "idle" /\ todo' = {} /\ swept' = {} /\ dirty' = FALSE
      /\ snap' = [r \in Request |-> "NONE"]
  BY <1>3 DEF EndTransaction
<1>8. auto' \subseteq 1 .. count'
  <2>1. auto' \subseteq 1 .. count /\ count \in Nat /\ count' = count + 1
    BY <1>1, <1>3, ConstantsAssumption DEF TypeOK, Insert
  <2> QED
    BY <2>1
<1> QED
  BY <1>2, <1>3, <1>6, <1>7, <1>8 DEF TypeOK

LEMMA TypeOperation ==
    ASSUME TypeOK, Operation
    PROVE  TypeOK'
<1>1. ASSUME NEW r \in Request, NEW n \in 1 .. MaxSequence, Heartbeat(r, n)
      PROVE  TypeOK'
  <2>1. n \in 0 .. MaxSequence
    BY ConstantsAssumption
  <2>2. seq' \in [Request -> 0 .. MaxSequence] /\ age' \in [Request -> 0 .. 2]
    BY <1>1, <2>1 DEF Heartbeat, TypeOK
  <2> QED
    BY <1>1, <2>2 DEF Heartbeat, TypeOK, sweepVars
<1>2. ASSUME NEW r \in Request,
             st[r] \in {"QUEUED", "ACTIVE", "INHERITED", "RECOVERY_REQUIRED"},
             CommitAndPromote([st EXCEPT ![r] = "RELEASED"], lease, unknown, req[r].pool),
             auto' = auto \ {r}, overheld' \subseteq overheld,
             UNCHANGED <<count, req, owner, unknown, life, sweepVars>>
      PROVE  TypeOK'
  <2> DEFINE s == [st EXCEPT ![r] = "RELEASED"]
  <2>1. s \in [Request -> State \cup {"NONE"}] /\ lease \in [Request -> {"NONE", "FRESH", "EXPIRED"}]
    BY DEF TypeOK, State
  <2>2. \A q \in Request : s[q] = "NONE" <=> st[q] = "NONE"
    BY <1>2 DEF TypeOK
  <2>3. CommitAndPromote(s, lease, unknown, req[r].pool)
    BY <1>2
  <2>4. /\ auto' \subseteq 1 .. count /\ overheld' \subseteq overheld /\ unknown' \subseteq Registered
        /\ todo' \subseteq 1 .. count /\ swept' \subseteq Request /\ dirty' \in BOOLEAN
        /\ UNCHANGED <<count, req, owner, life, op, snap>>
    BY <1>2 DEF TypeOK, sweepVars
  <2> HIDE DEF s
  <2> QED
    BY <2>1, <2>2, <2>3, <2>4, TypeCommit
<1>3. ASSUME NEW r \in Request, Release(r) PROVE TypeOK'
  BY <1>2, <1>3 DEF Release
<1>4. ASSUME NEW r \in Request, NEW attested \in BOOLEAN, Recover(r, attested)
      PROVE  TypeOK'
  BY <1>2, <1>4 DEF Recover, Recoverable
<1>5. ASSUME NEW r \in Request, MarkUncertain(r) \/ MarkRecovery(r) \/ RetainKnown(r)
      PROVE  TypeOK'
  <2>1. Fence(r) /\ st[r] # "NONE"
    BY <1>5 DEF MarkUncertain, MarkRecovery, RetainKnown
  <2>2. st' = [st EXCEPT ![r] = "RECOVERY_REQUIRED"] /\ age' = [age EXCEPT ![r] = 0]
    BY <2>1 DEF Fence
  <2>3. st' \in [Request -> State \cup {"NONE"}] /\ age' \in [Request -> 0 .. 2]
    BY <2>2 DEF TypeOK, State
  <2>4. \A q \in Request : st'[q] # "NONE" <=> q <= count
    BY <2>1, <2>2 DEF TypeOK
  <2> QED
    BY <2>1, <2>3, <2>4 DEF Fence, TypeOK, grant, sweepVars
<1>6. ASSUME NEW r \in Request, NEW p \in Proc, AttachChild(r, p) PROVE TypeOK'
  BY <1>6 DEF AttachChild, TypeOK, sweepVars
<1> QED
  BY <1>1, <1>3, <1>4, <1>5, <1>6 DEF Operation

LEMMA TypeEnvironment == ASSUME TypeOK, Environment PROVE TypeOK'
<1>1. ASSUME NEW r \in Request, LeaseExpires(r) PROVE TypeOK'
  BY <1>1 DEF LeaseExpires, TypeOK, sweepVars
<1>2. ASSUME NEW r \in Request, GrowsOld(r) PROVE TypeOK'
  <2>1. age' = [age EXCEPT ![r] = age[r] + 1] /\ age[r] \in {0, 1}
    BY <1>2 DEF GrowsOld, TypeOK
  <2>2. age' \in [Request -> 0 .. 2]
    BY <2>1 DEF TypeOK
  <2> QED
    BY <1>2, <2>2 DEF GrowsOld, TypeOK, grant, sweepVars
<1>3. ASSUME NEW r \in Request, HoldRunsOut(r) PROVE TypeOK'
  BY <1>3 DEF HoldRunsOut, TypeOK, grant, sweepVars
<1>4. ASSUME NEW p \in Proc, ProcessFails(p) PROVE TypeOK'
  BY <1>4 DEF ProcessFails, TypeOK, grant, sweepVars
<1> QED
  BY <1>1, <1>2, <1>3, <1>4 DEF Environment

LEMMA TypeReconcile == ASSUME TypeOK, FinishReconcile PROVE TypeOK'
<1>1. st' = [r \in Request |-> IF st[r] = "ACTIVE" /\ lease[r] = "EXPIRED"
                                THEN "RECOVERY_REQUIRED" ELSE st[r]]
  BY DEF FinishReconcile
<1>2. st' \in [Request -> State \cup {"NONE"}]
  BY <1>1 DEF TypeOK, State
<1>3. \A r \in Request : st'[r] # "NONE" <=> r <= count
  BY <1>1 DEF TypeOK
<1>4. overheld' \subseteq Request
  BY DEF FinishReconcile, TypeOK
<1> QED
  BY <1>2, <1>3, <1>4 DEF FinishReconcile, EndTransaction, TypeOK, grant

\* A transaction that will insert a row was begun while there was room for one.
RoomForRow == op = "request" => count < MaxRequests

LEMMA TypeRetain ==
    ASSUME TypeOK, NEW row \in Row, RetainUnseen(row)
    PROVE  TypeOK'
<1>1. Insert(row, "RECOVERY_REQUIRED", NoProc) /\ count < MaxRequests
  BY DEF RetainUnseen
<1>2. "RECOVERY_REQUIRED" \in State /\ NoProc \in Proc \cup {NoProc}
  BY DEF State
<1>3. /\ count' \in 0 .. MaxRequests /\ count' = count + 1
      /\ st' \in [Request -> State \cup {"NONE"}]
      /\ \A r \in Request : st'[r] # "NONE" <=> r <= count'
      /\ req' \in [Request -> Row]
      /\ owner' \in [Request -> Proc \cup {NoProc}]
      /\ age' \in [Request -> 0 .. 2]
  BY <1>1, <1>2, InsertTypes
<1>4. UNCHANGED <<lease, proc, seq, overheld, auto, unknown, life, op, todo, snap, swept, dirty>>
  BY DEF RetainUnseen, grant, sweepVars
<1>5. auto \subseteq 1 .. count' /\ todo \subseteq 1 .. count'
  <2>1. auto \subseteq 1 .. count /\ todo \subseteq 1 .. count /\ count \in Nat
    BY ConstantsAssumption DEF TypeOK
  <2> QED
    BY <2>1, <1>3
<1> QED
  BY <1>3, <1>4, <1>5 DEF TypeOK

LEMMA TypeStep == ASSUME TypeOK, RoomForRow, [Next]_vars PROVE TypeOK' /\ RoomForRow'
<1>1. CASE Answer
  <2>1. op = "request" /\ count < MaxRequests
    BY <1>1 DEF Answer, Swept, RoomForRow
  <2>2. PICK row \in Row, p \in Proc \cup {NoProc} : Inherit(row, p) \/ Admit(row, p)
    BY <1>1 DEF Answer
  <2>3. op' = "idle"
    BY <2>2 DEF Inherit, Admit, EndTransaction
  <2> QED
    BY <2>1, <2>2, <2>3, TypeAnswer DEF RoomForRow
<1>2. CASE BeginRequest \/ BeginReconcile \/ BeginSweep
  <2>1. \E kind \in {"request", "reconcile", "sweep"} : BeginTransaction(kind)
    BY <1>2 DEF BeginRequest, BeginReconcile, BeginSweep
  <2>2. op' = "request" => count' < MaxRequests
    BY <1>2 DEF BeginRequest, BeginReconcile, BeginSweep, BeginTransaction
  <2> QED
    BY <2>1, <2>2, TypeTransaction DEF RoomForRow
<1>3. CASE SweepStep
  <2>1. UNCHANGED <<op, count>>
    BY <1>3 DEF SweepStep, SweepReleases, SweepAgain
  <2> QED
    BY <1>3, <2>1, TypeTransaction, TypeSweepReleases DEF SweepStep, RoomForRow
<1>4. CASE Finish
  <2>1. op' = "idle"
    BY <1>4 DEF Finish, FinishSweep, FinishReconcile, Refuse, EndTransaction
  <2> QED
    BY <1>4, <2>1, TypeTransaction, TypeReconcile DEF Finish, RoomForRow
<1>5. CASE Operation
  <2>1. UNCHANGED <<op, count>>
    BY <1>5 DEF Operation, Heartbeat, Release, Recover, Recoverable, MarkUncertain, MarkRecovery,
                RetainKnown, Fence, AttachChild, sweepVars
  <2> QED
    BY <1>5, <2>1, TypeOperation DEF RoomForRow
<1>6. CASE \E row \in Row : RetainUnseen(row)
  <2>1. op' = "idle"
    BY <1>6 DEF RetainUnseen, sweepVars
  <2> QED
    BY <1>6, <2>1, TypeRetain DEF RoomForRow
<1>7. CASE Environment
  <2>1. UNCHANGED <<op, count>>
    BY <1>7 DEF Environment, LeaseExpires, GrowsOld, HoldRunsOut, ProcessFails, sweepVars
  <2> QED
    BY <1>7, <2>1, TypeEnvironment DEF RoomForRow
<1>8. CASE UNCHANGED vars
  BY <1>8 DEF vars, TypeOK, RoomForRow
<1> QED
  BY <1>1, <1>2, <1>3, <1>4, <1>5, <1>6, <1>7, <1>8 DEF Next

----------------------------------------------------------------------------
(* The record a sweep keeps of what it released.                           *)

SweptReleased ==
    /\ \A r \in swept : st[r] = "RELEASED"
    /\ op = "idle" => swept = {}

LEMMA SweptStep ==
    ASSUME TypeOK, SweptReleased, [Next]_vars
    PROVE  SweptReleased'
<1>1. ASSUME UNCHANGED <<st, op, swept>> PROVE SweptReleased'
  BY <1>1 DEF SweptReleased
<1>2. ASSUME op' = "idle", swept' = {} PROVE SweptReleased'
  BY <1>2 DEF SweptReleased
<1>3. ASSUME op = "idle", UNCHANGED <<op, swept>> PROVE SweptReleased'
  BY <1>2, <1>3 DEF SweptReleased
<1>4. CASE BeginRequest \/ BeginReconcile \/ BeginSweep
  BY <1>4 DEF BeginRequest, BeginReconcile, BeginSweep, BeginTransaction, SweptReleased
<1>5. CASE SweepReleases
  <2>1. PICK r \in Stale :
          LET a == req[r].attempt
              released == {r} \cup {q \in Request : st[q] = "QUEUED" /\ req[q].attempt = a}
              s == [q \in Request |-> IF q \in released THEN "RELEASED" ELSE st[q]]
          IN  /\ CommitAndPromote(s, [lease EXCEPT ![r] = "NONE"], unknown', req[r].pool)
              /\ swept' = swept \cup {r}
    BY <1>5 DEF SweepReleases
  <2> DEFINE s == [q \in Request |->
                     IF q \in {r} \cup {x \in Request : st[x] = "QUEUED"
                                                    /\ req[x].attempt = req[r].attempt}
                     THEN "RELEASED" ELSE st[q]]
  <2>2. r \in Request
    BY ConstantsAssumption DEF Stale, TypeOK, Request
  <2>3. \A q \in swept' : q \in Request /\ s[q] = "RELEASED"
    BY <2>1, <2>2 DEF SweptReleased, TypeOK
  <2>4. \A q \in Request : s[q] = "RELEASED" => st'[q] = "RELEASED"
    <3>1. st' = [q \in Request |-> IF q \in Promotable(s, unknown', req[r].pool)
                                  THEN "ACTIVE" ELSE s[q]]
      BY <2>1 DEF CommitAndPromote
    <3>2. \A q \in Promotable(s, unknown', req[r].pool) : s[q] = "QUEUED"
      BY PromotableHasRoom
    <3> HIDE DEF s
    <3> QED
      BY <3>1, <3>2
  <2>5. op' # "idle"
    BY <1>5 DEF SweepReleases
  <2> QED
    BY <2>3, <2>4, <2>5 DEF SweptReleased
<1>6. CASE SweepAgain
  BY <1>1, <1>6 DEF SweepAgain
<1>7. CASE Finish \/ Answer
  BY <1>2, <1>7 DEF Finish, FinishSweep, FinishReconcile, Refuse, Answer, Inherit, Admit,
                    EndTransaction
<1>8. CASE Operation
  BY <1>3, <1>8 DEF Operation, Heartbeat, Release, Recover, Recoverable, MarkUncertain, MarkRecovery,
                    RetainKnown, Fence, AttachChild, sweepVars
<1>9. CASE \E row \in Row : RetainUnseen(row)
  BY <1>3, <1>9 DEF RetainUnseen, sweepVars
<1>10. CASE Environment
  BY <1>3, <1>10 DEF Environment, LeaseExpires, GrowsOld, HoldRunsOut, ProcessFails, sweepVars
<1>11. CASE UNCHANGED vars
  BY <1>1, <1>11 DEF vars
<1> QED
  BY <1>4, <1>5, <1>6, <1>7, <1>8, <1>9, <1>10, <1>11 DEF Next, SweepStep

----------------------------------------------------------------------------
(* The three ways a step can change who holds what.                        *)

\* Rows leave: grants and children are fenced, and a provider's observation can
\* fence a finished row again.
Fences ==
    /\ UNCHANGED <<count, req>>
    /\ auto' \subseteq auto
    /\ \A r \in Request : lease[r] # "NONE" => lease'[r] # "NONE"
    /\ \A r \in Request : st'[r] # st[r] =>
          /\ st'[r] = "RECOVERY_REQUIRED"
          /\ \/ st[r] \in {"ACTIVE", "INHERITED"}
             \/ st[r] = "RELEASED" /\ SourceOf[req[r].pool] # NoSource

\* Rows are released, all but one of them waiters, and at most one waiter is
\* granted in their place.
Commits ==
    /\ UNCHANGED <<count, req>>
    /\ \E s \in [Request -> State \cup {"NONE"}], p \in Pool :
          /\ \A r \in Request : s[r] # st[r] => s[r] = "RELEASED" /\ st[r] # "NONE"
          /\ \A r, x \in Request :
                s[r] # st[r] /\ s[x] # st[x] => r = x \/ "QUEUED" \in {st[r], st[x]}
          /\ \A r \in Request :
                /\ s[r] # st[r] /\ st[r] \in {"ACTIVE", "RECOVERY_REQUIRED"}
                /\ lease[r] # "NONE"
                => Children(st, r) = {}
          /\ \A r \in Request :
                \/ s[r] # "RELEASED" /\ lease[r] # "NONE"
                \/ r \in Promotable(s, unknown', p)
                => lease'[r] # "NONE"
          /\ \A x \in auto' \ auto, r \in Request :
                s[r] = "QUEUED" => req[x].attempt # req[r].attempt
          /\ st' = [r \in Request |->
                      IF r \in Promotable(s, unknown', p) THEN "ACTIVE" ELSE s[r]]

\* One row is inserted; it takes capacity only where there was some.
Inserts ==
    /\ count' = count + 1 /\ count' \in Request
    /\ UNCHANGED <<auto, unknown>>
    /\ \A r \in Request : lease[r] # "NONE" => lease'[r] # "NONE"
    /\ \E row \in Row, state \in State :
          /\ st' = [st EXCEPT ![count'] = state]
          /\ req' = [req EXCEPT ![count'] = row]
          /\ state = "ACTIVE" => /\ ~PoolFull(st, row.pool)
                                 /\ ~SlotBusy(st, row.pool, row.slot)
          /\ state \in {"ACTIVE", "INHERITED"} => ~SourceFull(st, row.pool)
          /\ state = "QUEUED" => \/ PoolFull(st, row.pool)
                                 \/ SourceFull(st, row.pool)
                                 \/ SlotBusy(st, row.pool, row.slot)
          /\ state \in {"QUEUED", "ACTIVE", "INHERITED"} => ~Revoked(row.attempt)
          /\ state = "ACTIVE" => lease'[count'] # "NONE"
          /\ state = "INHERITED" => /\ Inheritable(row.parent, row.pool)
                                    /\ Children(st, row.parent) = {}
          /\ state = "RECOVERY_REQUIRED" => SourceOf[row.pool] # NoSource

LEMMA AnswerInserts ==
    ASSUME TypeOK, RoomForRow, Answer
    PROVE  Inserts
<1>1. op = "request" /\ count < MaxRequests
  BY DEF Answer, Swept, RoomForRow
<1>2. PICK row \in Row, p \in Proc \cup {NoProc} : Inherit(row, p) \/ Admit(row, p)
  BY DEF Answer
<1>3. PICK state \in State :
        /\ Insert(row, state, p)
        /\ state = "ACTIVE" => /\ ~PoolFull(st, row.pool)
                               /\ ~SlotBusy(st, row.pool, row.slot)
        /\ state \in {"ACTIVE", "INHERITED"} => ~SourceFull(st, row.pool)
        /\ state = "QUEUED" => \/ PoolFull(st, row.pool)
                               \/ SourceFull(st, row.pool)
                               \/ SlotBusy(st, row.pool, row.slot)
        /\ ~Revoked(row.attempt)
        /\ state = "ACTIVE" => lease' = [lease EXCEPT ![count'] = "FRESH"]
        /\ state # "ACTIVE" => lease' = lease
        /\ state = "INHERITED" => /\ Inheritable(row.parent, row.pool)
                                  /\ Children(st, row.parent) = {}
        /\ state # "RECOVERY_REQUIRED"
  <2>1. CASE Inherit(row, p)
    <3>1. Inheritable(row.parent, row.pool) /\ lease' = lease
      BY <2>1 DEF Inherit, grant
    <3> DEFINE state == IF Children(st, row.parent) = {} THEN "INHERITED" ELSE "QUARANTINED"
    <3>2. state \in State /\ state \notin {"QUEUED", "ACTIVE", "RECOVERY_REQUIRED"}
      BY DEF State
    <3>3. Insert(row, state, p) /\ ~SourceFull(st, row.pool) /\ ~Revoked(row.attempt)
      BY <2>1 DEF Inherit
    <3> QED
      BY <3>1, <3>2, <3>3
  <2>2. CASE Admit(row, p)
    BY <2>2 DEF Admit, State, grant
  <2> QED
    BY <1>2, <2>1, <2>2
<1>4. count' = count + 1 /\ count' \in Request
  BY <1>1, <1>3, InsertTypes
<1>5. UNCHANGED <<auto, unknown>>
  BY <1>2 DEF Inherit, Admit
<1>6. st' = [st EXCEPT ![count'] = state] /\ req' = [req EXCEPT ![count'] = row]
  BY <1>3 DEF Insert
<1>7. /\ \A r \in Request : lease[r] # "NONE" => lease'[r] # "NONE"
      /\ state = "ACTIVE" => lease'[count'] # "NONE"
  BY <1>3, <1>4 DEF TypeOK
<1> QED
  BY <1>3, <1>4, <1>5, <1>6, <1>7 DEF Inserts

LEMMA RetainInserts ==
    ASSUME TypeOK, NEW row \in Row, RetainUnseen(row)
    PROVE  Inserts
<1>1. Insert(row, "RECOVERY_REQUIRED", NoProc) /\ count < MaxRequests
      /\ row.pool \in ProviderPool /\ UNCHANGED <<auto, unknown, lease>>
  BY DEF RetainUnseen, grant
<1>2. "RECOVERY_REQUIRED" \in State /\ NoProc \in Proc \cup {NoProc}
  BY DEF State
<1>3. count' = count + 1 /\ count' \in Request
  BY <1>1, <1>2, InsertTypes
<1>4. SourceOf[row.pool] # NoSource
  BY <1>1, ConstantsAssumption
<1>5. /\ st' = [st EXCEPT ![count'] = "RECOVERY_REQUIRED"]
      /\ req' = [req EXCEPT ![count'] = row]
  BY <1>1 DEF Insert
<1> QED
  BY <1>1, <1>2, <1>3, <1>4, <1>5 DEF Inserts

LEMMA ReleaseCommits ==
    ASSUME TypeOK, NEW r \in Request,
           CommitAndPromote([st EXCEPT ![r] = "RELEASED"], lease, unknown, req[r].pool),
           UNCHANGED <<count, req, unknown>>, auto' \subseteq auto, st[r] # "NONE",
           st[r] \in {"ACTIVE", "RECOVERY_REQUIRED"} /\ lease[r] # "NONE"
               => Children(st, r) = {}
    PROVE  Commits
<1> DEFINE s == [st EXCEPT ![r] = "RELEASED"]
<1>1. s \in [Request -> State \cup {"NONE"}]
  BY DEF TypeOK, State
<1>2. \A q \in Request : s[q] # st[q] => s[q] = "RELEASED" /\ st[q] # "NONE"
  BY DEF TypeOK
<1>3. req[r].pool \in Pool
  BY DEF TypeOK, Row
<1>4. st' = [q \in Request |-> IF q \in Promotable(s, unknown', req[r].pool)
                                THEN "ACTIVE" ELSE s[q]]
  BY DEF CommitAndPromote
<1>5. \A q \in Request : s[q] # st[q] => q = r
  BY DEF TypeOK
<1>6. \A q \in Request :
        lease[q] # "NONE" \/ q \in Promotable(s, unknown', req[r].pool) => lease'[q] # "NONE"
  BY DEF CommitAndPromote
<1> HIDE DEF s
<1> QED
  BY <1>1, <1>2, <1>3, <1>4, <1>5, <1>6 DEF Commits

LEMMA SweepCommits == ASSUME TypeOK, SweptReleased, SweepReleases PROVE Commits
<1>1. PICK r \in Stale :
        LET a == req[r].attempt
            released == {r} \cup {q \in Request : st[q] = "QUEUED" /\ req[q].attempt = a}
            s == [q \in Request |-> IF q \in released THEN "RELEASED" ELSE st[q]]
        IN  /\ CommitAndPromote(s, [lease EXCEPT ![r] = "NONE"], unknown', req[r].pool)
            /\ auto' = auto \cup released
  BY DEF SweepReleases
<1> DEFINE released == {r} \cup {q \in Request : st[q] = "QUEUED"
                                                  /\ req[q].attempt = req[r].attempt}
           s == [q \in Request |-> IF q \in released THEN "RELEASED" ELSE st[q]]
<1>2. r \in Request /\ st[r] # "NONE"
  <2>1. r \in 1 .. count /\ count \in 0 .. MaxRequests /\ MaxRequests \in Nat
    BY ConstantsAssumption DEF Stale, TypeOK
  <2>2. r \in Request /\ r <= count
    BY <2>1 DEF Request
  <2> QED
    BY <2>2 DEF TypeOK
<1>3. s \in [Request -> State \cup {"NONE"}] /\ req[r].pool \in Pool
  BY <1>2 DEF TypeOK, State, Row
<1>4. /\ \A q \in Request : s[q] # st[q] => s[q] = "RELEASED" /\ st[q] # "NONE"
      /\ \A q, x \in Request :
            s[q] # st[q] /\ s[x] # st[x] => q = x \/ "QUEUED" \in {st[q], st[x]}
  <2>1. \A q \in Request : s[q] # st[q] => s[q] = "RELEASED" /\ (q = r \/ st[q] = "QUEUED")
    OBVIOUS
  <2> HIDE DEF s
  <2> QED
    BY <1>2, <2>1
<1>5. st' = [q \in Request |-> IF q \in Promotable(s, unknown', req[r].pool)
                                THEN "ACTIVE" ELSE s[q]]
  BY <1>1 DEF CommitAndPromote
<1>6. \A x \in auto' \ auto, q \in Request :
        s[q] = "QUEUED" => req[x].attempt # req[q].attempt
  <2>1. \A x \in released : req[x].attempt = req[r].attempt
    OBVIOUS
  <2>2. \A q \in Request : s[q] = "QUEUED" => req[q].attempt # req[r].attempt
    OBVIOUS
  <2> QED
    BY <1>1, <2>1, <2>2
<1>7. \A q \in Request :
        /\ s[q] # st[q] /\ st[q] \in {"ACTIVE", "RECOVERY_REQUIRED"} /\ lease[q] # "NONE"
        => Children(st, q) = {}
  <2> SUFFICES ASSUME st[r] \in {"ACTIVE", "RECOVERY_REQUIRED"}, lease[r] # "NONE"
               PROVE  Children(st, r) = {}
    OBVIOUS
  <2>1. LeaseId(r) = r /\ r # None
    BY <1>2 DEF LeaseId, Request, None
  <2>2. Children(st, r) \subseteq swept \cup {r}
    BY <2>1 DEF Stale, Sweepable
  <2>3. \A c \in Children(st, r) : st[c] = "INHERITED"
    BY DEF Children
  <2> QED
    BY <2>2, <2>3 DEF SweptReleased
<1>8. \A q \in Request :
        \/ s[q] # "RELEASED" /\ lease[q] # "NONE"
        \/ q \in Promotable(s, unknown', req[r].pool)
        => lease'[q] # "NONE"
  <2>1. s[r] = "RELEASED"
    BY <1>2
  <2> QED
    BY <1>1, <2>1 DEF CommitAndPromote, TypeOK
<1>9. UNCHANGED <<count, req>>
  BY DEF SweepReleases
<1> HIDE DEF s, released
<1> QED
  BY <1>3, <1>4, <1>5, <1>6, <1>7, <1>8, <1>9 DEF Commits

LEMMA FenceFences ==
    ASSUME TypeOK, NEW r \in Request, MarkUncertain(r) \/ MarkRecovery(r) \/ RetainKnown(r)
    PROVE  Fences
<1>1. /\ Fence(r)
      /\ \/ st[r] \in {"ACTIVE", "INHERITED", "RECOVERY_REQUIRED"}
         \/ st[r] = "RELEASED" /\ SourceOf[req[r].pool] # NoSource
  <2>1. CASE MarkUncertain(r) \/ MarkRecovery(r)
    BY <2>1 DEF MarkUncertain, MarkRecovery
  <2>2. CASE RetainKnown(r)
    BY <2>2, ConstantsAssumption DEF RetainKnown
  <2> QED
    BY <2>1, <2>2
<1> QED
  BY <1>1 DEF Fence, Fences, TypeOK, grant

LEMMA StepKinds ==
    ASSUME TypeOK, RoomForRow, SweptReleased, [Next]_vars
    PROVE  Fences \/ Commits \/ Inserts
<1>1. ASSUME UNCHANGED <<count, st, req, auto, lease>> PROVE Fences
  BY <1>1 DEF Fences
<1>2. CASE BeginRequest \/ BeginReconcile \/ BeginSweep
  BY <1>1, <1>2 DEF BeginRequest, BeginReconcile, BeginSweep, BeginTransaction, grant
<1>3. CASE SweepStep
  BY <1>1, <1>3, SweepCommits DEF SweepStep, SweepAgain, grant
<1>4. CASE Finish
  <2>1. CASE FinishSweep \/ Refuse
    BY <1>1, <2>1 DEF FinishSweep, Refuse, grant
  <2>2. CASE FinishReconcile
    BY <2>2 DEF FinishReconcile, Fences, grant
  <2> QED
    BY <1>4, <2>1, <2>2 DEF Finish
<1>5. CASE Operation
  <2>1. ASSUME NEW r \in Request, Release(r) PROVE Commits
    BY <2>1, ReleaseCommits DEF Release
  <2>2. ASSUME NEW r \in Request, NEW attested \in BOOLEAN, Recover(r, attested) PROVE Commits
    <3>1. lease[r] # "NONE" => LeaseId(r) = r /\ r # None
      BY DEF LeaseId, Request, None
    <3> QED
      BY <2>2, <3>1, ReleaseCommits DEF Recover, Recoverable
  <2>3. ASSUME NEW r \in Request, NEW n \in 1 .. MaxSequence, Heartbeat(r, n) PROVE Fences
    BY <1>1, <2>3 DEF Heartbeat
  <2>4. ASSUME NEW r \in Request, NEW p \in Proc, AttachChild(r, p) PROVE Fences
    BY <1>1, <2>4 DEF AttachChild
  <2> QED
    BY <1>5, <2>1, <2>2, <2>3, <2>4, FenceFences DEF Operation
<1>6. CASE Environment
  <2>1. ASSUME NEW r \in Request, LeaseExpires(r) PROVE Fences
    BY <2>1 DEF LeaseExpires, Fences, TypeOK
  <2> QED
    BY <1>1, <1>6, <2>1 DEF Environment, GrowsOld, HoldRunsOut, ProcessFails, grant
<1>7. CASE UNCHANGED vars
  BY <1>1, <1>7 DEF vars
<1> QED
  BY <1>2, <1>3, <1>4, <1>5, <1>6, <1>7, AnswerInserts, RetainInserts DEF Next

\* What every later invariant rests on.
Journal == TypeOK /\ RoomForRow /\ SweptReleased

LEMMA JournalHolds == Spec => []Journal
<1>1. Init => Journal
  BY TypeInit DEF Init, RoomForRow, SweptReleased, Journal
<1>2. Journal /\ [Next]_vars => Journal'
  BY TypeStep, SweptStep DEF Journal
<1> QED
  BY <1>1, <1>2, PTL DEF Spec

\* Every state the journal can reach is well formed: ids are allocated without
\* gaps, promotion and sweep touch only rows that exist, and a candidate of a
\* sweep is a row of the journal.
THEOREM TypeCorrect == Spec => []TypeOK
<1>1. Journal => TypeOK
  BY DEF Journal
<1> QED
  BY <1>1, JournalHolds, PTL

----------------------------------------------------------------------------
(* Counting rows                                                           *)

LEMMA RowsAreFinite ==
    ASSUME NEW A \in SUBSET Request
    PROVE  IsFiniteSet(A) /\ Cardinality(A) \in Nat
<1>1. IsFiniteSet(Request)
  BY FS_Interval, ConstantsAssumption DEF Request
<1> QED
  BY <1>1, FS_Subset, FS_CardinalityType

LEMMA FewerRows ==
    ASSUME NEW A \in SUBSET Request, NEW B \in SUBSET A
    PROVE  Cardinality(B) <= Cardinality(A)
BY RowsAreFinite, FS_Subset

LEMMA OneMoreRow ==
    ASSUME NEW A \in SUBSET Request, NEW q \in Request, NEW B \in SUBSET (A \cup {q}),
           NEW n \in Nat, ~(Cardinality(A) >= n)
    PROVE  Cardinality(B) <= n
<1>1. IsFiniteSet(A) /\ Cardinality(A) \in Nat
  BY RowsAreFinite
<1>2. A \cup {q} \in SUBSET Request
  OBVIOUS
<1>3. Cardinality(A \cup {q}) <= Cardinality(A) + 1
  <2>1. CASE q \in A
    <3>1. A \cup {q} = A
      BY <2>1
    <3> QED
      BY <1>1, <3>1
  <2>2. CASE q \notin A
    <3>1. Cardinality(A \cup {q}) = Cardinality(A) + 1
      BY <1>1, <2>2, FS_AddElement
    <3> QED
      BY <1>1, <3>1
  <2> QED
    BY <2>1, <2>2
<1>4. Cardinality(B) <= Cardinality(A \cup {q})
  BY <1>2, FewerRows
<1>5. Cardinality(B) \in Nat /\ Cardinality(A \cup {q}) \in Nat
  BY <1>2, RowsAreFinite
<1> QED
  BY <1>1, <1>3, <1>4, <1>5

LEMMA CapacityTypes ==
    /\ \A p \in Pool : Capacity[p] \in Nat
    /\ \A p \in Pool : SourceOf[p] # NoSource => SourceCapacity[SourceOf[p]] \in Nat
<1>1. \A p \in Pool : Capacity[p] \in Nat
  BY ConstantsAssumption
<1>2. \A p \in Pool : SourceOf[p] # NoSource => SourceOf[p] \in Sources
  BY DEF Sources
<1>3. \A x \in Sources : SourceCapacity[x] \in Nat
  BY ConstantsAssumption
<1> QED
  BY <1>1, <1>2, <1>3

\* A promotion adds one row to those its journal already counted, and only where
\* its pool had room.
LEMMA CommitAddsOne ==
    ASSUME TypeOK, NEW s, NEW p,
           st' = [r \in Request |-> IF r \in Promotable(s, unknown', p) THEN "ACTIVE" ELSE s[r]]
    PROVE  \/ \A r \in Request : st'[r] = s[r]
           \/ \E q \in Request :
                 /\ s[q] = "QUEUED" /\ req[q].attempt \notin unknown'
                 /\ ~PoolFull(s, req[q].pool)
                 /\ ~SourceFull(s, req[q].pool)
                 /\ ~SlotBusy(s, req[q].pool, req[q].slot)
                 /\ st'[q] = "ACTIVE"
                 /\ \A r \in Request \ {q} : st'[r] = s[r]
<1>1. CASE Promotable(s, unknown', p) = {}
  BY <1>1
<1>2. CASE Promotable(s, unknown', p) # {}
  <2>1. PICK q \in Promotable(s, unknown', p) : TRUE
    BY <1>2
  <2>2. /\ q \in Request
        /\ s[q] = "QUEUED" /\ req[q].attempt \notin unknown'
        /\ ~PoolFull(s, req[q].pool)
        /\ ~SourceFull(s, req[q].pool)
        /\ ~SlotBusy(s, req[q].pool, req[q].slot)
    BY <2>1, PromotableHasRoom
  <2>3. \A x \in Promotable(s, unknown', p) : x = q
    BY <2>1, PromotableIsOne
  <2> QED
    BY <2>1, <2>2, <2>3
<1> QED
  BY <1>1, <1>2

----------------------------------------------------------------------------
(* Capacity                                                                *)

LEMMA GrantsStep ==
    ASSUME TypeOK, RoomForRow, SweptReleased, GrantsWithinCapacity, [Next]_vars
    PROVE  GrantsWithinCapacity'
<1> SUFFICES ASSUME NEW p \in Pool
             PROVE  Cardinality(In(st, {"ACTIVE"}, p)') <= Capacity[p]
  BY DEF GrantsWithinCapacity
<1> DEFINE A == In(st, {"ACTIVE"}, p)
           B == {r \in Request : st'[r] = "ACTIVE" /\ req'[r].pool = p}
<1>1. /\ In(st, {"ACTIVE"}, p)' = B
      /\ A \in SUBSET Request /\ Cardinality(A) <= Capacity[p] /\ Capacity[p] \in Nat
  BY CapacityTypes DEF In, GrantsWithinCapacity
<1>2. ASSUME B \subseteq A PROVE Cardinality(B) <= Capacity[p]
  <2>1. Cardinality(B) <= Cardinality(A) /\ Cardinality(B) \in Nat /\ Cardinality(A) \in Nat
    BY <1>1, <1>2, FewerRows, RowsAreFinite
  <2> QED
    BY <1>1, <2>1
<1>3. ASSUME NEW s, NEW q \in Request, ~PoolFull(s, p), B \subseteq Holding(s, p) \cup {q}
      PROVE  Cardinality(B) <= Capacity[p]
  <2>1. Holding(s, p) \in SUBSET Request
    BY DEF Holding, In
  <2> QED
    BY <1>1, <1>3, <2>1, OneMoreRow DEF PoolFull
<1>4. CASE Fences
  BY <1>1, <1>2, <1>4 DEF Fences, In
<1>5. CASE Commits
  <2>1. PICK s \in [Request -> State \cup {"NONE"}], x \in Pool :
          /\ \A r \in Request : s[r] # st[r] => s[r] = "RELEASED"
          /\ st' = [r \in Request |-> IF r \in Promotable(s, unknown', x) THEN "ACTIVE" ELSE s[r]]
    BY <1>5 DEF Commits
  <2>2. req' = req
    BY <1>5 DEF Commits
  <2>3. CASE \A r \in Request : st'[r] = s[r]
    BY <1>1, <1>2, <2>1, <2>2, <2>3 DEF In
  <2>4. CASE \E q \in Request :
                /\ ~PoolFull(s, req[q].pool)
                /\ \A r \in Request \ {q} : st'[r] = s[r]
    <3>1. PICK q \in Request : /\ ~PoolFull(s, req[q].pool)
                               /\ \A r \in Request \ {q} : st'[r] = s[r]
      BY <2>4
    <3>2. CASE req[q].pool = p
      <4>1. B \subseteq Holding(s, p) \cup {q}
        BY <2>2, <3>1 DEF Holding, In
      <4> QED
        BY <1>1, <1>3, <3>1, <3>2, <4>1
    <3>3. CASE req[q].pool # p
      <4>1. B \subseteq A
        BY <2>1, <2>2, <3>1, <3>3 DEF In
      <4> QED
        BY <1>1, <1>2, <4>1
    <3> QED
      BY <3>2, <3>3
  <2> QED
    BY <2>1, <2>3, <2>4, CommitAddsOne
<1>6. CASE Inserts
  <2>1. PICK row \in Row, state \in State :
          /\ st' = [st EXCEPT ![count'] = state]
          /\ req' = [req EXCEPT ![count'] = row]
          /\ state = "ACTIVE" => ~PoolFull(st, row.pool)
    BY <1>6 DEF Inserts
  <2>2. count' \in Request
    BY <1>6 DEF Inserts
  <2>3. \A r \in Request \ {count'} : st'[r] = st[r] /\ req'[r] = req[r]
    BY <2>1, <2>2 DEF TypeOK
  <2>4. st'[count'] = state /\ req'[count'] = row
    BY <2>1, <2>2 DEF TypeOK
  <2>5. CASE state = "ACTIVE" /\ row.pool = p
    <3>1. B \subseteq Holding(st, p) \cup {count'}
      BY <2>3, <2>4 DEF Holding, In
    <3> QED
      BY <1>1, <1>3, <2>1, <2>2, <2>5, <3>1
  <2>6. CASE ~(state = "ACTIVE" /\ row.pool = p)
    <3>1. B \subseteq A
      BY <2>3, <2>4, <2>6 DEF In
    <3> QED
      BY <1>1, <1>2, <3>1
  <2> QED
    BY <2>5, <2>6
<1> QED
  BY <1>4, <1>5, <1>6, StepKinds

\* No pool ever holds more grants than its capacity, for any number of pools,
\* capacities, attempts and requests.
THEOREM GrantsCorrect == Spec => []GrantsWithinCapacity
<1>1. Init => GrantsWithinCapacity
  <2> SUFFICES ASSUME Init, NEW p \in Pool
               PROVE  Cardinality(In(st, {"ACTIVE"}, p)) <= Capacity[p]
    BY DEF GrantsWithinCapacity
  <2>1. In(st, {"ACTIVE"}, p) = {}
    BY DEF Init, In
  <2> QED
    BY <2>1, FS_EmptySet, CapacityTypes
<1>2. Journal /\ GrantsWithinCapacity /\ [Next]_vars => GrantsWithinCapacity'
  BY GrantsStep DEF Journal
<1> QED
  BY <1>1, <1>2, JournalHolds, PTL DEF Spec

----------------------------------------------------------------------------
(* Exclusive slots                                                         *)

LEMMA SlotsStep ==
    ASSUME TypeOK, RoomForRow, SweptReleased, SlotsExclusive, [Next]_vars
    PROVE  SlotsExclusive'
<1> SUFFICES ASSUME NEW r \in Request, NEW x \in Request,
                    st'[r] = "ACTIVE", st'[x] = "ACTIVE",
                    req'[r].pool = req'[x].pool,
                    req'[r].slot = req'[x].slot, req'[r].slot # NoSlot, r # x
             PROVE  FALSE
  BY DEF SlotsExclusive
<1>1. ASSUME st[r] = "ACTIVE", st[x] = "ACTIVE", req'[r] = req[r], req'[x] = req[x]
      PROVE  FALSE
  BY <1>1 DEF SlotsExclusive
<1>2. ASSUME NEW s, NEW q, ~SlotBusy(s, req'[q].pool, req'[q].slot),
             NEW y \in Request, s[y] = "ACTIVE", req'[y] = req[y],
             req'[y].pool = req'[q].pool, req'[y].slot = req'[q].slot,
             req'[q].slot # NoSlot
      PROVE  FALSE
  BY <1>2 DEF SlotBusy, Holding, In
<1>3. CASE Fences
  BY <1>1, <1>3 DEF Fences
<1>4. CASE Commits
  <2>1. PICK s \in [Request -> State \cup {"NONE"}], p \in Pool :
          /\ \A y \in Request : s[y] # st[y] => s[y] = "RELEASED"
          /\ st' = [y \in Request |-> IF y \in Promotable(s, unknown', p) THEN "ACTIVE" ELSE s[y]]
    BY <1>4 DEF Commits
  <2>2. req' = req
    BY <1>4 DEF Commits
  <2>3. CASE \A y \in Request : st'[y] = s[y]
    BY <1>1, <2>1, <2>2, <2>3
  <2>4. CASE \E q \in Request :
                /\ ~SlotBusy(s, req[q].pool, req[q].slot)
                /\ \A y \in Request \ {q} : st'[y] = s[y]
    <3>1. PICK q \in Request : /\ ~SlotBusy(s, req[q].pool, req[q].slot)
                               /\ \A y \in Request \ {q} : st'[y] = s[y]
      BY <2>4
    <3>2. CASE q = r
      <4>1. s[x] = "ACTIVE"
        BY <3>1, <3>2
      <4> QED
        BY <1>2, <2>2, <3>1, <3>2, <4>1
    <3>3. CASE q = x
      <4>1. s[r] = "ACTIVE"
        BY <3>1, <3>3
      <4> QED
        BY <1>2, <2>2, <3>1, <3>3, <4>1
    <3>4. CASE q # r /\ q # x
      <4>1. st[r] = "ACTIVE" /\ st[x] = "ACTIVE"
        BY <2>1, <3>1, <3>4
      <4> QED
        BY <1>1, <2>2, <4>1
    <3> QED
      BY <3>2, <3>3, <3>4
  <2> QED
    BY <2>1, <2>3, <2>4, CommitAddsOne
<1>5. CASE Inserts
  <2>1. PICK row \in Row, state \in State :
          /\ st' = [st EXCEPT ![count'] = state]
          /\ req' = [req EXCEPT ![count'] = row]
          /\ state = "ACTIVE" => ~SlotBusy(st, row.pool, row.slot)
    BY <1>5 DEF Inserts
  <2>2. count' \in Request
    BY <1>5 DEF Inserts
  <2>3. \A y \in Request \ {count'} : st'[y] = st[y] /\ req'[y] = req[y]
    BY <2>1, <2>2 DEF TypeOK
  <2>4. st'[count'] = state /\ req'[count'] = row
    BY <2>1, <2>2 DEF TypeOK
  <2>5. ASSUME NEW q \in Request, NEW y \in Request, q = count', y # q,
               st'[q] = "ACTIVE", st'[y] = "ACTIVE",
               req'[y].pool = req'[q].pool, req'[y].slot = req'[q].slot,
               req'[q].slot # NoSlot
        PROVE  FALSE
    <3>1. ~SlotBusy(st, req'[q].pool, req'[q].slot)
      BY <2>1, <2>4, <2>5
    <3>2. st[y] = "ACTIVE" /\ req'[y] = req[y]
      BY <2>3, <2>5
    <3> QED
      BY <1>2, <2>5, <3>1, <3>2
  <2>6. CASE r = count' \/ x = count'
    BY <2>5, <2>6
  <2>7. CASE r # count' /\ x # count'
    BY <1>1, <2>3, <2>7
  <2> QED
    BY <2>6, <2>7
<1> QED
  BY <1>3, <1>4, <1>5, StepKinds

\* No two grants of a pool share an exclusive slot key, though promotion passes
\* over waiters whose slot is taken.
THEOREM SlotsCorrect == Spec => []SlotsExclusive
<1>1. Init => SlotsExclusive
  BY DEF Init, SlotsExclusive
<1>2. Journal /\ SlotsExclusive /\ [Next]_vars => SlotsExclusive'
  BY SlotsStep DEF Journal
<1> QED
  BY <1>1, <1>2, JournalHolds, PTL DEF Spec

----------------------------------------------------------------------------
(* Revoked attempts                                                        *)

\* Why a promotion never grants to an attempt whose request a sweep released:
\* that sweep released the attempt's waiters in the same step.
WaitersNotRevoked ==
    \A r \in Request, x \in auto : st[r] = "QUEUED" => req[x].attempt # req[r].attempt

LEMMA WaitersNotRevokedStep ==
    ASSUME TypeOK, RoomForRow, SweptReleased, WaitersNotRevoked, [Next]_vars
    PROVE  WaitersNotRevoked'
<1> SUFFICES ASSUME NEW r \in Request, NEW x \in auto', st'[r] = "QUEUED"
             PROVE  req'[x].attempt # req'[r].attempt
  BY DEF WaitersNotRevoked
<1>1. CASE Fences
  BY <1>1 DEF Fences, WaitersNotRevoked
<1>2. CASE Commits
  <2>1. PICK s \in [Request -> State \cup {"NONE"}], p \in Pool :
          /\ \A y \in Request : s[y] # st[y] => s[y] = "RELEASED"
          /\ \A z \in auto' \ auto, y \in Request :
                s[y] = "QUEUED" => req[z].attempt # req[y].attempt
          /\ st' = [y \in Request |-> IF y \in Promotable(s, unknown', p) THEN "ACTIVE" ELSE s[y]]
    BY <1>2 DEF Commits
  <2>2. s[r] = "QUEUED" /\ st[r] = "QUEUED"
    BY <2>1
  <2> QED
    BY <1>2, <2>1, <2>2 DEF Commits, WaitersNotRevoked
<1>3. CASE Inserts
  <2>1. PICK row \in Row, state \in State :
          /\ st' = [st EXCEPT ![count'] = state]
          /\ req' = [req EXCEPT ![count'] = row]
          /\ state = "QUEUED" => ~Revoked(row.attempt)
    BY <1>3 DEF Inserts
  <2>2. auto' = auto /\ count' \in Request /\ count' = count + 1
    BY <1>3 DEF Inserts
  <2>3. x \in auto /\ x \in Request /\ x # count'
    BY <2>2, ConstantsAssumption DEF TypeOK, Request
  <2>4. req'[x] = req[x]
    BY <2>1, <2>2, <2>3 DEF TypeOK
  <2>5. CASE r = count'
    <3>1. ~Revoked(row.attempt) /\ req'[r] = row
      BY <2>1, <2>2, <2>5 DEF TypeOK
    <3> QED
      BY <2>3, <2>4, <3>1 DEF Revoked
  <2>6. CASE r # count'
    <3>1. st[r] = "QUEUED" /\ req'[r] = req[r]
      BY <2>1, <2>2, <2>6 DEF TypeOK
    <3> QED
      BY <2>3, <2>4, <3>1 DEF WaitersNotRevoked
  <2> QED
    BY <2>5, <2>6
<1> QED
  BY <1>1, <1>2, <1>3, StepKinds

LEMMA NeverGrantedStep ==
    ASSUME TypeOK, RoomForRow, SweptReleased, WaitersNotRevoked, [Next]_vars,
           NEW r \in Request, st[r] \notin {"ACTIVE", "INHERITED"},
           st'[r] \in {"ACTIVE", "INHERITED"}
    PROVE  /\ req'[r].attempt \notin unknown'
           /\ \A x \in auto' : req'[x].attempt # req'[r].attempt
<1>1. CASE Fences
  BY <1>1 DEF Fences
<1>2. CASE Commits
  <2>1. PICK s \in [Request -> State \cup {"NONE"}], p \in Pool :
          /\ \A y \in Request : s[y] # st[y] => s[y] = "RELEASED"
          /\ \A z \in auto' \ auto, y \in Request :
                s[y] = "QUEUED" => req[z].attempt # req[y].attempt
          /\ st' = [y \in Request |-> IF y \in Promotable(s, unknown', p) THEN "ACTIVE" ELSE s[y]]
    BY <1>2 DEF Commits
  <2>2. r \in Promotable(s, unknown', p)
    BY <2>1
  <2>3. s[r] = "QUEUED" /\ req[r].attempt \notin unknown'
    BY <2>2, PromotableHasRoom
  <2>4. st[r] = "QUEUED"
    BY <2>1, <2>3
  <2> QED
    BY <1>2, <2>1, <2>3, <2>4 DEF Commits, WaitersNotRevoked
<1>3. CASE Inserts
  <2>1. PICK row \in Row, state \in State :
          /\ st' = [st EXCEPT ![count'] = state]
          /\ req' = [req EXCEPT ![count'] = row]
          /\ state \in {"ACTIVE", "INHERITED"} => ~Revoked(row.attempt)
    BY <1>3 DEF Inserts
  <2>2. auto' = auto /\ unknown' = unknown /\ count' \in Request /\ count' = count + 1
    BY <1>3 DEF Inserts
  <2>3. r = count'
    BY <2>1, <2>2 DEF TypeOK
  <2>4. req'[r] = row /\ ~Revoked(row.attempt)
    BY <2>1, <2>2, <2>3 DEF TypeOK
  <2>5. \A x \in auto : x \in Request /\ x # count'
    BY <2>2, ConstantsAssumption DEF TypeOK, Request
  <2>6. \A x \in auto : req'[x] = req[x]
    BY <2>1, <2>2, <2>5 DEF TypeOK
  <2> QED
    BY <2>2, <2>4, <2>6 DEF Revoked
<1> QED
  BY <1>1, <1>2, <1>3, StepKinds

\* An attempt whose outcome a sweep has declared UNKNOWN, or one of whose
\* requests it has released, is never granted anything again: not by request, not
\* as an inherited child and not by a promotion of a waiter it left behind.
THEOREM RevokedCorrect == Spec => RevokedNeverGranted
<1>1. Init => WaitersNotRevoked
  BY DEF Init, WaitersNotRevoked
<1>2. Journal /\ WaitersNotRevoked /\ [Next]_vars => WaitersNotRevoked'
  BY WaitersNotRevokedStep DEF Journal
<1>3. Journal /\ WaitersNotRevoked /\ [Next]_vars =>
        [\A r \in Request :
            st[r] \notin {"ACTIVE", "INHERITED"} /\ st'[r] \in {"ACTIVE", "INHERITED"}
                => /\ req'[r].attempt \notin unknown'
                   /\ \A x \in auto' : req'[x].attempt # req'[r].attempt]_vars
  BY NeverGrantedStep DEF Journal
<1> QED
  BY <1>1, <1>2, <1>3, JournalHolds, PTL DEF Spec, RevokedNeverGranted

----------------------------------------------------------------------------
(* Children and their parents                                              *)

GrantsHaveLeases == \A r \in Request : st[r] = "ACTIVE" => lease[r] # "NONE"

\* ChildUnderHeldParent for one child, of given states, columns and leases.
Sheltered(s, columns, leases, c) ==
    \E l \in Request :
        /\ columns[c].parent = l
        /\ s[l] \in {"ACTIVE", "RECOVERY_REQUIRED"} /\ leases[l] # "NONE"
        /\ \A x \in Request : s[x] = "INHERITED" /\ columns[x].parent = l => x = c

LEMMA ShelteredForm ==
    TypeOK => (ChildUnderHeldParent <=>
                 \A c \in Request : st[c] = "INHERITED" => Sheltered(st, req, lease, c))
<1> SUFFICES ASSUME TypeOK
             PROVE  \A c \in Request : st[c] = "INHERITED" =>
                      ((LET l == req[c].parent IN
                          /\ l # None /\ st[l] \in {"ACTIVE", "RECOVERY_REQUIRED"}
                          /\ lease[l] # "NONE"
                          /\ Children(st, l) = {c})
                       <=> Sheltered(st, req, lease, c))
  BY DEF ChildUnderHeldParent
<1> SUFFICES ASSUME NEW c \in Request, st[c] = "INHERITED"
             PROVE  (LET l == req[c].parent IN
                       /\ l # None /\ st[l] \in {"ACTIVE", "RECOVERY_REQUIRED"}
                       /\ lease[l] # "NONE"
                       /\ Children(st, l) = {c})
                    <=> Sheltered(st, req, lease, c)
  OBVIOUS
<1>1. req[c].parent \in Request \cup {None} /\ None \notin Request
  BY DEF TypeOK, Row, Request, None
<1>2. Children(st, req[c].parent) = {c}
        <=> \A x \in Request : st[x] = "INHERITED" /\ req[x].parent = req[c].parent => x = c
  BY DEF Children
<1> QED
  BY <1>1, <1>2 DEF Sheltered

LEMMA ChildStep ==
    ASSUME TypeOK, RoomForRow, SweptReleased, GrantsHaveLeases, [Next]_vars,
           \A c \in Request : st[c] = "INHERITED" => Sheltered(st, req, lease, c)
    PROVE  /\ \A c \in Request : st'[c] = "INHERITED" => Sheltered(st', req', lease', c)
           /\ GrantsHaveLeases'
<1>1. CASE Fences
  <2>1. \A r \in Request : /\ req'[r] = req[r]
                           /\ st'[r] # st[r] => st'[r] = "RECOVERY_REQUIRED"
                           /\ lease[r] # "NONE" => lease'[r] # "NONE"
    BY <1>1 DEF Fences
  <2>2. ASSUME NEW c \in Request, st'[c] = "INHERITED"
        PROVE  Sheltered(st', req', lease', c)
    <3>1. Sheltered(st, req, lease, c)
      BY <2>1, <2>2
    <3> QED
      BY <2>1, <3>1 DEF Sheltered
  <2> QED
    BY <2>1, <2>2 DEF GrantsHaveLeases
<1>2. CASE Commits
  <2>1. PICK s \in [Request -> State \cup {"NONE"}], p \in Pool :
          /\ \A r \in Request : s[r] # st[r] => s[r] = "RELEASED"
          /\ \A r \in Request :
                /\ s[r] # st[r] /\ st[r] \in {"ACTIVE", "RECOVERY_REQUIRED"}
                /\ lease[r] # "NONE"
                => Children(st, r) = {}
          /\ \A r \in Request :
                \/ s[r] # "RELEASED" /\ lease[r] # "NONE"
                \/ r \in Promotable(s, unknown', p)
                => lease'[r] # "NONE"
          /\ st' = [r \in Request |-> IF r \in Promotable(s, unknown', p) THEN "ACTIVE" ELSE s[r]]
    BY <1>2 DEF Commits
  <2>2. req' = req
    BY <1>2 DEF Commits
  <2>3. \A r \in Promotable(s, unknown', p) : s[r] = "QUEUED"
    BY PromotableHasRoom
  <2>4. ASSUME NEW c \in Request, st'[c] = "INHERITED"
        PROVE  Sheltered(st', req', lease', c)
    <3>1. st[c] = "INHERITED"
      BY <2>1, <2>4
    <3>2. PICK l \in Request :
            /\ req[c].parent = l
            /\ st[l] \in {"ACTIVE", "RECOVERY_REQUIRED"} /\ lease[l] # "NONE"
            /\ \A x \in Request : st[x] = "INHERITED" /\ req[x].parent = l => x = c
      BY <3>1 DEF Sheltered
    <3>3. c \in Children(st, l)
      BY <3>1, <3>2 DEF Children
    <3>4. s[l] = st[l]
      BY <2>1, <3>2, <3>3
    <3>5. st'[l] \in {"ACTIVE", "RECOVERY_REQUIRED"} /\ lease'[l] # "NONE"
      BY <2>1, <3>2, <3>4
    <3>6. \A x \in Request : st'[x] = "INHERITED" => st[x] = "INHERITED"
      BY <2>1
    <3> QED
      BY <2>2, <3>2, <3>5, <3>6 DEF Sheltered
  <2>5. ASSUME NEW r \in Request, st'[r] = "ACTIVE" PROVE lease'[r] # "NONE"
    <3>1. r \in Promotable(s, unknown', p) \/ (s[r] = "ACTIVE" /\ st[r] = "ACTIVE")
      BY <2>1, <2>5
    <3> QED
      BY <2>1, <3>1 DEF GrantsHaveLeases
  <2> QED
    BY <2>4, <2>5 DEF GrantsHaveLeases
<1>3. CASE Inserts
  <2>1. PICK row \in Row, state \in State :
          /\ st' = [st EXCEPT ![count'] = state]
          /\ req' = [req EXCEPT ![count'] = row]
          /\ state = "ACTIVE" => lease'[count'] # "NONE"
          /\ state = "INHERITED" => /\ Inheritable(row.parent, row.pool)
                                    /\ Children(st, row.parent) = {}
    BY <1>3 DEF Inserts
  <2>2. count' \in Request /\ count' = count + 1
        /\ \A r \in Request : lease[r] # "NONE" => lease'[r] # "NONE"
    BY <1>3 DEF Inserts
  <2>3. \A y \in Request \ {count'} : st'[y] = st[y] /\ req'[y] = req[y]
    BY <2>1, <2>2 DEF TypeOK
  <2>4. st'[count'] = state /\ req'[count'] = row
    BY <2>1, <2>2 DEF TypeOK
  <2>5. st[count'] = "NONE"
    BY <2>2, ConstantsAssumption DEF TypeOK
  <2>6. ASSUME NEW c \in Request, st'[c] = "INHERITED", c # count'
        PROVE  Sheltered(st', req', lease', c)
    <3>1. st[c] = "INHERITED"
      BY <2>3, <2>6
    <3>2. PICK l \in Request :
            /\ req[c].parent = l
            /\ st[l] \in {"ACTIVE", "RECOVERY_REQUIRED"} /\ lease[l] # "NONE"
            /\ \A x \in Request : st[x] = "INHERITED" /\ req[x].parent = l => x = c
      BY <3>1 DEF Sheltered
    <3>3. l # count'
      BY <2>5, <3>2
    <3>4. c \in Children(st, l)
      BY <3>1, <3>2 DEF Children
    <3>5. ~(state = "INHERITED" /\ row.parent = l)
      BY <2>1, <3>4
    <3>6. \A x \in Request : st'[x] = "INHERITED" /\ req'[x].parent = l => x = c
      BY <2>3, <2>4, <3>2, <3>5
    <3>7. /\ req'[c].parent = l /\ st'[l] \in {"ACTIVE", "RECOVERY_REQUIRED"}
          /\ lease'[l] # "NONE"
      BY <2>2, <2>3, <2>6, <3>2, <3>3
    <3> QED
      BY <3>6, <3>7 DEF Sheltered
  <2>7. ASSUME st'[count'] = "INHERITED"
        PROVE  Sheltered(st', req', lease', count')
    <3>1. Inheritable(row.parent, row.pool) /\ Children(st, row.parent) = {}
      BY <2>1, <2>4, <2>7
    <3> DEFINE l == row.parent
    <3>2. l \in Request /\ st[l] = "ACTIVE" /\ lease[l] = "FRESH" /\ l # count'
      BY <2>5, <3>1 DEF Inheritable
    <3>3. \A x \in Request : ~(st[x] = "INHERITED" /\ req[x].parent = l)
      BY <3>1 DEF Children
    <3>4. \A x \in Request : st'[x] = "INHERITED" /\ req'[x].parent = l => x = count'
      BY <2>3, <3>3
    <3>5. req'[count'].parent = l /\ st'[l] = "ACTIVE" /\ lease'[l] # "NONE"
      BY <2>2, <2>3, <2>4, <3>2
    <3> QED
      BY <3>2, <3>4, <3>5 DEF Sheltered
  <2>8. ASSUME NEW r \in Request, st'[r] = "ACTIVE" PROVE lease'[r] # "NONE"
    <3>1. CASE r = count'
      BY <2>1, <2>4, <2>8, <3>1
    <3>2. CASE r # count'
      BY <2>2, <2>3, <2>8, <3>2 DEF GrantsHaveLeases
    <3> QED
      BY <3>1, <3>2
  <2> QED
    BY <2>6, <2>7, <2>8 DEF GrantsHaveLeases
<1> QED
  BY <1>1, <1>2, <1>3, StepKinds

\* A nested pytest never loses the admission it runs under: neither its parent's
\* release, nor the sweep, nor recovery ends the parent first, and it is the only
\* child there.  It is inductive with: grants have a lease row, and what a sweep
\* has swept stays released until the sweep ends.
THEOREM ChildCorrect == Spec => []ChildUnderHeldParent
<1> DEFINE AllSheltered == \A c \in Request : st[c] = "INHERITED" => Sheltered(st, req, lease, c)
<1>1. Init => AllSheltered /\ GrantsHaveLeases
  BY DEF Init, GrantsHaveLeases
<1>2. Journal /\ AllSheltered /\ GrantsHaveLeases /\ [Next]_vars
        => AllSheltered' /\ GrantsHaveLeases'
  BY ChildStep DEF Journal
<1>3. Journal /\ AllSheltered => ChildUnderHeldParent
  BY ShelteredForm DEF Journal
<1> HIDE DEF AllSheltered
<1> QED
  BY <1>1, <1>2, <1>3, JournalHolds, PTL DEF Spec

----------------------------------------------------------------------------
(* Accounts                                                                *)

LEMMA RunningStep ==
    ASSUME TypeOK, RoomForRow, SweptReleased, RunningWithinAccount, [Next]_vars
    PROVE  RunningWithinAccount'
<1> SUFFICES ASSUME NEW p \in Pool, SourceOf[p] # NoSource
             PROVE  Cardinality({r \in Request : /\ st'[r] \in {"ACTIVE", "INHERITED"}
                                                 /\ req'[r].pool \in Related(p)})
                      <= SourceCapacity[SourceOf[p]]
  BY DEF RunningWithinAccount
<1> DEFINE A == {r \in Request : st[r] \in {"ACTIVE", "INHERITED"} /\ req[r].pool \in Related(p)}
           B == {r \in Request : st'[r] \in {"ACTIVE", "INHERITED"}
                                 /\ req'[r].pool \in Related(p)}
           Bound == SourceCapacity[SourceOf[p]]
           Counted(s) == {r \in Request :
                            /\ s[r] \in {"ACTIVE", "INHERITED", "RECOVERY_REQUIRED"}
                            /\ req[r].pool \in Related(p)}
<1> SUFFICES Cardinality(B) <= Bound
  OBVIOUS
<1>1. A \in SUBSET Request /\ Cardinality(A) <= Bound /\ Bound \in Nat
  BY CapacityTypes DEF RunningWithinAccount
<1>2. ASSUME B \subseteq A PROVE Cardinality(B) <= Bound
  <2>1. Cardinality(B) <= Cardinality(A) /\ Cardinality(B) \in Nat /\ Cardinality(A) \in Nat
    BY <1>1, <1>2, FewerRows, RowsAreFinite
  <2> HIDE DEF A, B, Bound
  <2> QED
    BY <1>1, <2>1
<1>3. ASSUME NEW s, NEW q \in Request, NEW x \in Pool, ~SourceFull(s, x), x \in Related(p),
             B \subseteq Counted(s) \cup {q}
      PROVE  Cardinality(B) <= Bound
  <2>1. SourceOf[x] = SourceOf[p] /\ Related(x) = Related(p)
    BY <1>3 DEF Related
  <2>2. ~(Cardinality(Counted(s)) >= Bound)
    BY <1>3, <2>1 DEF SourceFull
  <2>3. Counted(s) \in SUBSET Request
    OBVIOUS
  <2> HIDE DEF A, B, Bound, Counted
  <2> QED
    BY <1>1, <1>3, <2>2, <2>3, OneMoreRow
<1>4. CASE Fences
  BY <1>2, <1>4 DEF Fences
<1>5. CASE Commits
  <2>1. PICK s \in [Request -> State \cup {"NONE"}], x \in Pool :
          /\ \A r \in Request : s[r] # st[r] => s[r] = "RELEASED"
          /\ st' = [r \in Request |-> IF r \in Promotable(s, unknown', x) THEN "ACTIVE" ELSE s[r]]
    BY <1>5 DEF Commits
  <2>2. req' = req
    BY <1>5 DEF Commits
  <2>3. CASE \A r \in Request : st'[r] = s[r]
    BY <1>2, <2>1, <2>2, <2>3
  <2>4. CASE \E q \in Request :
                /\ ~SourceFull(s, req[q].pool)
                /\ \A r \in Request \ {q} : st'[r] = s[r]
    <3>1. PICK q \in Request : /\ ~SourceFull(s, req[q].pool)
                               /\ \A r \in Request \ {q} : st'[r] = s[r]
      BY <2>4
    <3>2. req[q].pool \in Pool
      BY DEF TypeOK, Row
    <3>3. CASE req[q].pool \in Related(p)
      <4>1. B \subseteq Counted(s) \cup {q}
        BY <2>2, <3>1
      <4> HIDE DEF A, B, Bound, Counted
      <4> QED
        BY <1>3, <3>1, <3>2, <3>3, <4>1
    <3>4. CASE req[q].pool \notin Related(p)
      BY <1>2, <2>1, <2>2, <3>1, <3>4
    <3> QED
      BY <3>3, <3>4
  <2> QED
    BY <2>1, <2>3, <2>4, CommitAddsOne
<1>6. CASE Inserts
  <2>1. PICK row \in Row, state \in State :
          /\ st' = [st EXCEPT ![count'] = state]
          /\ req' = [req EXCEPT ![count'] = row]
          /\ state \in {"ACTIVE", "INHERITED"} => ~SourceFull(st, row.pool)
    BY <1>6 DEF Inserts
  <2>2. count' \in Request
    BY <1>6 DEF Inserts
  <2>3. \A r \in Request \ {count'} : st'[r] = st[r] /\ req'[r] = req[r]
    BY <2>1, <2>2 DEF TypeOK
  <2>4. st'[count'] = state /\ req'[count'] = row /\ row.pool \in Pool
    BY <2>1, <2>2 DEF TypeOK, Row
  <2>5. CASE state \in {"ACTIVE", "INHERITED"} /\ row.pool \in Related(p)
    <3>1. B \subseteq Counted(st) \cup {count'}
      BY <2>3, <2>4
    <3> HIDE DEF A, B, Bound, Counted
    <3> QED
      BY <1>3, <2>1, <2>2, <2>4, <2>5, <3>1
  <2>6. CASE ~(state \in {"ACTIVE", "INHERITED"} /\ row.pool \in Related(p))
    BY <1>2, <2>3, <2>4, <2>6
  <2> QED
    BY <2>5, <2>6
<1> QED
  BY <1>4, <1>5, <1>6, StepKinds

\* The lanes and provider pools that draw on one account never run more than the
\* account allows, whichever of them grants and whatever children are admitted.
THEOREM RunningCorrect == Spec => []RunningWithinAccount
<1>1. Init => RunningWithinAccount
  <2> SUFFICES ASSUME Init, NEW p \in Pool, SourceOf[p] # NoSource
               PROVE  Cardinality({r \in Request : /\ st[r] \in {"ACTIVE", "INHERITED"}
                                                   /\ req[r].pool \in Related(p)})
                        <= SourceCapacity[SourceOf[p]]
    BY DEF RunningWithinAccount
  <2>1. {r \in Request : st[r] \in {"ACTIVE", "INHERITED"} /\ req[r].pool \in Related(p)} = {}
    BY DEF Init
  <2> QED
    BY <2>1, FS_EmptySet, CapacityTypes
<1>2. Journal /\ RunningWithinAccount /\ [Next]_vars => RunningWithinAccount'
  BY RunningStep DEF Journal
<1> QED
  BY <1>1, <1>2, JournalHolds, PTL DEF Spec

----------------------------------------------------------------------------
(* Fenced rows                                                             *)

LEMMA FencedStep ==
    ASSUME TypeOK, RoomForRow, SweptReleased, ChildUnderHeldParent,
           FencedKeepTheirPlace, [Next]_vars
    PROVE  FencedKeepTheirPlace'
<1> SUFFICES ASSUME NEW p \in Pool, SourceOf[p] = NoSource
             PROVE  Cardinality({r \in In(st, {"ACTIVE", "RECOVERY_REQUIRED"}, p)' :
                                    req'[r].parent = None}) <= Capacity[p]
  BY DEF FencedKeepTheirPlace
<1> DEFINE A == {r \in Request : /\ st[r] \in {"ACTIVE", "RECOVERY_REQUIRED"}
                                 /\ req[r].pool = p /\ req[r].parent = None}
           B == {r \in Request : /\ st'[r] \in {"ACTIVE", "RECOVERY_REQUIRED"}
                                 /\ req'[r].pool = p /\ req'[r].parent = None}
           Bound == Capacity[p]
<1> SUFFICES Cardinality(B) <= Bound
  <2>1. {r \in In(st, {"ACTIVE", "RECOVERY_REQUIRED"}, p)' : req'[r].parent = None} = B
    BY DEF In
  <2> QED
    BY <2>1
<1>1. A \in SUBSET Request /\ Cardinality(A) <= Bound /\ Bound \in Nat
  <2>1. {r \in In(st, {"ACTIVE", "RECOVERY_REQUIRED"}, p) : req[r].parent = None} = A
    BY DEF In
  <2> QED
    BY <2>1, CapacityTypes DEF FencedKeepTheirPlace
<1>2. ASSUME B \subseteq A PROVE Cardinality(B) <= Bound
  <2>1. Cardinality(B) <= Cardinality(A) /\ Cardinality(B) \in Nat /\ Cardinality(A) \in Nat
    BY <1>1, <1>2, FewerRows, RowsAreFinite
  <2> HIDE DEF A, B, Bound
  <2> QED
    BY <1>1, <2>1
<1>3. ASSUME NEW s, NEW q \in Request, ~PoolFull(s, p), B \subseteq Holding(s, p) \cup {q}
      PROVE  Cardinality(B) <= Bound
  <2>1. ~(Cardinality(Holding(s, p)) >= Bound) /\ Holding(s, p) \in SUBSET Request
    BY <1>3 DEF PoolFull, Holding, In
  <2> HIDE DEF A, B, Bound
  <2> QED
    BY <1>1, <1>3, <2>1, OneMoreRow
<1>4. CASE Fences
  <2>1. \A r \in Request : st[r] = "INHERITED" => req[r].parent # None
    BY DEF ChildUnderHeldParent
  <2> QED
    BY <1>2, <1>4, <2>1 DEF Fences
<1>5. CASE Commits
  <2>1. PICK s \in [Request -> State \cup {"NONE"}], x \in Pool :
          /\ \A r \in Request : s[r] # st[r] => s[r] = "RELEASED"
          /\ st' = [r \in Request |-> IF r \in Promotable(s, unknown', x) THEN "ACTIVE" ELSE s[r]]
    BY <1>5 DEF Commits
  <2>2. req' = req
    BY <1>5 DEF Commits
  <2>3. CASE \A r \in Request : st'[r] = s[r]
    BY <1>2, <2>1, <2>2, <2>3
  <2>4. CASE \E q \in Request :
                /\ ~PoolFull(s, req[q].pool)
                /\ \A r \in Request \ {q} : st'[r] = s[r]
    <3>1. PICK q \in Request : /\ ~PoolFull(s, req[q].pool)
                               /\ \A r \in Request \ {q} : st'[r] = s[r]
      BY <2>4
    <3>2. CASE req[q].pool = p
      <4>1. B \subseteq Holding(s, p) \cup {q}
        BY <2>2, <3>1 DEF Holding, In
      <4> HIDE DEF A, B, Bound
      <4> QED
        BY <1>3, <3>1, <3>2, <4>1
    <3>3. CASE req[q].pool # p
      BY <1>2, <2>1, <2>2, <3>1, <3>3
    <3> QED
      BY <3>2, <3>3
  <2> QED
    BY <2>1, <2>3, <2>4, CommitAddsOne
<1>6. CASE Inserts
  <2>1. PICK row \in Row, state \in State :
          /\ st' = [st EXCEPT ![count'] = state]
          /\ req' = [req EXCEPT ![count'] = row]
          /\ state = "ACTIVE" => ~PoolFull(st, row.pool)
          /\ state = "RECOVERY_REQUIRED" => SourceOf[row.pool] # NoSource
    BY <1>6 DEF Inserts
  <2>2. count' \in Request
    BY <1>6 DEF Inserts
  <2>3. \A r \in Request \ {count'} : st'[r] = st[r] /\ req'[r] = req[r]
    BY <2>1, <2>2 DEF TypeOK
  <2>4. st'[count'] = state /\ req'[count'] = row
    BY <2>1, <2>2 DEF TypeOK
  <2>5. CASE state = "ACTIVE" /\ row.pool = p
    <3>1. B \subseteq Holding(st, p) \cup {count'}
      BY <2>3, <2>4 DEF Holding, In
    <3> HIDE DEF A, B, Bound
    <3> QED
      BY <1>3, <2>1, <2>2, <2>5, <3>1
  <2>6. CASE ~(state = "ACTIVE" /\ row.pool = p)
    BY <1>2, <2>1, <2>3, <2>4, <2>6
  <2> QED
    BY <2>5, <2>6
<1> QED
  BY <1>4, <1>5, <1>6, StepKinds

\* In a pool nothing can be imported into, an owner whose death is unproven is
\* never overlapped: the fenced rows keep the places they were granted.
THEOREM FencedCorrect == Spec => []FencedKeepTheirPlace
<1>1. Init => FencedKeepTheirPlace
  <2> SUFFICES ASSUME Init, NEW p \in Pool
               PROVE  Cardinality({r \in In(st, {"ACTIVE", "RECOVERY_REQUIRED"}, p) :
                                      req[r].parent = None}) <= Capacity[p]
    BY DEF FencedKeepTheirPlace
  <2>1. {r \in In(st, {"ACTIVE", "RECOVERY_REQUIRED"}, p) : req[r].parent = None} = {}
    BY DEF Init, In
  <2> QED
    BY <2>1, FS_EmptySet, CapacityTypes
<1>2. Journal /\ ChildUnderHeldParent /\ FencedKeepTheirPlace /\ [Next]_vars
        => FencedKeepTheirPlace'
  BY FencedStep DEF Journal
<1> QED
  BY <1>1, <1>2, JournalHolds, ChildCorrect, PTL DEF Spec

----------------------------------------------------------------------------
(* Waiters                                                                 *)

\* ORDER BY priority DESC, created_at_utc, request_id always has a first row: a
\* row of rs ahead of which the fewest others stand.
LEMMA QueueHasHead ==
    ASSUME TypeOK, NEW rs \in SUBSET Request, rs # {}
    PROVE  FirstOf(rs) # {}
<1> DEFINE Ahead(r) == {x \in rs : \/ req[x].prio > req[r].prio
                                   \/ req[x].prio = req[r].prio /\ x < r}
           T == {Ahead(r) : r \in rs}
<1>1. \A r \in rs : r \in Int /\ req[r].prio \in Int
  <2> SUFFICES ASSUME NEW r \in rs PROVE r \in Int /\ req[r].prio \in Int
    OBVIOUS
  <2>1. r \in Request /\ req[r] \in Row
    BY DEF TypeOK
  <2>2. req[r].prio \in Priority
    BY <2>1 DEF Row
  <2>3. r \in Int
    BY <2>1 DEF Request
  <2> QED
    BY <2>2, <2>3, PrioritiesAreNumbers
<1>2. T \subseteq FiniteSubsetsOf(Request)
  <2>1. \A r \in rs : Ahead(r) \in SUBSET Request
    OBVIOUS
  <2> HIDE DEF Ahead
  <2>2. \A r \in rs : IsFiniteSet(Ahead(r))
    BY <2>1, RowsAreFinite
  <2> QED
    BY <2>1, <2>2 DEF FiniteSubsetsOf
<1>3. T # {}
  OBVIOUS
<1>4. \E A \in T : \A B \in T : ~ (<<B, A>> \in StrictSubsetOrdering(Request))
  <2> HIDE DEF T
  <2> QED
    BY <1>2, <1>3, FS_StrictSubsetOrderingWellFounded, WFMin
<1>5. PICK r \in rs : \A x \in rs : ~ (<<Ahead(x), Ahead(r)>> \in StrictSubsetOrdering(Request))
  BY <1>4
<1>6. ASSUME NEW x \in rs, ~ (req[r].prio > req[x].prio \/ (req[r].prio = req[x].prio /\ r <= x))
      PROVE  FALSE
  <2>1. x \in Ahead(r)
    BY <1>1, <1>6
  <2>2. x \notin Ahead(x)
    BY <1>1
  <2>3. Ahead(x) \subseteq Ahead(r)
    <3> SUFFICES ASSUME NEW y \in Ahead(x) PROVE y \in Ahead(r)
      OBVIOUS
    <3>1. /\ y \in rs /\ y \in Int /\ x \in Int /\ r \in Int
          /\ req[x].prio \in Int /\ req[y].prio \in Int /\ req[r].prio \in Int
      BY <1>1
    <3>2. req[y].prio > req[x].prio \/ (req[y].prio = req[x].prio /\ y < x)
      OBVIOUS
    <3>3. req[x].prio > req[r].prio \/ (req[x].prio = req[r].prio /\ x < r)
      BY <2>1
    <3>4. req[y].prio > req[r].prio \/ (req[y].prio = req[r].prio /\ y < r)
      BY <3>1, <3>2, <3>3
    <3> QED
      BY <3>1, <3>4
  <2>4. Ahead(r) \in SUBSET Request /\ Ahead(x) \in SUBSET Request
    OBVIOUS
  <2> HIDE DEF Ahead
  <2>5. Ahead(x) # Ahead(r)
    BY <2>1, <2>2
  <2>6. <<Ahead(x), Ahead(r)>> \in StrictSubsetOrdering(Request)
    BY <2>3, <2>4, <2>5 DEF StrictSubsetOrdering
  <2> QED
    BY <1>5, <2>6
<1>7. r \in FirstOf(rs)
  BY <1>6 DEF FirstOf
<1> QED
  BY <1>7

\* No waiter of any pool has room, as request() and _promote_locked count it.
NoneAdmissible(s, u) ==
    \A q \in Pool : SourceFull(s, q) \/ PoolFull(s, q) \/ Eligible(s, u, q) = {}

\* When nothing can be promoted for a pool, no waiter of a related pool has room.
LEMMA NothingToPromote ==
    ASSUME TypeOK, NEW s, NEW u, NEW p \in Pool, Promotable(s, u, p) = {},
           NEW q \in Related(p)
    PROVE  SourceFull(s, q) \/ PoolFull(s, q) \/ Eligible(s, u, q) = {}
<1> DEFINE open == {x \in Related(p) : /\ ~SourceFull(s, x)
                                       /\ ~PoolFull(s, x)
                                       /\ Eligible(s, u, x) # {}}
           waiting == UNION {In(s, {"QUEUED"}, x) : x \in open}
<1> SUFFICES ASSUME q \in open PROVE FALSE
  OBVIOUS
<1>1. waiting \in SUBSET Request
  BY DEF In
<1>2. waiting # {}
  <2>1. Eligible(s, u, q) # {} /\ Eligible(s, u, q) \subseteq In(s, {"QUEUED"}, q)
    BY DEF Eligible
  <2> QED
    BY <2>1
<1>3. PICK r : r \in FirstOf(waiting)
  BY <1>1, <1>2, QueueHasHead
<1>4. PICK x \in open : r \in In(s, {"QUEUED"}, x)
  BY <1>3 DEF FirstOf
<1>5. req[r].pool = x
  BY <1>4 DEF In
<1>6. Eligible(s, u, x) # {} /\ Eligible(s, u, x) \in SUBSET Request
  BY <1>4 DEF Eligible, In
<1>7. FirstOf(Eligible(s, u, req[r].pool)) # {}
  BY <1>5, <1>6, QueueHasHead
<1>8. FirstOf(Eligible(s, u, req[r].pool)) \subseteq Promotable(s, u, p)
  BY <1>3 DEF Promotable
<1> QED
  BY <1>7, <1>8

LEMMA SwapRows ==
    ASSUME NEW A \in SUBSET Request, NEW B \in SUBSET Request, NEW r, NEW w,
           A \ {r} \subseteq B, w \in B, w \notin A
    PROVE  Cardinality(A) <= Cardinality(B)
<1>1. IsFiniteSet(A) /\ IsFiniteSet(B) /\ Cardinality(A) \in Nat /\ Cardinality(B) \in Nat
  BY RowsAreFinite
<1>2. CASE r \notin A
  <2>1. A \in SUBSET B
    BY <1>2
  <2> QED
    BY <2>1, FewerRows
<1>3. CASE r \in A
  <2>1. IsFiniteSet(A \ {r}) /\ Cardinality(A \ {r}) = Cardinality(A) - 1
    BY <1>1, <1>3, FS_RemoveElement
  <2>2. Cardinality((A \ {r}) \cup {w}) = Cardinality(A \ {r}) + 1
    BY <2>1, FS_AddElement
  <2>3. (A \ {r}) \cup {w} \in SUBSET B
    OBVIOUS
  <2>4. Cardinality((A \ {r}) \cup {w}) <= Cardinality(B)
    BY <2>3, FewerRows
  <2> QED
    BY <1>1, <2>1, <2>2, <2>4
<1> QED
  BY <1>2, <1>3
\* The rows an account counts (_source_full_locked).
Counted(s, q) ==
    {r \in Request : /\ s[r] \in {"ACTIVE", "INHERITED", "RECOVERY_REQUIRED"}
                     /\ req[r].pool \in Related(q)}

LEMMA CountsAreNumbers ==
    ASSUME NEW s, NEW q \in Pool
    PROVE  /\ Counted(s, q) \in SUBSET Request /\ Cardinality(Counted(s, q)) \in Nat
           /\ Holding(s, q) \in SUBSET Request /\ Cardinality(Holding(s, q)) \in Nat
           /\ Capacity[q] \in Nat
           /\ SourceOf[q] # NoSource => SourceCapacity[SourceOf[q]] \in Nat
           /\ SourceFull(s, q) <=> /\ SourceOf[q] # NoSource
                                   /\ Cardinality(Counted(s, q)) >= SourceCapacity[SourceOf[q]]
<1>1. Counted(s, q) \in SUBSET Request /\ Holding(s, q) \in SUBSET Request
  BY DEF Counted, Holding, In
<1>2. SourceFull(s, q) <=> /\ SourceOf[q] # NoSource
                           /\ Cardinality(Counted(s, q)) >= SourceCapacity[SourceOf[q]]
  BY DEF Counted, SourceFull
<1> QED
  BY <1>1, <1>2, RowsAreFinite, CapacityTypes

\* Rows that count in s and not in t are no more than one, r, and one that counts
\* in t, w, did not in s: t is at least as full.
LEMMA StaysFull ==
    ASSUME NEW s, NEW t, NEW q \in Pool, NEW r, NEW w
    PROVE  /\ \/ Counted(s, q) \subseteq Counted(t, q)
              \/ /\ Counted(s, q) \ {r} \subseteq Counted(t, q)
                 /\ w \in Counted(t, q) \ Counted(s, q)
              => (SourceFull(s, q) => SourceFull(t, q))
           /\ \/ Holding(s, q) \subseteq Holding(t, q)
              \/ /\ Holding(s, q) \ {r} \subseteq Holding(t, q)
                 /\ w \in Holding(t, q) \ Holding(s, q)
              => (PoolFull(s, q) => PoolFull(t, q))
<1>1. ASSUME NEW A \in SUBSET Request, NEW B \in SUBSET Request,
             A \subseteq B \/ (A \ {r} \subseteq B /\ w \in B \ A)
      PROVE  Cardinality(A) <= Cardinality(B)
  <2>1. CASE A \subseteq B
    BY <2>1, FewerRows
  <2>2. CASE A \ {r} \subseteq B /\ w \in B \ A
    BY <2>2, SwapRows
  <2> QED
    BY <1>1, <2>1, <2>2
<1>2. ASSUME \/ Counted(s, q) \subseteq Counted(t, q)
             \/ /\ Counted(s, q) \ {r} \subseteq Counted(t, q)
                /\ w \in Counted(t, q) \ Counted(s, q),
             SourceFull(s, q)
      PROVE  SourceFull(t, q)
  <2>1. Cardinality(Counted(s, q)) <= Cardinality(Counted(t, q))
    BY <1>1, <1>2, CountsAreNumbers
  <2>2. /\ Cardinality(Counted(s, q)) \in Nat /\ Cardinality(Counted(t, q)) \in Nat
        /\ SourceOf[q] # NoSource /\ SourceCapacity[SourceOf[q]] \in Nat
        /\ Cardinality(Counted(s, q)) >= SourceCapacity[SourceOf[q]]
    BY <1>2, CountsAreNumbers
  <2>3. Cardinality(Counted(t, q)) >= SourceCapacity[SourceOf[q]]
    BY <2>1, <2>2
  <2> QED
    BY <2>2, <2>3, CountsAreNumbers
<1>3. ASSUME \/ Holding(s, q) \subseteq Holding(t, q)
             \/ /\ Holding(s, q) \ {r} \subseteq Holding(t, q)
                /\ w \in Holding(t, q) \ Holding(s, q),
             PoolFull(s, q)
      PROVE  PoolFull(t, q)
  <2>1. Cardinality(Holding(s, q)) <= Cardinality(Holding(t, q))
    BY <1>1, <1>3, CountsAreNumbers
  <2>2. /\ Cardinality(Holding(s, q)) \in Nat /\ Cardinality(Holding(t, q)) \in Nat
        /\ Capacity[q] \in Nat /\ Cardinality(Holding(s, q)) >= Capacity[q]
    BY <1>3, CountsAreNumbers DEF PoolFull
  <2>3. Cardinality(Holding(t, q)) >= Capacity[q]
    BY <2>1, <2>2
  <2> QED
    BY <2>3 DEF PoolFull
<1> QED
  BY <1>2, <1>3

LEMMA RelatedIsEquivalence ==
    ASSUME NEW p \in Pool, NEW q \in Related(p)
    PROVE  /\ q \in Pool /\ p \in Related(q) /\ Related(q) = Related(p)
           /\ \A s : SourceFull(s, q) <=> SourceFull(s, p)
<1>1. q \in Pool /\ p \in Related(q) /\ Related(q) = Related(p) /\ SourceOf[q] = SourceOf[p]
  BY DEF Related
<1> QED
  BY <1>1 DEF SourceFull

\* Releasing rows of which at most one, r, held anything, and promoting one waiter
\* of its pool or of a related one, leaves no waiter behind that has room: the
\* place r gave up is the place the waiter takes.
LEMMA OneForOne ==
    ASSUME TypeOK, NEW s, NEW t, NEW u, NEW v, u \subseteq v, NEW r \in Request,
           NoneAdmissible(st, u),
           \A x \in Request :
              s[x] # st[x] => s[x] = "RELEASED" /\ (x = r \/ st[x] = "QUEUED"),
           \A x \in Request :
              t[x] = IF x \in Promotable(s, v, req[r].pool) THEN "ACTIVE" ELSE s[x]
    PROVE  NoneAdmissible(t, v)
<1> DEFINE p == req[r].pool
<1>1. p \in Pool /\ p \in Related(p) /\ Related(p) \subseteq Pool
  <2>1. p \in Pool
    BY DEF TypeOK, Row
  <2> QED
    BY <2>1 DEF Related
<1> HIDE DEF p
<1>3. CASE Promotable(s, v, p) = {}
  <2> SUFFICES ASSUME NEW q \in Pool
               PROVE  SourceFull(t, q) \/ PoolFull(t, q) \/ Eligible(t, v, q) = {}
    BY DEF NoneAdmissible
  <2>1. \A x \in Request : t[x] = s[x]
    BY <1>3 DEF p
  <2>2. CASE q \in Related(p)
    <3>1. SourceFull(s, q) \/ PoolFull(s, q) \/ Eligible(s, v, q) = {}
      BY <1>1, <1>3, <2>2, NothingToPromote
    <3>2. SourceFull(t, q) = SourceFull(s, q) /\ PoolFull(t, q) = PoolFull(s, q)
      BY <2>1 DEF SourceFull, PoolFull, Holding, In
    <3>3. Eligible(t, v, q) = Eligible(s, v, q)
      BY <2>1 DEF Eligible, SlotBusy, Holding, In
    <3> QED
      BY <3>1, <3>2, <3>3
  <2>3. CASE q \notin Related(p)
    <3>1. q # p /\ p \notin Related(q)
      BY <1>1, <2>3 DEF Related
    <3>2. Holding(t, q) = Holding(st, q) /\ Counted(t, q) = Counted(st, q)
      BY <2>1, <3>1 DEF Holding, In, Counted, p
    <3>3. SourceFull(st, q) => SourceFull(t, q)
      BY <3>2, CountsAreNumbers
    <3>4. PoolFull(st, q) => PoolFull(t, q)
      BY <3>2 DEF PoolFull
    <3>5. Eligible(t, v, q) \subseteq Eligible(st, u, q)
      <4>1. \A k : SlotBusy(st, q, k) <=> SlotBusy(t, q, k)
        BY <3>2 DEF SlotBusy
      <4>2. \A x \in Request : t[x] = "QUEUED" => st[x] = "QUEUED"
        BY <2>1
      <4> QED
        BY <4>1, <4>2 DEF Eligible, In
    <3> QED
      BY <3>3, <3>4, <3>5 DEF NoneAdmissible
  <2> QED
    BY <2>2, <2>3
<1>4. CASE Promotable(s, v, p) # {}
  <2>1. PICK w \in Promotable(s, v, p) : TRUE
    BY <1>4
  <2> DEFINE o == req[w].pool
  <2>2. /\ w \in Request /\ s[w] = "QUEUED" /\ req[w].attempt \notin v
        /\ ~PoolFull(s, o) /\ ~SourceFull(s, o) /\ ~SlotBusy(s, o, req[w].slot)
    BY <2>1, PromotableHasRoom
  <2>3. o \in Related(p)
    BY <2>1 DEF Promotable, FirstOf, Eligible, In
  <2>4. /\ st[w] = "QUEUED" /\ t[w] = "ACTIVE"
        /\ \A x \in Request : x # w => t[x] = s[x]
    BY <2>1, <2>2, PromotableIsOne DEF p
  <2>5. /\ o \in Pool /\ p \in Related(o) /\ Related(o) = Related(p)
        /\ \A z : SourceFull(z, o) <=> SourceFull(z, p)
    BY <1>1, <2>3, RelatedIsEquivalence
  <2> HIDE DEF o
  <2> SUFFICES ASSUME NEW q \in Pool, ~SourceFull(t, q), ~PoolFull(t, q),
                      NEW x \in Eligible(t, v, q)
               PROVE  FALSE
    BY DEF NoneAdmissible
  <2>6. /\ x \in Request /\ t[x] = "QUEUED" /\ req[x].pool = q /\ ~SlotBusy(t, q, req[x].slot)
        /\ req[x].attempt \notin v
    BY DEF Eligible, In
  <2>7. st[x] = "QUEUED" /\ x # w
    BY <2>4, <2>6
  <2>8. ~SourceFull(st, q)
    <3>1. \/ Counted(st, q) \subseteq Counted(t, q)
          \/ /\ Counted(st, q) \ {r} \subseteq Counted(t, q)
             /\ w \in Counted(t, q) \ Counted(st, q)
      <4>1. CASE q \in Related(p)
        <5>1. Related(q) = Related(p)
          BY <1>1, <4>1, RelatedIsEquivalence
        <5>2. w \in Counted(t, q) \ Counted(st, q)
          BY <2>2, <2>3, <2>4, <5>1 DEF Counted, o
        <5>3. Counted(st, q) \ {r} \subseteq Counted(t, q)
          BY <2>4 DEF Counted
        <5> QED
          BY <5>2, <5>3
      <4>2. CASE q \notin Related(p)
        <5>1. p \notin Related(q)
          BY <1>1, <4>2 DEF Related
        <5>2. Counted(st, q) \subseteq Counted(t, q)
          BY <2>4, <5>1 DEF Counted, p
        <5> QED
          BY <5>2
      <4> QED
        BY <4>1, <4>2
    <3> QED
      BY <3>1, StaysFull
  <2>9. ASSUME q # p \/ o = p PROVE ~PoolFull(st, q)
    <3>1. \/ Holding(st, q) \subseteq Holding(t, q)
          \/ /\ Holding(st, q) \ {r} \subseteq Holding(t, q)
             /\ w \in Holding(t, q) \ Holding(st, q)
      <4>1. CASE q # p
        <5>1. Holding(st, q) \subseteq Holding(t, q)
          BY <2>4, <4>1 DEF Holding, In, p
        <5> QED
          BY <5>1
      <4>2. CASE q = p
        <5>1. Holding(st, q) \ {r} \subseteq Holding(t, q)
          BY <2>4 DEF Holding, In
        <5>2. w \in Holding(t, q) \ Holding(st, q)
          BY <2>2, <2>4, <2>9, <4>2 DEF Holding, In, o
        <5> QED
          BY <5>1, <5>2
      <4> QED
        BY <4>1, <4>2
    <3> QED
      BY <3>1, StaysFull
  <2>10. ASSUME q # p PROVE ~SlotBusy(st, q, req[x].slot)
    <3>1. Holding(st, q) \subseteq Holding(t, q)
      BY <2>4, <2>10 DEF Holding, In, p
    <3>2. \A y \in Holding(st, q) : y \in Request
      BY DEF Holding, In
    <3> QED
      BY <2>6, <3>1 DEF SlotBusy
  <2>11. ~(~PoolFull(st, q) /\ ~SlotBusy(st, q, req[x].slot))
    <3> SUFFICES ASSUME ~PoolFull(st, q), ~SlotBusy(st, q, req[x].slot) PROVE FALSE
      OBVIOUS
    <3>1. x \in Eligible(st, u, q)
      BY <2>6, <2>7 DEF Eligible, In
    <3> QED
      BY <2>8, <3>1 DEF NoneAdmissible
  <2>12. q = p
    BY <2>9, <2>10, <2>11
  <2>13. ~SourceFull(st, o)
    BY <2>5, <2>8, <2>12
  <2>14. o = p
    <3> SUFFICES ASSUME o # p PROVE FALSE
      OBVIOUS
    <3>1. Holding(s, o) = Holding(st, o)
      BY DEF Holding, In, p
    <3>2. ~PoolFull(st, o) /\ ~SlotBusy(st, o, req[w].slot)
      BY <2>2, <3>1 DEF PoolFull, SlotBusy
    <3>3. w \in Eligible(st, u, o)
      BY <2>2, <2>4, <3>2 DEF Eligible, In, o
    <3> QED
      BY <2>5, <2>13, <3>2, <3>3 DEF NoneAdmissible
  <2>15. ~PoolFull(st, p) /\ SlotBusy(st, p, req[x].slot)
    BY <2>9, <2>11, <2>12, <2>14
  <2>16. PICK y \in Holding(st, p) : req[y].slot = req[x].slot /\ req[x].slot # NoSlot
    BY <2>15 DEF SlotBusy
  <2>17. y = r
    <3>1. y \in Request /\ y \notin Holding(t, p)
      BY <2>6, <2>12, <2>16 DEF SlotBusy, Holding, In
    <3> QED
      BY <2>4, <3>1 DEF Holding, In
  <2>18. req[w].slot # req[x].slot
    <3>1. w \in Holding(t, p)
      BY <2>2, <2>4, <2>14 DEF Holding, In, o
    <3> QED
      BY <2>6, <2>12, <2>16, <3>1 DEF SlotBusy
  <2>19. ~SlotBusy(st, p, req[w].slot)
    <3>1. Holding(st, p) \subseteq Holding(s, p) \cup {r}
      BY DEF Holding, In
    <3>2. ~SlotBusy(s, p, req[w].slot)
      BY <2>2, <2>14
    <3> QED
      BY <2>16, <2>17, <2>18, <3>1, <3>2 DEF SlotBusy
  <2>20. w \in Eligible(st, u, p)
    BY <2>2, <2>4, <2>14, <2>19 DEF Eligible, In, o
  <2> QED
    BY <1>1, <2>5, <2>8, <2>12, <2>15, <2>20 DEF NoneAdmissible
<1> QED
  BY <1>3, <1>4
\* A step that changes no column and only adds to what is held or counted, or
\* takes waiters away, leaves no waiter behind.
LEMMA MoreHeldNoneAdmissible ==
    ASSUME TypeOK, NEW t, NEW u, NEW v, u \subseteq v, NoneAdmissible(st, u),
           \A x \in Request :
              /\ st[x] \in {"ACTIVE", "RECOVERY_REQUIRED"} => t[x] \in {"ACTIVE", "RECOVERY_REQUIRED"}
              /\ st[x] = "INHERITED" => t[x] \in {"INHERITED", "RECOVERY_REQUIRED"}
              /\ t[x] = "QUEUED" => st[x] = "QUEUED"
    PROVE  NoneAdmissible(t, v)
<1> SUFFICES ASSUME NEW q \in Pool, ~SourceFull(t, q), ~PoolFull(t, q),
                    NEW x \in Eligible(t, v, q)
             PROVE  FALSE
  BY DEF NoneAdmissible
<1>1. Counted(st, q) \subseteq Counted(t, q) /\ Holding(st, q) \subseteq Holding(t, q)
  BY DEF Counted, Holding, In
<1>2. ~SourceFull(st, q) /\ ~PoolFull(st, q)
  BY <1>1, StaysFull
<1>3. ~SlotBusy(t, q, req[x].slot)
  BY DEF Eligible
<1>4. ~SlotBusy(st, q, req[x].slot)
  BY <1>1, <1>3 DEF SlotBusy
<1>5. x \in Eligible(st, u, q)
  BY <1>4 DEF Eligible, In
<1> QED
  BY <1>2, <1>5 DEF NoneAdmissible

\* The state predicate, where a step changes no column.
LEMMA NoneAdmissibleNext ==
    ASSUME req' = req, NoneAdmissible(st', unknown')
    PROVE  NoneAdmissible(st, unknown)'
<1> SUFFICES ASSUME NEW q \in Pool
             PROVE  SourceFull(st, q)' \/ PoolFull(st, q)' \/ Eligible(st, unknown, q)' = {}
  BY DEF NoneAdmissible
<1>1. SourceFull(st, q)' <=> SourceFull(st', q)
  BY DEF SourceFull
<1>2. Holding(st, q)' = Holding(st', q)
  BY DEF Holding, In
<1>3. PoolFull(st, q)' <=> PoolFull(st', q)
  BY <1>2 DEF PoolFull
<1>4. Eligible(st, unknown, q)' = Eligible(st', unknown', q)
  BY <1>2 DEF Eligible, SlotBusy, In
<1> QED
  BY <1>1, <1>3, <1>4 DEF NoneAdmissible

\* A row that waits was refused its place by what request() counted.
LEMMA InsertNoneAdmissible ==
    ASSUME TypeOK, NoneAdmissible(st, unknown), count < MaxRequests,
           NEW row \in Row, NEW state \in State, NEW p \in Proc \cup {NoProc},
           Insert(row, state, p), unknown' = unknown,
           state = "QUEUED" => \/ PoolFull(st, row.pool)
                               \/ SourceFull(st, row.pool)
                               \/ SlotBusy(st, row.pool, row.slot)
    PROVE  NoneAdmissible(st, unknown)'
<1>1. count' \in Request /\ count' = count + 1
  BY InsertTypes
<1>2. st' = [st EXCEPT ![count'] = state] /\ req' = [req EXCEPT ![count'] = row]
  BY DEF Insert
<1>3. /\ st[count'] = "NONE" /\ st'[count'] = state /\ req'[count'] = row
      /\ \A x \in Request \ {count'} : st'[x] = st[x] /\ req'[x] = req[x]
  BY <1>1, <1>2 DEF TypeOK
<1> SUFFICES ASSUME NEW q \in Pool, ~SourceFull(st, q)', ~PoolFull(st, q)',
                    NEW x \in Eligible(st, unknown, q)'
             PROVE  FALSE
  BY DEF NoneAdmissible
<1> DEFINE C == {y \in Request : /\ st'[y] \in {"ACTIVE", "INHERITED", "RECOVERY_REQUIRED"}
                                 /\ req'[y].pool \in Related(q)}
           H == {y \in Request : st'[y] \in {"ACTIVE", "RECOVERY_REQUIRED"} /\ req'[y].pool = q}
<1>4. Counted(st, q) \subseteq C /\ Holding(st, q) \subseteq H
  BY <1>3 DEF Counted, Holding, In
<1>5. C \in SUBSET Request /\ H \in SUBSET Request
  OBVIOUS
<1>6. Cardinality(C) \in Nat /\ Cardinality(H) \in Nat
  <2> HIDE DEF C, H
  <2> QED
    BY <1>5, RowsAreFinite
<1>7. Cardinality(Counted(st, q)) <= Cardinality(C) /\ Cardinality(Holding(st, q)) <= Cardinality(H)
  <2> HIDE DEF C, H
  <2> QED
    BY <1>4, <1>5, FewerRows
<1>8. SourceOf[q] # NoSource => ~(Cardinality(C) >= SourceCapacity[SourceOf[q]])
  BY DEF SourceFull
<1>9. ~(Cardinality(H) >= Capacity[q])
  BY DEF PoolFull, Holding, In
<1>10. ~SlotBusy(st, q, req'[x].slot)
  <2>1. ~(req'[x].slot # NoSlot /\ \E y \in H : req'[y].slot = req'[x].slot)
    BY DEF Eligible, SlotBusy, Holding, In
  <2>2. \A y \in Holding(st, q) : y \in Request /\ y # count'
    BY <1>3 DEF Holding, In
  <2> HIDE DEF H
  <2> QED
    BY <1>3, <1>4, <2>1, <2>2 DEF SlotBusy
<1>11. x \in Request /\ st'[x] = "QUEUED" /\ req'[x].pool = q /\ req'[x].attempt \notin unknown
  BY DEF Eligible, In
<1> HIDE DEF C, H
<1>12. ~SourceFull(st, q) /\ ~PoolFull(st, q)
  BY <1>6, <1>7, <1>8, <1>9, CountsAreNumbers DEF PoolFull
<1>13. CASE x = count'
  BY <1>3, <1>10, <1>11, <1>12, <1>13
<1>14. CASE x # count'
  <2>1. x \in Eligible(st, unknown, q)
    BY <1>3, <1>10, <1>11, <1>14 DEF Eligible, In
  <2> QED
    BY <1>12, <2>1 DEF NoneAdmissible
<1> QED
  BY <1>13, <1>14

NoWaiterHasRoom == NoneAdmissible(st, unknown)

LEMMA NoWaiterHasRoomStep ==
    ASSUME TypeOK, RoomForRow, NoWaiterHasRoom, [Next]_vars
    PROVE  NoWaiterHasRoom'
<1>1. ASSUME req' = req, unknown' = unknown,
             \A x \in Request :
                st'[x] # st[x] => st'[x] = "RECOVERY_REQUIRED"
      PROVE  NoWaiterHasRoom'
  <2>1. NoneAdmissible(st', unknown')
    BY <1>1, MoreHeldNoneAdmissible DEF NoWaiterHasRoom
  <2> QED
    BY <1>1, <2>1, NoneAdmissibleNext DEF NoWaiterHasRoom
<1>2. ASSUME NEW r \in Request,
             CommitAndPromote([st EXCEPT ![r] = "RELEASED"], lease, unknown, req[r].pool),
             UNCHANGED <<req, unknown>>
      PROVE  NoWaiterHasRoom'
  <2> DEFINE s == [st EXCEPT ![r] = "RELEASED"]
  <2>1. \A x \in Request : s[x] # st[x] => s[x] = "RELEASED" /\ (x = r \/ st[x] = "QUEUED")
    BY DEF TypeOK
  <2>2. \A x \in Request :
          st'[x] = IF x \in Promotable(s, unknown, req[r].pool) THEN "ACTIVE" ELSE s[x]
    BY <1>2 DEF CommitAndPromote
  <2> HIDE DEF s
  <2>3. NoneAdmissible(st', unknown)
    BY <2>1, <2>2, OneForOne DEF NoWaiterHasRoom
  <2> QED
    BY <1>2, <2>3, NoneAdmissibleNext DEF NoWaiterHasRoom
<1>3. CASE BeginRequest \/ BeginReconcile \/ BeginSweep
  BY <1>1, <1>3 DEF BeginRequest, BeginReconcile, BeginSweep, BeginTransaction
<1>4. CASE SweepReleases
  <2>1. PICK r \in Stale :
          LET a == req[r].attempt
              released == {r} \cup {q \in Request : st[q] = "QUEUED" /\ req[q].attempt = a}
              s == [q \in Request |-> IF q \in released THEN "RELEASED" ELSE st[q]]
          IN  /\ unknown' = unknown \cup ({a} \cap Registered)
              /\ CommitAndPromote(s, [lease EXCEPT ![r] = "NONE"], unknown', req[r].pool)
    BY <1>4 DEF SweepReleases
  <2> DEFINE s == [q \in Request |->
                     IF q \in {r} \cup {x \in Request : st[x] = "QUEUED"
                                                    /\ req[x].attempt = req[r].attempt}
                     THEN "RELEASED" ELSE st[q]]
  <2>2. r \in Request
    BY ConstantsAssumption DEF Stale, TypeOK, Request
  <2>3. \A x \in Request : s[x] # st[x] => s[x] = "RELEASED" /\ (x = r \/ st[x] = "QUEUED")
    OBVIOUS
  <2>4. \A x \in Request :
          st'[x] = IF x \in Promotable(s, unknown', req[r].pool) THEN "ACTIVE" ELSE s[x]
    BY <2>1 DEF CommitAndPromote
  <2>5. unknown \subseteq unknown' /\ req' = req
    BY <1>4, <2>1 DEF SweepReleases
  <2> HIDE DEF s
  <2>6. NoneAdmissible(st', unknown')
    BY <2>2, <2>3, <2>4, <2>5, OneForOne DEF NoWaiterHasRoom
  <2> QED
    BY <2>5, <2>6, NoneAdmissibleNext DEF NoWaiterHasRoom
<1>5. CASE SweepAgain
  BY <1>1, <1>5 DEF SweepAgain
<1>6. CASE Finish
  BY <1>1, <1>6 DEF Finish, FinishSweep, FinishReconcile, Refuse
<1>7. CASE Answer
  <2>1. count < MaxRequests
    BY <1>7 DEF Answer, Swept, RoomForRow
  <2>2. PICK row \in Row, p \in Proc \cup {NoProc} : Inherit(row, p) \/ Admit(row, p)
    BY <1>7 DEF Answer
  <2>3. unknown' = unknown
    BY <2>2 DEF Inherit, Admit
  <2>4. PICK state \in State :
          /\ Insert(row, state, p)
          /\ state = "QUEUED" => \/ PoolFull(st, row.pool)
                                 \/ SourceFull(st, row.pool)
                                 \/ SlotBusy(st, row.pool, row.slot)
    <3>1. CASE Inherit(row, p)
      <4> DEFINE state == IF Children(st, row.parent) = {} THEN "INHERITED" ELSE "QUARANTINED"
      <4>1. state \in State /\ state # "QUEUED"
        BY DEF State
      <4>2. Insert(row, state, p)
        BY <3>1 DEF Inherit
      <4> QED
        BY <4>1, <4>2
    <3>2. CASE Admit(row, p)
      BY <3>2 DEF Admit, State
    <3> QED
      BY <2>2, <3>1, <3>2
  <2> QED
    BY <2>1, <2>3, <2>4, InsertNoneAdmissible DEF NoWaiterHasRoom
<1>8. CASE Operation
  <2>1. ASSUME NEW r \in Request, Release(r) PROVE NoWaiterHasRoom'
    BY <1>2, <2>1 DEF Release
  <2>2. ASSUME NEW r \in Request, NEW attested \in BOOLEAN, Recover(r, attested)
        PROVE  NoWaiterHasRoom'
    BY <1>2, <2>2 DEF Recover, Recoverable
  <2>3. ASSUME NEW r \in Request, NEW n \in 1 .. MaxSequence, Heartbeat(r, n)
        PROVE  NoWaiterHasRoom'
    BY <1>1, <2>3 DEF Heartbeat
  <2>4. ASSUME NEW r \in Request, NEW p \in Proc, AttachChild(r, p) PROVE NoWaiterHasRoom'
    BY <1>1, <2>4 DEF AttachChild
  <2>5. ASSUME NEW r \in Request, MarkUncertain(r) \/ MarkRecovery(r) \/ RetainKnown(r)
        PROVE  NoWaiterHasRoom'
    <3>1. Fence(r)
      BY <2>5 DEF MarkUncertain, MarkRecovery, RetainKnown
    <3> QED
      BY <1>1, <3>1 DEF Fence, TypeOK
  <2> QED
    BY <1>8, <2>1, <2>2, <2>3, <2>4, <2>5 DEF Operation
<1>9. CASE \E row \in Row : RetainUnseen(row)
  <2>1. "RECOVERY_REQUIRED" \in State /\ NoProc \in Proc \cup {NoProc}
    BY DEF State
  <2> QED
    BY <1>9, <2>1, InsertNoneAdmissible DEF RetainUnseen, NoWaiterHasRoom
<1>10. CASE Environment
  BY <1>1, <1>10 DEF Environment, LeaseExpires, GrowsOld, HoldRunsOut, ProcessFails
<1>11. CASE UNCHANGED vars
  BY <1>1, <1>11 DEF vars
<1> QED
  BY <1>3, <1>4, <1>5, <1>6, <1>7, <1>8, <1>9, <1>10, <1>11 DEF Next, SweepStep

\* No waiter is left behind that its pool, its account and its slot would admit:
\* each release promotes at most one waiter of the related pools, and one is
\* enough, because the journal never holds a waiter with room to begin with.
THEOREM WaitersCorrect == Spec => []NoStrandedWaiter
<1>1. Init => NoWaiterHasRoom
  <2>1. Init => \A s, q : s = st => Eligible(s, unknown, q) = {}
    BY DEF Init, Eligible, In
  <2> QED
    BY <2>1 DEF NoWaiterHasRoom, NoneAdmissible
<1>2. Journal /\ NoWaiterHasRoom /\ [Next]_vars => NoWaiterHasRoom'
  BY NoWaiterHasRoomStep DEF Journal
<1>3. NoWaiterHasRoom => NoStrandedWaiter
  <2> SUFFICES ASSUME NoWaiterHasRoom, NEW p \in Pool, NEW q \in Promotable(st, unknown, p)
               PROVE  FALSE
    BY DEF NoStrandedWaiter
  <2>1. PICK r : q \in FirstOf(Eligible(st, unknown, req[r].pool))
    BY DEF Promotable
  <2>2. q \in Request /\ q \in Eligible(st, unknown, req[r].pool) /\ req[q].pool = req[r].pool
    BY <2>1 DEF FirstOf, Eligible, In
  <2>3. ~PoolFull(st, req[q].pool) /\ ~SourceFull(st, req[q].pool)
    BY PromotableHasRoom
  <2>4. req[q].pool \in Pool
    BY DEF Promotable, FirstOf, Related, Eligible, In
  <2> QED
    BY <2>2, <2>3, <2>4 DEF NoWaiterHasRoom, NoneAdmissible
<1> QED
  BY <1>1, <1>2, <1>3, JournalHolds, PTL DEF Spec
----------------------------------------------------------------------------
(* What a sweep knows of a row it releases                                 *)

\* A waiter of this pass's SELECT that holds a place by now was promoted within
\* the transaction, and promotion renewed its age.
PromotedIsYoung ==
    op # "idle" =>
        \A r \in Request : snap[r] = "QUEUED" /\ st[r] \in {"ACTIVE", "INHERITED", "RECOVERY_REQUIRED"}
                            => age[r] = 0

LEMMA PromotedIsYoungStep ==
    ASSUME TypeOK, PromotedIsYoung, [Next]_vars
    PROVE  PromotedIsYoung'
<1>1. ASSUME op' = "idle" PROVE PromotedIsYoung'
  BY <1>1 DEF PromotedIsYoung
<1>2. CASE BeginRequest \/ BeginReconcile \/ BeginSweep
  BY <1>2 DEF BeginRequest, BeginReconcile, BeginSweep, BeginTransaction, PromotedIsYoung
<1>3. CASE SweepReleases
  <2>1. PICK r \in Stale :
          LET a == req[r].attempt
              released == {r} \cup {q \in Request : st[q] = "QUEUED" /\ req[q].attempt = a}
              s == [q \in Request |-> IF q \in released THEN "RELEASED" ELSE st[q]]
          IN  CommitAndPromote(s, [lease EXCEPT ![r] = "NONE"], unknown', req[r].pool)
    BY <1>3 DEF SweepReleases
  <2> DEFINE s == [q \in Request |->
                     IF q \in {r} \cup {x \in Request : st[x] = "QUEUED"
                                                    /\ req[x].attempt = req[r].attempt}
                     THEN "RELEASED" ELSE st[q]]
             P == Promotable(s, unknown', req[r].pool)
  <2>2. \A q \in Request : s[q] # st[q] => s[q] = "RELEASED"
    OBVIOUS
  <2>3. /\ st' = [q \in Request |-> IF q \in P THEN "ACTIVE" ELSE s[q]]
        /\ age' = [q \in Request |-> IF q \in P THEN 0 ELSE age[q]]
    BY <2>1 DEF CommitAndPromote
  <2>4. snap' = snap /\ op' = op /\ op # "idle"
    BY <1>3 DEF SweepReleases
  <2> HIDE DEF s, P
  <2>5. ASSUME NEW q \in Request, snap[q] = "QUEUED",
               st'[q] \in {"ACTIVE", "INHERITED", "RECOVERY_REQUIRED"}
        PROVE  age'[q] = 0
    <3>1. CASE q \in P
      BY <2>3, <3>1
    <3>2. CASE q \notin P
      <4>1. st'[q] = s[q] /\ age'[q] = age[q]
        BY <2>3, <3>2
      <4>2. s[q] = st[q]
        BY <2>2, <2>5, <4>1
      <4> QED
        BY <2>4, <2>5, <4>1, <4>2 DEF PromotedIsYoung
    <3> QED
      BY <3>1, <3>2
  <2> QED
    BY <2>4, <2>5 DEF PromotedIsYoung
<1>4. CASE SweepAgain
  BY <1>4 DEF SweepAgain, PromotedIsYoung
<1>5. CASE Finish \/ Answer
  BY <1>1, <1>5 DEF Finish, FinishSweep, FinishReconcile, Refuse, Answer, Inherit, Admit,
                    EndTransaction
<1>6. CASE Operation
  BY <1>1, <1>6 DEF Operation, Heartbeat, Release, Recover, Recoverable, MarkUncertain, MarkRecovery,
                    RetainKnown, Fence, AttachChild, sweepVars
<1>7. CASE \E row \in Row : RetainUnseen(row)
  BY <1>1, <1>7 DEF RetainUnseen, sweepVars
<1>8. CASE Environment
  BY <1>1, <1>8 DEF Environment, LeaseExpires, GrowsOld, HoldRunsOut, ProcessFails, sweepVars
<1>9. CASE UNCHANGED vars
  BY <1>9 DEF vars, PromotedIsYoung
<1> QED
  BY <1>2, <1>3, <1>4, <1>5, <1>6, <1>7, <1>8, <1>9 DEF Next, SweepStep

\* Only the sweep releases a held row while a transaction is open, and of the
\* rows it releases only the stale candidate was held.
LEMMA SweptHolderIsStale ==
    ASSUME TypeOK, RoomForRow, [Next]_vars, NEW r \in Request, op # "idle",
           st[r] \in {"ACTIVE", "INHERITED", "RECOVERY_REQUIRED"}, st'[r] = "RELEASED"
    PROVE  r \in Stale
<1>1. st'[r] # st[r]
  OBVIOUS
<1>2. CASE SweepReleases
  <2>1. PICK x \in Stale :
          LET a == req[x].attempt
              released == {x} \cup {q \in Request : st[q] = "QUEUED" /\ req[q].attempt = a}
              s == [q \in Request |-> IF q \in released THEN "RELEASED" ELSE st[q]]
          IN  CommitAndPromote(s, [lease EXCEPT ![x] = "NONE"], unknown', req[x].pool)
    BY <1>2 DEF SweepReleases
  <2> DEFINE s == [q \in Request |->
                     IF q \in {x} \cup {y \in Request : st[y] = "QUEUED"
                                                    /\ req[y].attempt = req[x].attempt}
                     THEN "RELEASED" ELSE st[q]]
  <2>2. st'[r] \in {"ACTIVE", s[r]}
    BY <2>1 DEF CommitAndPromote
  <2> QED
    BY <2>1, <2>2
<1>3. CASE Answer
  <2>1. count < MaxRequests
    BY <1>3 DEF Answer, Swept, RoomForRow
  <2>2. PICK row \in Row, p \in Proc \cup {NoProc}, state \in State : Insert(row, state, p)
    BY <1>3 DEF Answer, Inherit, Admit, State
  <2>3. count' \in Request /\ count' = count + 1
    BY <2>1, <2>2, InsertTypes
  <2>4. st[count'] = "NONE" /\ st' = [st EXCEPT ![count'] = state]
    BY <2>2, <2>3 DEF TypeOK, Insert
  <2> QED
    BY <1>1, <2>4 DEF TypeOK
<1>4. CASE Finish
  BY <1>1, <1>4 DEF Finish, FinishSweep, FinishReconcile, Refuse
<1>5. CASE BeginRequest \/ BeginReconcile \/ BeginSweep \/ SweepAgain
  BY <1>1, <1>5 DEF BeginRequest, BeginReconcile, BeginSweep, BeginTransaction, SweepAgain
<1>6. CASE Operation
  BY <1>6 DEF Operation, Heartbeat, Release, Recover, Recoverable, MarkUncertain, MarkRecovery,
              RetainKnown, AttachChild
<1>7. CASE (\E row \in Row : RetainUnseen(row)) \/ Environment
  BY <1>7 DEF RetainUnseen, Environment, LeaseExpires, GrowsOld, HoldRunsOut, ProcessFails
<1>8. CASE UNCHANGED vars
  BY <1>1, <1>8 DEF vars
<1> QED
  BY <1>2, <1>3, <1>4, <1>5, <1>6, <1>7, <1>8 DEF Next, SweepStep

\* The identities a stale row was judged on are all that the journal holds for it,
\* whatever the pass's SELECT saw it as.
LEMMA StaleIsDead ==
    ASSUME TypeOK, PromotedIsYoung, op # "idle", NEW r \in Stale,
           st[r] \in {"ACTIVE", "INHERITED", "RECOVERY_REQUIRED"}
    PROVE  r \in overheld \/ AllGone(Known({owner[r], OwnProc(r)}))
<1>1. r \in Request
  BY ConstantsAssumption DEF Stale, TypeOK, Request
<1>2. CASE HoldExceeded(r, snap)
  BY <1>2 DEF HoldExceeded
<1>3. CASE age[r] >= 1 /\ OwnerGone(r, snap)
  <2>1. snap[r] # "QUEUED"
    BY <1>1, <1>3 DEF PromotedIsYoung
  <2>2. AllGone(Identities(r, snap[r]))
    BY <1>3, <2>1 DEF OwnerGone
  <2>3. lease[r] # "NONE" => LeaseProc(r) = proc[r]
    BY <1>1 DEF LeaseProc, HasLeaseRow, LeaseId, Request, None
  <2>4. Known({owner[r], OwnProc(r)}) \subseteq Identities(r, snap[r])
    BY <2>3 DEF Known, OwnProc, Identities
  <2> QED
    BY <2>2, <2>4 DEF AllGone
<1> QED
  BY <1>2, <1>3 DEF Stale, Sweepable

\* A sweep takes a held row only from owners it has proven gone, or past the
\* maximum hold: a waiter promoted earlier in the same transaction, which the
\* pass's SELECT still shows as waiting, is not taken for a dead waiter.
THEOREM SweepCorrect == Spec => SweepSparesLiveOwners
<1>1. Init => PromotedIsYoung
  BY DEF Init, PromotedIsYoung
<1>2. Journal /\ PromotedIsYoung /\ [Next]_vars => PromotedIsYoung'
  BY PromotedIsYoungStep DEF Journal
<1>3. Journal /\ PromotedIsYoung /\ [Next]_vars =>
        [\A r \in Request :
            /\ op # "idle" /\ st[r] \in {"ACTIVE", "INHERITED", "RECOVERY_REQUIRED"}
            /\ st'[r] = "RELEASED"
            => r \in overheld \/ AllGone(Known({owner[r], OwnProc(r)}))]_vars
  BY SweptHolderIsStale, StaleIsDead DEF Journal
<1> QED
  BY <1>1, <1>2, <1>3, JournalHolds, PTL DEF Spec, SweepSparesLiveOwners
----------------------------------------------------------------------------
(* The verdict on a gate (GateVerdict)                                     *)

\* A row that waits is of an attempt whose outcome is not UNKNOWN, and neither it
\* nor a grant was admitted under another's lease.
WaitersStandAlone ==
    \A r \in Request :
        /\ st[r] = "QUEUED" => req[r].attempt \notin unknown
        /\ st[r] \in {"QUEUED", "ACTIVE"} => req[r].parent = None

LEMMA WaitersStandAloneStep ==
    ASSUME TypeOK, RoomForRow, WaitersStandAlone, [Next]_vars
    PROVE  WaitersStandAlone'
<1>1. ASSUME req' = req, unknown' = unknown,
             \A x \in Request : \/ st'[x] = st[x]
                                \/ st'[x] \in {"RECOVERY_REQUIRED", "RELEASED"}
                                \/ st[x] = "QUEUED" /\ st'[x] = "ACTIVE"
      PROVE  WaitersStandAlone'
  BY <1>1 DEF WaitersStandAlone
<1>2. ASSUME NEW r \in Request,
             CommitAndPromote([st EXCEPT ![r] = "RELEASED"], lease, unknown, req[r].pool),
             UNCHANGED <<req, unknown>>
      PROVE  WaitersStandAlone'
  <2> DEFINE s == [st EXCEPT ![r] = "RELEASED"]
             P == Promotable(s, unknown, req[r].pool)
  <2>1. \A x \in Request : s[x] # st[x] => s[x] = "RELEASED"
    BY DEF TypeOK
  <2>2. st' = [x \in Request |-> IF x \in P THEN "ACTIVE" ELSE s[x]]
    BY <1>2 DEF CommitAndPromote
  <2> HIDE DEF s
  <2>3. \A x \in P : s[x] = "QUEUED"
    BY PromotableHasRoom
  <2> HIDE DEF P
  <2>4. ASSUME NEW x \in Request
        PROVE  \/ st'[x] = st[x]
               \/ st'[x] \in {"RECOVERY_REQUIRED", "RELEASED"}
               \/ st[x] = "QUEUED" /\ st'[x] = "ACTIVE"
    <3>1. CASE x \in P
      BY <2>1, <2>2, <2>3, <3>1
    <3>2. CASE x \notin P
      BY <2>1, <2>2, <3>2
    <3> QED
      BY <3>1, <3>2
  <2> QED
    BY <1>1, <1>2, <2>4
<1>3. CASE BeginRequest \/ BeginReconcile \/ BeginSweep
  BY <1>1, <1>3 DEF BeginRequest, BeginReconcile, BeginSweep, BeginTransaction
<1>4. CASE SweepReleases
  <2>1. PICK r \in Stale :
          LET a == req[r].attempt
              released == {r} \cup {q \in Request : st[q] = "QUEUED" /\ req[q].attempt = a}
              s == [q \in Request |-> IF q \in released THEN "RELEASED" ELSE st[q]]
          IN  /\ unknown' = unknown \cup ({a} \cap Registered)
              /\ CommitAndPromote(s, [lease EXCEPT ![r] = "NONE"], unknown', req[r].pool)
    BY <1>4 DEF SweepReleases
  <2> DEFINE s == [q \in Request |->
                     IF q \in {r} \cup {x \in Request : st[x] = "QUEUED"
                                                    /\ req[x].attempt = req[r].attempt}
                     THEN "RELEASED" ELSE st[q]]
             P == Promotable(s, unknown', req[r].pool)
  <2>2. \A x \in Request : s[x] # st[x] => s[x] = "RELEASED"
    OBVIOUS
  <2>7. \A x \in Request : s[x] = "QUEUED" => req[x].attempt # req[r].attempt
    OBVIOUS
  <2>3. st' = [x \in Request |-> IF x \in P THEN "ACTIVE" ELSE s[x]]
    BY <2>1 DEF CommitAndPromote
  <2>4. \A x \in P : s[x] = "QUEUED"
    BY PromotableHasRoom
  <2>5. unknown' \subseteq unknown \cup {req[r].attempt} /\ req' = req
    BY <1>4, <2>1 DEF SweepReleases
  <2> HIDE DEF s, P
  <2>6. ASSUME NEW x \in Request
        PROVE  /\ st'[x] = "QUEUED" => s[x] = "QUEUED" /\ st[x] = "QUEUED"
               /\ st'[x] \in {"QUEUED", "ACTIVE"} => st[x] \in {"QUEUED", "ACTIVE"}
    <3>1. CASE x \in P
      BY <2>2, <2>3, <2>4, <3>1
    <3>2. CASE x \notin P
      BY <2>2, <2>3, <3>2
    <3> QED
      BY <3>1, <3>2
  <2> QED
    BY <2>5, <2>6, <2>7 DEF WaitersStandAlone
<1>5. CASE SweepAgain
  BY <1>1, <1>5 DEF SweepAgain
<1>6. CASE Finish
  BY <1>1, <1>6 DEF Finish, FinishSweep, FinishReconcile, Refuse
<1>7. ASSUME count < MaxRequests, UNCHANGED unknown,
             NEW row \in Row, NEW state \in State, NEW p \in Proc \cup {NoProc},
             Insert(row, state, p),
             state \in {"QUEUED", "ACTIVE"} => row.attempt \notin unknown /\ row.parent = None
      PROVE  WaitersStandAlone'
  <2>1. count' \in Request
    BY <1>7, InsertTypes
  <2>2. /\ st'[count'] = state /\ req'[count'] = row
        /\ \A x \in Request \ {count'} : st'[x] = st[x] /\ req'[x] = req[x]
    BY <1>7, <2>1 DEF Insert, TypeOK
  <2> QED
    BY <1>7, <2>2 DEF WaitersStandAlone
<1>8. CASE Answer
  <2>1. count < MaxRequests
    BY <1>8 DEF Answer, Swept, RoomForRow
  <2>2. PICK row \in Row, p \in Proc \cup {NoProc} : Inherit(row, p) \/ Admit(row, p)
    BY <1>8 DEF Answer
  <2>3. UNCHANGED unknown /\ row.attempt \notin unknown
    BY <2>2 DEF Inherit, Admit, Revoked
  <2>4. CASE Inherit(row, p)
    <3> DEFINE state == IF Children(st, row.parent) = {} THEN "INHERITED" ELSE "QUARANTINED"
    <3>1. state \in State /\ state \notin {"QUEUED", "ACTIVE"}
      BY DEF State
    <3>2. Insert(row, state, p)
      BY <2>4 DEF Inherit
    <3> QED
      BY <1>7, <2>1, <2>3, <3>1, <3>2
  <2>5. CASE Admit(row, p)
    <3>1. PICK state \in State : Insert(row, state, p)
      BY <2>5 DEF Admit, State
    <3>2. row.parent = None
      BY <2>5 DEF Admit
    <3> QED
      BY <1>7, <2>1, <2>3, <3>1, <3>2
  <2> QED
    BY <2>2, <2>4, <2>5
<1>9. CASE Operation
  <2>1. ASSUME NEW r \in Request, Release(r) PROVE WaitersStandAlone'
    BY <1>2, <2>1 DEF Release
  <2>2. ASSUME NEW r \in Request, NEW attested \in BOOLEAN, Recover(r, attested)
        PROVE  WaitersStandAlone'
    BY <1>2, <2>2 DEF Recover, Recoverable
  <2>3. ASSUME NEW r \in Request, NEW n \in 1 .. MaxSequence, Heartbeat(r, n)
        PROVE  WaitersStandAlone'
    BY <1>1, <2>3 DEF Heartbeat
  <2>4. ASSUME NEW r \in Request, NEW p \in Proc, AttachChild(r, p) PROVE WaitersStandAlone'
    BY <1>1, <2>4 DEF AttachChild
  <2>5. ASSUME NEW r \in Request, MarkUncertain(r) \/ MarkRecovery(r) \/ RetainKnown(r)
        PROVE  WaitersStandAlone'
    <3>1. Fence(r)
      BY <2>5 DEF MarkUncertain, MarkRecovery, RetainKnown
    <3> QED
      BY <1>1, <3>1 DEF Fence, TypeOK
  <2> QED
    BY <1>9, <2>1, <2>2, <2>3, <2>4, <2>5 DEF Operation
<1>10. CASE \E row \in Row : RetainUnseen(row)
  <2>1. "RECOVERY_REQUIRED" \in State /\ NoProc \in Proc \cup {NoProc}
    BY DEF State
  <2> QED
    BY <1>7, <1>10, <2>1 DEF RetainUnseen
<1>11. CASE Environment
  BY <1>1, <1>11 DEF Environment, LeaseExpires, GrowsOld, HoldRunsOut, ProcessFails
<1>12. CASE UNCHANGED vars
  BY <1>1, <1>12 DEF vars
<1> QED
  BY <1>3, <1>4, <1>5, <1>6, <1>8, <1>9, <1>10, <1>11, <1>12 DEF Next, SweepStep

\* What a waiter is told of a holder's owner is what the sweep would find: the
\* sweep would call it gone when no recorded identity is left that may be there.
LEMMA OwnerToldTruly ==
    ASSUME TypeOK, NEW h \in Request, st[h] \in {"ACTIVE", "RECOVERY_REQUIRED"}
    PROVE  OwnerAlive(h) \in {"gone", "unrecorded"} <=> OwnerGone(h, st)
<1> DEFINE ps    == Known({owner[h], LeaseProc(h)})
           there == {p \in ps : life[p] # "gone"}
           first == IF owner[h] \in there THEN owner[h] ELSE LeaseProc(h)
<1>1. OwnerGone(h, st) <=> there = {}
  BY DEF OwnerGone, Identities, AllGone
<1>2. LeaseProc(h) \in Proc \cup {NoProc} /\ owner[h] \in Proc \cup {NoProc}
  <2>1. LeaseId(h) # None => LeaseId(h) \in Request
    BY DEF LeaseId, TypeOK, Row
  <2> QED
    BY <2>1 DEF TypeOK, LeaseProc, HasLeaseRow
<1>3. ASSUME there # {} PROVE OwnerAlive(h) \notin {"gone", "unrecorded"}
  <2>1. first \in there
    BY <1>3 DEF Known
  <2>2. first \in Proc /\ life[first] # "gone"
    BY <1>2, <2>1 DEF Known
  <2>3. life[first] \in {"alive", "unproven"}
    BY <2>2 DEF TypeOK
  <2>4. ps # {}
    BY <1>3
  <2>5. OwnerAlive(h) = life[first]
    BY <1>3, <2>4 DEF OwnerAlive
  <2> QED
    BY <2>3, <2>5
<1>4. ASSUME there = {} PROVE OwnerAlive(h) \in {"gone", "unrecorded"}
  BY <1>4 DEF OwnerAlive
<1> QED
  BY <1>1, <1>3, <1>4

\* On a gate of capacity one the panel's verdict is what a request would meet.
LEMMA VerdictIsRight ==
    ASSUME TypeOK, NoWaiterHasRoom, WaitersStandAlone, FencedKeepTheirPlace
    PROVE  VerdictForetells
<1> SUFFICES ASSUME NEW p \in Pool, SourceOf[p] = NoSource, Capacity[p] = 1
             PROVE  /\ Verdict(p) = "CLEAR" <=> ~PoolFull(st, p)
                    /\ Verdict(p) # "ANOMALY"
                    /\ Verdict(p) = "FENCED" /\ Holders(p) # {} =>
                           \A r \in Fenced(p) : req[r].parent # None
                    /\ \A r \in Queue(p) : BlockingHolders(r) = Fenced(p) \cup Holders(p)
                    /\ \A r \in Queue(p) : \A h \in BlockingHolders(r) :
                           OwnerAlive(h) \in {"gone", "unrecorded"} <=> OwnerGone(h, st)
  BY DEF VerdictForetells
<1>1. Holding(st, p) = Fenced(p) \cup Holders(p) /\ Holding(st, p) \in SUBSET Request
  BY DEF Holding, Fenced, Holders, In
<1>2. PoolFull(st, p) <=> Holding(st, p) # {}
  <2>1. IsFiniteSet(Holding(st, p)) /\ Cardinality(Holding(st, p)) \in Nat
    BY <1>1, RowsAreFinite
  <2>2. Cardinality(Holding(st, p)) = 0 <=> Holding(st, p) = {}
    BY <2>1, FS_EmptySet
  <2> QED
    BY <2>1, <2>2 DEF PoolFull
<1>3. ~PoolFull(st, p) => Queue(p) = {}
  <2> SUFFICES ASSUME ~PoolFull(st, p), NEW r \in Queue(p) PROVE FALSE
    OBVIOUS
  <2>1. ~SourceFull(st, p) /\ ~SlotBusy(st, p, req[r].slot)
    BY <1>2 DEF SourceFull, SlotBusy
  <2>2. r \in Eligible(st, unknown, p)
    BY <2>1 DEF Eligible, Queue, In, WaitersStandAlone
  <2> QED
    BY <2>1, <2>2 DEF NoWaiterHasRoom, NoneAdmissible
<1>4. ASSUME NEW h \in Holders(p), NEW r \in Fenced(p), req[r].parent = None
      PROVE  FALSE
  <2> DEFINE A == {x \in In(st, {"ACTIVE", "RECOVERY_REQUIRED"}, p) : req[x].parent = None}
  <2>1. Cardinality(A) <= 1 /\ A \in SUBSET Request
    BY DEF FencedKeepTheirPlace, In
  <2>2. h \in A /\ r \in A /\ h # r
    BY <1>4 DEF Holders, Fenced, In, WaitersStandAlone
  <2> HIDE DEF A
  <2>3. {h} \cup {r} \in SUBSET A
    BY <2>2
  <2>4. Cardinality({h} \cup {r}) = 2
    <3>1. IsFiniteSet({h}) /\ Cardinality({h}) = 1
      BY FS_Singleton
    <3>2. Cardinality({h} \cup {r}) = IF r \in {h} THEN Cardinality({h}) ELSE Cardinality({h}) + 1
      BY <3>1, FS_AddElement
    <3>3. r \notin {h}
      BY <2>2
    <3> QED
      BY <3>1, <3>2, <3>3
  <2>5. Cardinality({h} \cup {r}) <= Cardinality(A) /\ Cardinality(A) \in Nat
    BY <2>1, <2>3, FewerRows, RowsAreFinite
  <2> QED
    BY <2>1, <2>4, <2>5
<1>5. ASSUME NEW r \in Queue(p) PROVE BlockingHolders(r) = Holding(st, p)
  <2>1. req[r].pool = p /\ PoolFull(st, p)
    BY <1>3 DEF Queue, In
  <2> QED
    BY <2>1 DEF BlockingHolders
<1>6. \A h \in Holding(st, p) : OwnerAlive(h) \in {"gone", "unrecorded"} <=> OwnerGone(h, st)
  BY OwnerToldTruly DEF Holding, In
<1> QED
  BY <1>1, <1>2, <1>3, <1>4, <1>5, <1>6 DEF Verdict

\* Nobody waits who has room, and who waits may be granted.
LEMMA WaitersHold == Spec => [](NoWaiterHasRoom /\ WaitersStandAlone)
<1>1. Init => NoWaiterHasRoom /\ WaitersStandAlone
  <2>1. Init => \A q : Eligible(st, unknown, q) = {}
    BY DEF Init, Eligible, In
  <2> QED
    BY <2>1 DEF Init, WaitersStandAlone, NoWaiterHasRoom, NoneAdmissible
<1>2. Journal /\ NoWaiterHasRoom /\ WaitersStandAlone /\ [Next]_vars
        => NoWaiterHasRoom' /\ WaitersStandAlone'
  BY NoWaiterHasRoomStep, WaitersStandAloneStep DEF Journal
<1> QED
  BY <1>1, <1>2, JournalHolds, PTL DEF Spec

\* Where the gate's capacity is one, the verdict the operator reads off a copy of
\* the journal is what request() would answer, and who waits is told of every
\* row in front of it.
THEOREM VerdictCorrect == Spec => []VerdictForetells
<1>1. Journal /\ NoWaiterHasRoom /\ WaitersStandAlone /\ FencedKeepTheirPlace
        => VerdictForetells
  BY VerdictIsRight DEF Journal
<1> QED
  BY <1>1, JournalHolds, WaitersHold, FencedCorrect, PTL

\* The recovery the panel offers for a fence of host:heavy or a lane without an
\* account, attested or not, is exactly the one resource-recover would accept,
\* whatever the journal records of the fenced row's lease and process.
THEOREM RecoveryCorrect == Spec => []OfferedRecoveryWorks
<1>1. ASSUME TypeOK, op = "idle", NEW r \in Request, NEW attested \in BOOLEAN,
             st[r] = "RECOVERY_REQUIRED", SourceOf[req[r].pool] = NoSource,
             req[r].parent = None
      PROVE  attested \in Adjudicate(r) <=> Recoverable(r, attested)
  <2>1. IF lease[r] # "NONE" THEN LeaseId(r) = r /\ r # None
        ELSE LeaseId(r) = None /\ OwnProc(r) = NoProc
    BY <1>1 DEF LeaseId, OwnProc, Request, None
  <2>2. CASE OwnProc(r) = NoProc
    BY <1>1, <2>1, <2>2 DEF Adjudicate, Recoverable
  <2>3. CASE OwnProc(r) # NoProc
    <3>1. OwnProc(r) \in Proc /\ life[OwnProc(r)] \in {"alive", "unproven", "gone"}
      BY <1>1, <2>3 DEF OwnProc, TypeOK
    <3> QED
      BY <1>1, <2>1, <2>3, <3>1 DEF Adjudicate, Recoverable
  <2> QED
    BY <2>2, <2>3
<1>2. TypeOK => OfferedRecoveryWorks
  BY <1>1 DEF OfferedRecoveryWorks
<1> QED
  BY <1>2, TypeCorrect, PTL

----------------------------------------------------------------------------
(* The line (ResourceQueue)                                                *)

\* The stages of a journal, row by row.
StagesOf(s) == [r \in Request |-> Stage(s[r])]

LEMMA StageTells ==
    ASSUME NEW x \in State \cup {"NONE"}
    PROVE  /\ Stage(x) = "absent" <=> x = "NONE"
           /\ Stage(x) = "waiting" <=> x = "QUEUED"
           /\ Stage(x) = "granted" <=> x = "ACTIVE"
           /\ Stage(x) = "sheltered" <=> x = "INHERITED"
           /\ Stage(x) = "held" <=> x = "RECOVERY_REQUIRED"
           /\ Stage(x) = "over" <=> x \in {"RELEASED", "QUARANTINED"}
           /\ Stage(x) \in {"absent", "waiting", "granted", "sheltered", "held", "over"}
<1>1. /\ Stage("NONE") = "absent" /\ Stage("QUEUED") = "waiting"
      /\ Stage("ACTIVE") = "granted" /\ Stage("INHERITED") = "sheltered"
      /\ Stage("RECOVERY_REQUIRED") = "held"
      /\ Stage("RELEASED") = "over" /\ Stage("QUARANTINED") = "over"
  BY DEF Stage
<1> QED
  BY <1>1 DEF State

\* The line counts with an instance of FiniteSets of its own.
LEMMA LineCounts == \A S : Line!Cardinality(S) = Cardinality(S)
BY DEF Line!Cardinality, Cardinality

\* A request fits as the line sees it exactly if request() and _promote_locked
\* find room in the pool, in the account and in the slot.
LEMMA FitsIsRoom ==
    ASSUME TypeOK, NEW s \in [Request -> State \cup {"NONE"}], NEW row \in Row
    PROVE  /\ Line!Covered(StagesOf(s), row.pool) <=> ~SourceFull(s, row.pool)
           /\ Line!Fits(StagesOf(s), row) <=> /\ ~PoolFull(s, row.pool)
                                              /\ ~SourceFull(s, row.pool)
                                              /\ ~SlotBusy(s, row.pool, row.slot)
<1> DEFINE p == row.pool
<1>1. p \in Pool
  BY DEF Row
<1>2. \A r \in Request : /\ StagesOf(s)[r] \in {"granted", "held"}
                                <=> s[r] \in {"ACTIVE", "RECOVERY_REQUIRED"}
                         /\ StagesOf(s)[r] \in {"granted", "sheltered", "held"}
                                <=> s[r] \in {"ACTIVE", "INHERITED", "RECOVERY_REQUIRED"}
  BY StageTells DEF StagesOf
<1>3. Line!Taken(StagesOf(s), p) = Holding(s, p)
  BY <1>2 DEF Line!Taken, Holding, In
<1>4. SourceOf[p] # NoSource => Line!Drawing(StagesOf(s), p) = Counted(s, p)
  <2>1. SourceOf[p] # NoSource =>
            \A r \in Request : req[r].pool \in Related(p) <=> SourceOf[req[r].pool] = SourceOf[p]
    BY DEF Related, TypeOK, Row
  <2> QED
    BY <1>2, <2>1 DEF Line!Drawing, Counted
<1> HIDE DEF p
<1>5. Line!Covered(StagesOf(s), p) <=> ~SourceFull(s, p)
  <2>1. CASE SourceOf[p] = NoSource
    BY <2>1 DEF Line!Covered, SourceFull
  <2>2. CASE SourceOf[p] # NoSource
    <3>1. /\ Cardinality(Counted(s, p)) \in Nat /\ SourceCapacity[SourceOf[p]] \in Nat
          /\ SourceFull(s, p) <=> Cardinality(Counted(s, p)) >= SourceCapacity[SourceOf[p]]
      BY <1>1, <2>2, CountsAreNumbers
    <3>2. Line!Covered(StagesOf(s), p)
              <=> Cardinality(Counted(s, p)) < SourceCapacity[SourceOf[p]]
      BY <1>4, <2>2, LineCounts DEF Line!Covered
    <3> QED
      BY <3>1, <3>2
  <2> QED
    BY <2>1, <2>2
<1>6. Cardinality(Line!Taken(StagesOf(s), p)) < Capacity[p] <=> ~PoolFull(s, p)
  BY <1>1, <1>3, CountsAreNumbers DEF PoolFull
<1>7. (row.slot # NoSlot => \A r \in Line!Taken(StagesOf(s), p) : req[r].slot # row.slot)
          <=> ~SlotBusy(s, p, row.slot)
  BY <1>3 DEF SlotBusy
<1> QED
  <2>1. Line!Fits(StagesOf(s), row)
            <=> /\ Cardinality(Line!Taken(StagesOf(s), p)) < Capacity[p]
                /\ Line!Covered(StagesOf(s), p)
                /\ row.slot # NoSlot => \A r \in Line!Taken(StagesOf(s), p) : req[r].slot # row.slot
    BY LineCounts DEF Line!Fits, p
  <2> QED
    BY <1>5, <1>6, <1>7, <2>1 DEF p

\* Nobody in the line fits.
NobodyFits == Line!Fitting(StagesOf(st)) = {}

LEMMA NobodyFitsHolds ==
    ASSUME TypeOK, NoWaiterHasRoom, WaitersStandAlone
    PROVE  NobodyFits
<1> SUFFICES ASSUME NEW r \in Line!Fitting(StagesOf(st)) PROVE FALSE
  BY DEF NobodyFits
<1>1. r \in Request /\ st[r] = "QUEUED" /\ req[r] \in Row
  BY StageTells DEF Line!Fitting, StagesOf, TypeOK
<1>2. Line!Fits(StagesOf(st), req[r]) /\ st \in [Request -> State \cup {"NONE"}]
  BY DEF Line!Fitting, TypeOK
<1>3. ~PoolFull(st, req[r].pool) /\ ~SourceFull(st, req[r].pool)
      /\ ~SlotBusy(st, req[r].pool, req[r].slot)
  BY <1>1, <1>2, FitsIsRoom
<1>4. r \in Eligible(st, unknown, req[r].pool) /\ req[r].pool \in Pool
  BY <1>1, <1>3 DEF Eligible, In, WaitersStandAlone, Row
<1> QED
  BY <1>3, <1>4 DEF NoWaiterHasRoom, NoneAdmissible

LEMMA NobodyFitsNext ==
    ASSUME NobodyFits', req' = req
    PROVE  Line!Fitting(StagesOf(st')) = {}
<1>1. \A s, p : Line!Taken(s, p)' = Line!Taken(s, p)
  BY DEF Line!Taken
<1>2. \A s, p : Line!Drawing(s, p)' = Line!Drawing(s, p)
  BY DEF Line!Drawing
<1>3. StagesOf(st)' = StagesOf(st')
  BY DEF StagesOf
<1>4. \A r \in Request : Line!Fits(StagesOf(st), req[r])' <=> Line!Fits(StagesOf(st'), req[r])
  BY <1>1, <1>2, <1>3 DEF Line!Fits, Line!Covered
<1> QED
  BY <1>3, <1>4 DEF NobodyFits, Line!Fitting

\* What promotion picks is first in the line of its pool of those who fit, and it
\* picks somebody if anybody fits.
LEMMA PromotionServes ==
    ASSUME TypeOK, NobodyFits', WaitersStandAlone', req' = req,
           NEW s \in [Request -> State \cup {"NONE"}], NEW p \in Pool,
           st' = [r \in Request |-> IF r \in Promotable(s, unknown', p) THEN "ACTIVE" ELSE s[r]]
    PROVE  IF Line!Fitting(StagesOf(s)) = {} THEN StagesOf(st') = StagesOf(s)
           ELSE \E r \in Line!Heads(StagesOf(s)) :
                    StagesOf(st') = [StagesOf(s) EXCEPT ![r] = "granted"]
<1>1. CASE Promotable(s, unknown', p) = {}
  <2>1. st' = s
    BY <1>1
  <2>2. Line!Fitting(StagesOf(st')) = {}
    BY NobodyFitsNext
  <2> QED
    BY <2>1, <2>2
<1>2. CASE Promotable(s, unknown', p) # {}
  <2>1. PICK q \in Promotable(s, unknown', p) : TRUE
    BY <1>2
  <2>2. /\ q \in Request /\ s[q] = "QUEUED"
        /\ ~PoolFull(s, req[q].pool) /\ ~SourceFull(s, req[q].pool)
        /\ ~SlotBusy(s, req[q].pool, req[q].slot)
    BY <2>1, PromotableHasRoom
  <2>3. st'[q] = "ACTIVE" /\ \A r \in Request : r # q => st'[r] = s[r]
    BY <2>1, <2>2, PromotableIsOne
  <2>4. q \in Line!Fitting(StagesOf(s))
    <3>1. req[q] \in Row
      BY <2>2 DEF TypeOK
    <3>2. Line!Fits(StagesOf(s), req[q])
      BY <2>2, <3>1, FitsIsRoom
    <3> QED
      BY <2>2, <3>2, StageTells DEF Line!Fitting, StagesOf
  <2>5. q \in FirstOf(Eligible(s, unknown', req[q].pool))
    <3>1. PICK r : q \in FirstOf(Eligible(s, unknown', req[r].pool))
      BY <2>1 DEF Promotable
    <3>2. req[q].pool = req[r].pool
      BY <3>1 DEF FirstOf, Eligible, In
    <3> QED
      BY <3>1, <3>2
  <2>6. ASSUME NEW x \in Line!Fitting(StagesOf(s)), req[x].pool = req[q].pool, x # q
        PROVE  Line!Before(q, x)
    <3>1. x \in Request /\ s[x] = "QUEUED" /\ req[x] \in Row
      BY StageTells DEF Line!Fitting, StagesOf, TypeOK
    <3>2. Line!Fits(StagesOf(s), req[x])
      BY DEF Line!Fitting
    <3>3. ~SlotBusy(s, req[x].pool, req[x].slot)
      BY <3>1, <3>2, FitsIsRoom
    <3>4. st'[x] = "QUEUED"
      BY <2>3, <2>6, <3>1
    <3>5. req[x].attempt \notin unknown'
      BY <3>1, <3>4 DEF WaitersStandAlone
    <3>6. x \in Eligible(s, unknown', req[q].pool)
      BY <2>6, <3>1, <3>3, <3>5 DEF Eligible, In
    <3>7. \/ req[q].prio > req[x].prio
          \/ req[q].prio = req[x].prio /\ q <= x
      BY <2>5, <3>6 DEF FirstOf
    <3>8. q \in Int /\ x \in Int
      BY <2>2, <3>1 DEF Request
    <3> QED
      BY <2>6, <3>7, <3>8 DEF Line!Before
  <2>7. q \in Line!Heads(StagesOf(s))
    BY <2>4, <2>6 DEF Line!Heads
  <2>8. StagesOf(st') = [StagesOf(s) EXCEPT ![q] = "granted"]
    BY <2>2, <2>3, StageTells DEF StagesOf, State
  <2> QED
    BY <2>4, <2>7, <2>8
<1> QED
  BY <1>1, <1>2

\* Some rows fenced, or a finished one by an observation of its account: Hold.
LEMMA FencesHold ==
    ASSUME TypeOK, Fences
    PROVE  Line!QueueNext
<1> DEFINE lost == {r \in Request : st'[r] # st[r]}
<1>1. \A r \in lost :
        \/ StagesOf(st)[r] \in {"granted", "sheltered"}
        \/ StagesOf(st)[r] = "over" /\ SourceOf[req[r].pool] # NoSource
  BY StageTells DEF Fences, StagesOf, TypeOK
<1>2. StagesOf(st') = [r \in Request |-> IF r \in lost THEN "held" ELSE StagesOf(st)[r]]
  BY StageTells DEF Fences, StagesOf, TypeOK, State
<1>3. Line!Hold(lost)
  BY <1>1, <1>2 DEF Line!Hold, StagesOf, Fences
<1>4. lost \in SUBSET Request
  OBVIOUS
<1> HIDE DEF lost
<1> QED
  BY <1>3, <1>4 DEF Line!QueueNext

\* A row released with the waiters of its attempt, and the waiter granted in its
\* place: Leave.  A row the sweep finds already released gives up no place.
LEMMA CommitsLeave ==
    ASSUME TypeOK, NobodyFits, NobodyFits', WaitersStandAlone',
           ChildUnderHeldParent, ChildUnderHeldParent', Commits
    PROVE  Line!QueueNext \/ UNCHANGED Line!queueVars
<1>1. PICK s \in [Request -> State \cup {"NONE"}], p \in Pool :
        /\ \A r \in Request : s[r] # st[r] => s[r] = "RELEASED" /\ st[r] # "NONE"
        /\ \A r, x \in Request :
              s[r] # st[r] /\ s[x] # st[x] => r = x \/ "QUEUED" \in {st[r], st[x]}
        /\ st' = [r \in Request |-> IF r \in Promotable(s, unknown', p) THEN "ACTIVE" ELSE s[r]]
  BY DEF Commits
<1>2. req' = req
  BY DEF Commits
<1> DEFINE gone == {r \in Request : s[r] # st[r] /\ st[r] # "QUARANTINED"}
           served == IF Line!Fitting(StagesOf(s)) = {} THEN StagesOf(st') = StagesOf(s)
                     ELSE \E r \in Line!Heads(StagesOf(s)) :
                              StagesOf(st') = [StagesOf(s) EXCEPT ![r] = "granted"]
<1>3. served
  BY <1>1, <1>2, PromotionServes
<1>4. \A r \in Request : s[r] \in State \cup {"NONE"} /\ st[r] \in State \cup {"NONE"}
  BY DEF TypeOK
<1>5. StagesOf(s) = [r \in Request |-> IF r \in gone THEN "over" ELSE StagesOf(st)[r]]
  BY <1>1, <1>4, StageTells DEF StagesOf
<1>6. CASE gone = {}
  <2>1. StagesOf(s) = StagesOf(st)
    BY <1>5, <1>6 DEF StagesOf
  <2>2. StagesOf(st') = StagesOf(st)
    BY <1>3, <2>1 DEF NobodyFits
  <2> QED
    BY <1>2, <2>2 DEF Line!queueVars, StagesOf
<1>7. CASE gone # {}
  <2>1. \A r \in gone : StagesOf(st)[r] \in {"waiting", "granted", "sheltered", "held"}
    BY <1>1, <1>4, StageTells DEF StagesOf, State
  <2>2. ASSUME NEW r \in gone, NEW x \in gone,
               StagesOf(st)[r] # "waiting", StagesOf(st)[x] # "waiting"
        PROVE  r = x
    BY <1>1, <1>4, <2>2, StageTells DEF StagesOf
  <2>3. ASSUME NEW c \in Request, StagesOf(st)[c] = "sheltered", req[c].parent \in gone
        PROVE  FALSE
    <3> DEFINE l == req[c].parent
    <3>1. st[c] = "INHERITED"
      BY <1>4, <2>3, StageTells DEF StagesOf
    <3>2. l \in Request /\ st[l] \in {"ACTIVE", "RECOVERY_REQUIRED"} /\ s[l] = "RELEASED"
      BY <1>1, <2>3, <3>1 DEF ChildUnderHeldParent
    <3>3. s[c] = "INHERITED"
      BY <1>1, <3>1, <3>2
    <3>4. \A r \in Promotable(s, unknown', p) : s[r] = "QUEUED"
      BY PromotableHasRoom
    <3>5. st'[c] = "INHERITED" /\ st'[l] = "RELEASED"
      BY <1>1, <3>2, <3>3, <3>4
    <3> QED
      BY <1>2, <3>5 DEF ChildUnderHeldParent
  <2>4. Line!Serve([r \in Request |-> IF r \in gone THEN "over" ELSE StagesOf(st)[r]])
    <3> HIDE DEF gone
    <3> QED
      BY <1>3, <1>5 DEF Line!Serve, StagesOf
  <2> HIDE DEF gone, served
  <2>5. Line!Leave(gone)
    BY <1>2, <1>7, <2>1, <2>2, <2>3, <2>4 DEF Line!Leave, StagesOf
  <2>6. gone \in SUBSET Request
    BY DEF gone
  <2> QED
    BY <2>5, <2>6 DEF Line!QueueNext
<1> QED
  BY <1>6, <1>7

\* A row inserted by a request or for an observation: Arrive.
LEMMA InsertsArrive ==
    ASSUME TypeOK, NobodyFits, Inserts
    PROVE  Line!QueueNext
<1>1. PICK row \in Row, state \in State :
        /\ st' = [st EXCEPT ![count'] = state]
        /\ req' = [req EXCEPT ![count'] = row]
        /\ state = "ACTIVE" => /\ ~PoolFull(st, row.pool)
                               /\ ~SlotBusy(st, row.pool, row.slot)
        /\ state \in {"ACTIVE", "INHERITED"} => ~SourceFull(st, row.pool)
        /\ state = "QUEUED" => \/ PoolFull(st, row.pool)
                               \/ SourceFull(st, row.pool)
                               \/ SlotBusy(st, row.pool, row.slot)
        /\ state = "INHERITED" => /\ Inheritable(row.parent, row.pool)
                                  /\ Children(st, row.parent) = {}
        /\ state = "RECOVERY_REQUIRED" => SourceOf[row.pool] # NoSource
  BY DEF Inserts
<1>2. count' = count + 1 /\ count' \in Request /\ st \in [Request -> State \cup {"NONE"}]
  BY DEF Inserts, TypeOK
<1>3. \A r \in Request : st[r] \in State \cup {"NONE"}
  BY DEF TypeOK
<1>4. Line!IsNext(count')
  <2>1. count \in Int /\ \A x \in Request : x \in Int
    BY DEF TypeOK, Request
  <2>2. st[count'] = "NONE" /\ \A x \in Request : x < count' => st[x] # "NONE"
    BY <1>2, <2>1 DEF TypeOK
  <2> QED
    BY <1>2, <1>3, <2>2, StageTells DEF Line!IsNext, StagesOf
<1>5. /\ Line!Covered(StagesOf(st), row.pool) <=> ~SourceFull(st, row.pool)
      /\ Line!Fits(StagesOf(st), row) <=> /\ ~PoolFull(st, row.pool)
                                          /\ ~SourceFull(st, row.pool)
                                          /\ ~SlotBusy(st, row.pool, row.slot)
  BY <1>2, FitsIsRoom
<1>6. \/ Stage(state) = "granted" /\ Line!Fits(StagesOf(st), row) /\ Line!Fitting(StagesOf(st)) = {}
      \/ Stage(state) = "waiting" /\ ~Line!Fits(StagesOf(st), row)
      \/ /\ Stage(state) = "sheltered" /\ Line!Shelters(row.parent, row)
         /\ Line!Covered(StagesOf(st), row.pool)
      \/ Stage(state) = "held" /\ SourceOf[row.pool] # NoSource
      \/ Stage(state) = "over"
  <2>1. CASE state = "ACTIVE"
    BY <1>1, <1>5, <2>1, StageTells DEF NobodyFits
  <2>2. CASE state = "QUEUED"
    BY <1>1, <1>5, <2>2, StageTells
  <2>3. CASE state = "INHERITED"
    <3>1. Line!Shelters(row.parent, row)
      BY <1>1, <1>3, <2>3, StageTells DEF Line!Shelters, StagesOf, Inheritable, Children
    <3> QED
      BY <1>1, <1>5, <2>3, <3>1, StageTells
  <2>4. CASE state = "RECOVERY_REQUIRED"
    BY <1>1, <2>4, StageTells
  <2>5. CASE state \in {"RELEASED", "QUARANTINED"}
    BY <2>5, StageTells
  <2> QED
    BY <2>1, <2>2, <2>3, <2>4, <2>5 DEF State
<1>7. StagesOf(st') = [StagesOf(st) EXCEPT ![count'] = Stage(state)]
  BY <1>1, <1>2 DEF StagesOf
<1>8. Line!Arrive(count', row, Stage(state))
  BY <1>1, <1>6, <1>7 DEF Line!Arrive, StagesOf
<1>9. Stage(state) \in Line!Stages
  BY StageTells DEF Line!Stages, State
<1> QED
  BY <1>2, <1>4, <1>8, <1>9 DEF Line!QueueNext

\* Whatever the journal does is a step of the line, or none.
LEMMA LineStep ==
    ASSUME Journal, NobodyFits, NobodyFits', WaitersStandAlone',
           ChildUnderHeldParent, ChildUnderHeldParent', [Next]_vars
    PROVE  Line!QueueNext \/ UNCHANGED Line!queueVars
<1>1. Fences \/ Commits \/ Inserts
  BY StepKinds DEF Journal
<1>2. TypeOK
  BY DEF Journal
<1> QED
  BY <1>1, <1>2, FencesHold, CommitsLeave, InsertsArrive

\* The admission journal implements the line of ResourceQueue, for every host: it
\* grants only what fits, and a free place goes to the first it fits in the line of a
\* pool, whichever of release, recovery or sweep freed it and in whichever pool.
THEOREM LineIsKept == Spec => KeepsLine
<1>1. Init => Line!QueueInit
  BY BlankIsRow, StageTells DEF Init, Line!QueueInit
<1>2. Journal /\ NoWaiterHasRoom /\ WaitersStandAlone => NobodyFits
  BY NobodyFitsHolds DEF Journal
<1>3. /\ Journal /\ NobodyFits /\ WaitersStandAlone /\ ChildUnderHeldParent
      /\ (Journal /\ NobodyFits /\ WaitersStandAlone /\ ChildUnderHeldParent)'
      /\ [Next]_vars
      => [Line!QueueNext]_(Line!queueVars)
  BY LineStep
<1> QED
  BY <1>1, <1>2, <1>3, JournalHolds, WaitersHold, ChildCorrect, PTL
     DEF Spec, KeepsLine, Line!QueueSpec

----------------------------------------------------------------------------
(* What the line alone promises                                            *)

\* Grants fit their pool, what runs on an account fits the account, and no two
\* grants of a pool have one slot.
Running(s, p) == {r \in Request : /\ s[r] \in {"granted", "sheltered"}
                                  /\ SourceOf[req[r].pool] = SourceOf[p]}

LineFits ==
    \A p \in Pool :
        /\ Cardinality({r \in Request : /\ StagesOf(st)[r] = "granted"
                                        /\ req[r].pool = p}) <= Capacity[p]
        /\ SourceOf[p] # NoSource =>
               Cardinality(Running(StagesOf(st), p)) <= SourceCapacity[SourceOf[p]]
        /\ \A r, x \in Request :
               /\ StagesOf(st)[r] = "granted" /\ StagesOf(st)[x] = "granted"
               /\ req[r].pool = p /\ req[x].pool = p
               /\ req[r].slot = req[x].slot /\ req[r].slot # NoSlot
               => r = x

\* A step of the line takes places from some and gives at most one, to q, whom it
\* fits in the line s as it is without those who leave.
Gives(s, q) ==
    /\ \A r \in Request : s[r] \in {"granted", "sheltered"} => s[r] = StagesOf(st)[r]
    /\ \A r \in Request \ {q} :
          /\ req'[r] = req[r]
          /\ StagesOf(st')[r] \in {"granted", "sheltered"} => StagesOf(st')[r] = s[r]
    /\ req'[q] \in Row
    /\ StagesOf(st')[q] \in {"granted", "sheltered"} =>
          \/ StagesOf(st')[q] = s[q] /\ req'[q] = req[q]
          \/ /\ Line!Covered(s, req'[q].pool)
             /\ StagesOf(st')[q] = "granted" => Line!Fits(s, req'[q])

LEMMA LineGivesOne ==
    ASSUME req \in [Request -> Row], Line!QueueNext
    PROVE  /\ req' \in [Request -> Row]
           /\ (\E s : \E q \in Request : Gives(s, q)) \/ UNCHANGED <<StagesOf(st), req>>
<1>1. ASSUME NEW q \in Request, NEW a \in Row, NEW z \in Line!Stages, Line!Arrive(q, a, z)
      PROVE  req' \in [Request -> Row] /\ Gives(StagesOf(st), q)
  <2>1. req' = [req EXCEPT ![q] = a] /\ StagesOf(st') = [StagesOf(st) EXCEPT ![q] = z]
    BY <1>1 DEF Line!Arrive, StagesOf
  <2>2. z \in {"granted", "sheltered"} =>
            /\ Line!Covered(StagesOf(st), a.pool)
            /\ z = "granted" => Line!Fits(StagesOf(st), a)
    BY <1>1 DEF Line!Arrive, Line!Fits, StagesOf
  <2>3. req' \in [Request -> Row] /\ req'[q] = a
    BY <2>1
  <2>4. StagesOf(st')[q] = z
        /\ \A r \in Request \ {q} : StagesOf(st')[r] = StagesOf(st)[r] /\ req'[r] = req[r]
    BY <2>1 DEF StagesOf
  <2> QED
    BY <2>2, <2>3, <2>4 DEF Gives
<1>2. ASSUME NEW gone \in SUBSET Request, Line!Leave(gone)
      PROVE  req' = req /\ \E s : \E q \in Request : Gives(s, q)
  <2> DEFINE s == [r \in Request |-> IF r \in gone THEN "over" ELSE StagesOf(st)[r]]
  <2>1. req' = req /\ gone # {}
    BY <1>2 DEF Line!Leave
  <2>2. \A r \in Request : s[r] \in {"granted", "sheltered"} => s[r] = StagesOf(st)[r]
    OBVIOUS
  <2>3. IF Line!Fitting(s) = {} THEN StagesOf(st') = s
        ELSE \E r \in Line!Heads(s) : StagesOf(st') = [s EXCEPT ![r] = "granted"]
    BY <1>2 DEF Line!Leave, Line!Serve, StagesOf
  <2>4. \A r \in Request : req[r] \in Row /\ s \in [Request -> {s[x] : x \in Request}]
    OBVIOUS
  <2> HIDE DEF s
  <2>5. CASE StagesOf(st') = s
    <3>1. PICK q \in gone : TRUE
      BY <2>1
    <3>2. Gives(s, q)
      BY <2>1, <2>2, <2>4, <2>5 DEF Gives
    <3> QED
      BY <2>1, <3>2
  <2>6. ASSUME NEW q \in Line!Heads(s), StagesOf(st') = [s EXCEPT ![q] = "granted"]
        PROVE  \E x \in Request : Gives(s, x)
    <3>1. q \in Request /\ Line!Fits(s, req[q])
      BY DEF Line!Heads, Line!Fitting
    <3>2. Line!Covered(s, req[q].pool)
      BY <3>1 DEF Line!Fits
    <3>3. \A r \in Request \ {q} : StagesOf(st')[r] = s[r]
      BY <2>4, <2>6
    <3>4. Gives(s, q)
      BY <2>1, <2>2, <2>4, <3>1, <3>2, <3>3 DEF Gives
    <3> QED
      BY <3>1, <3>4
  <2> QED
    BY <2>1, <2>3, <2>5, <2>6
<1>3. ASSUME NEW lost \in SUBSET Request, Line!Hold(lost)
      PROVE  /\ req' = req
             /\ (\E q \in Request : Gives(StagesOf(st), q)) \/ UNCHANGED StagesOf(st)
  <2>1. /\ req' = req
        /\ StagesOf(st') = [r \in Request |-> IF r \in lost THEN "held" ELSE StagesOf(st)[r]]
    BY <1>3 DEF Line!Hold, StagesOf
  <2>2. CASE lost = {}
    BY <2>1, <2>2 DEF StagesOf
  <2>3. ASSUME NEW q \in lost PROVE Gives(StagesOf(st), q)
    BY <2>1 DEF Gives
  <2> QED
    BY <2>1, <2>2, <2>3
<1> QED
  BY <1>1, <1>2, <1>3 DEF Line!QueueNext

LEMMA LineFitsStep ==
    ASSUME req \in [Request -> Row], req' \in [Request -> Row], LineFits,
           NEW s, NEW q \in Request, Gives(s, q)
    PROVE  LineFits'
<1> DEFINE z == StagesOf(st')
<1> SUFFICES ASSUME NEW p \in Pool
             PROVE  /\ Cardinality({r \in Request : z[r] = "granted" /\ req'[r].pool = p})
                            <= Capacity[p]
                    /\ SourceOf[p] # NoSource =>
                           Cardinality({r \in Request :
                               /\ z[r] \in {"granted", "sheltered"}
                               /\ SourceOf[req'[r].pool] = SourceOf[p]})
                                   <= SourceCapacity[SourceOf[p]]
                    /\ \A r, x \in Request :
                           /\ z[r] = "granted" /\ z[x] = "granted"
                           /\ req'[r].pool = p /\ req'[x].pool = p
                           /\ req'[r].slot = req'[x].slot /\ req'[r].slot # NoSlot
                           => r = x
  BY DEF LineFits, Running, StagesOf
<1> HIDE DEF z
<1> DEFINE new == z[q] \in {"granted", "sheltered"} /\ ~(z[q] = s[q] /\ req'[q] = req[q])
<1>1. ASSUME NEW r \in Request, z[r] \in {"granted", "sheltered"}, ~(r = q /\ new)
      PROVE  z[r] = s[r] /\ s[r] = StagesOf(st)[r] /\ req'[r] = req[r]
  BY <1>1 DEF Gives, z
<1>2. new => /\ Line!Covered(s, req'[q].pool)
             /\ z[q] = "granted" => Line!Fits(s, req'[q])
  BY DEF Gives, z
<1> HIDE DEF new
<1>3. Cardinality({r \in Request : z[r] = "granted" /\ req'[r].pool = p}) <= Capacity[p]
  <2> DEFINE A == {r \in Request : StagesOf(st)[r] = "granted" /\ req[r].pool = p}
             B == {r \in Request : z[r] = "granted" /\ req'[r].pool = p}
             T == Line!Taken(s, p)
  <2>1. Cardinality(A) <= Capacity[p] /\ Capacity[p] \in Nat
    BY CapacityTypes DEF LineFits
  <2>2. CASE new /\ z[q] = "granted" /\ req'[q].pool = p
    <3>1. ~(Cardinality(T) >= Capacity[p])
      <4>1. Cardinality(T) < Capacity[p]
        BY <1>2, <2>2, LineCounts DEF Line!Fits
      <4>2. Cardinality(T) \in Nat
        BY RowsAreFinite DEF Line!Taken
      <4> HIDE DEF T
      <4> QED
        BY <2>1, <4>1, <4>2
    <3>2. B \in SUBSET (T \cup {q}) /\ T \in SUBSET Request
      BY <1>1 DEF Line!Taken
    <3> HIDE DEF B, T
    <3> QED
      BY <2>1, <3>1, <3>2, OneMoreRow DEF B
  <2>3. CASE ~(new /\ z[q] = "granted" /\ req'[q].pool = p)
    <3>1. B \in SUBSET A /\ A \in SUBSET Request
      BY <1>1, <2>3
    <3> HIDE DEF A, B
    <3>2. Cardinality(B) <= Cardinality(A) /\ Cardinality(A) \in Nat /\ Cardinality(B) \in Nat
      BY <3>1, FewerRows, RowsAreFinite
    <3>3. Cardinality(B) <= Capacity[p]
      BY <2>1, <3>2
    <3> QED
      BY <3>3 DEF B
  <2> QED
    BY <2>2, <2>3
<1>4. ASSUME SourceOf[p] # NoSource
      PROVE  Cardinality({r \in Request : /\ z[r] \in {"granted", "sheltered"}
                                          /\ SourceOf[req'[r].pool] = SourceOf[p]})
                 <= SourceCapacity[SourceOf[p]]
  <2> DEFINE n == SourceCapacity[SourceOf[p]]
             A == Running(StagesOf(st), p)
             B == {r \in Request : /\ z[r] \in {"granted", "sheltered"}
                                   /\ SourceOf[req'[r].pool] = SourceOf[p]}
             T == Line!Drawing(s, p)
  <2>1. Cardinality(A) <= n /\ n \in Nat
    BY <1>4, CapacityTypes DEF LineFits
  <2>2. CASE new /\ SourceOf[req'[q].pool] = SourceOf[p]
    <3>1. ~(Cardinality(T) >= n)
      <4>1. Line!Drawing(s, req'[q].pool) = T
        BY <2>2 DEF Line!Drawing
      <4>2. Cardinality(T) < n
        BY <1>2, <1>4, <2>2, <4>1, LineCounts DEF Line!Covered
      <4>3. Cardinality(T) \in Nat
        BY RowsAreFinite DEF Line!Drawing
      <4> HIDE DEF T, n
      <4> QED
        BY <2>1, <4>2, <4>3
    <3>2. B \in SUBSET (T \cup {q}) /\ T \in SUBSET Request
      BY <1>1 DEF Line!Drawing
    <3> HIDE DEF B, T, n
    <3>3. Cardinality(B) <= n
      BY <2>1, <3>1, <3>2, OneMoreRow
    <3> QED
      BY <3>3 DEF B, n
  <2>3. CASE ~(new /\ SourceOf[req'[q].pool] = SourceOf[p])
    <3>1. B \in SUBSET A /\ A \in SUBSET Request
      BY <1>1, <2>3 DEF Running
    <3> HIDE DEF A, B, n
    <3>2. Cardinality(B) <= Cardinality(A) /\ Cardinality(A) \in Nat /\ Cardinality(B) \in Nat
      BY <3>1, FewerRows, RowsAreFinite
    <3>3. Cardinality(B) <= n
      BY <2>1, <3>2
    <3> QED
      BY <3>3 DEF B, n
  <2> QED
    BY <2>2, <2>3
<1>5. ASSUME NEW r \in Request, NEW x \in Request, z[r] = "granted", z[x] = "granted",
             req'[r].pool = p, req'[x].pool = p,
             req'[r].slot = req'[x].slot, req'[r].slot # NoSlot, r # x
      PROVE  FALSE
  <2>1. ASSUME NEW y \in Request, new, z[q] = "granted", y # q, z[y] = "granted",
               req'[y].pool = req'[q].pool, req'[y].slot = req'[q].slot, req'[y].slot # NoSlot
        PROVE  FALSE
    <3>1. s[y] = "granted" /\ req[y] = req'[y]
      BY <1>1, <2>1
    <3>2. y \in Line!Taken(s, req'[q].pool)
      BY <2>1, <3>1 DEF Line!Taken
    <3> QED
      BY <1>2, <2>1, <3>1, <3>2 DEF Line!Fits
  <2>2. ~(r = q /\ new) /\ ~(x = q /\ new)
    BY <1>5, <2>1
  <2>3. /\ StagesOf(st)[r] = "granted" /\ req[r] = req'[r]
        /\ StagesOf(st)[x] = "granted" /\ req[x] = req'[x]
    BY <1>1, <1>5, <2>2
  <2> QED
    BY <1>5, <2>3 DEF LineFits
<1> QED
  BY <1>3, <1>4, <1>5

\* The line is worth keeping: from its steps alone, without a lease, a process or
\* a sweep, follow the bounds of every pool and account and the exclusive slots.
THEOREM LineBounds == KeepsLine => []LineFits
<1>1. Line!QueueInit => req \in [Request -> Row] /\ LineFits
  <2> SUFFICES ASSUME Line!QueueInit PROVE req \in [Request -> Row] /\ LineFits
    OBVIOUS
  <2>1. req \in [Request -> Row] /\ \A r \in Request : StagesOf(st)[r] = "absent"
    BY DEF Line!QueueInit, StagesOf
  <2>2. ASSUME NEW p \in Pool
        PROVE  /\ {r \in Request : StagesOf(st)[r] = "granted" /\ req[r].pool = p} = {}
               /\ Running(StagesOf(st), p) = {}
    BY <2>1 DEF Running
  <2>3. Cardinality({}) = 0
    BY FS_EmptySet
  <2>4. ASSUME NEW p \in Pool
        PROVE  /\ 0 <= Capacity[p]
               /\ SourceOf[p] # NoSource => 0 <= SourceCapacity[SourceOf[p]]
    BY CapacityTypes
  <2>5. ASSUME NEW p \in Pool
        PROVE  /\ Cardinality({r \in Request : /\ StagesOf(st)[r] = "granted"
                                               /\ req[r].pool = p}) <= Capacity[p]
               /\ SourceOf[p] # NoSource =>
                      Cardinality(Running(StagesOf(st), p)) <= SourceCapacity[SourceOf[p]]
    BY <2>2, <2>3, <2>4
  <2> QED
    BY <2>1, <2>5 DEF LineFits
<1>2. req \in [Request -> Row] /\ LineFits /\ [Line!QueueNext]_(Line!queueVars)
        => (req \in [Request -> Row] /\ LineFits)'
  <2> SUFFICES ASSUME req \in [Request -> Row], LineFits, [Line!QueueNext]_(Line!queueVars)
               PROVE  (req \in [Request -> Row] /\ LineFits)'
    OBVIOUS
  <2>1. ASSUME req' = req, StagesOf(st') = StagesOf(st) PROVE LineFits'
    <3>1. StagesOf(st)' = StagesOf(st)
      BY <2>1 DEF StagesOf
    <3>2. ASSUME NEW p \in Pool
          PROVE  Running(StagesOf(st), p)' = Running(StagesOf(st), p)
      BY <2>1, <3>1 DEF Running
    <3> QED
      BY <2>1, <3>1, <3>2 DEF LineFits
  <2>2. CASE UNCHANGED Line!queueVars
    BY <2>1, <2>2 DEF Line!queueVars, StagesOf
  <2>3. CASE Line!QueueNext
    <3>1. UNCHANGED <<StagesOf(st), req>> => StagesOf(st') = StagesOf(st) /\ req' = req
      BY DEF StagesOf
    <3> QED
      BY <2>1, <2>3, <3>1, LineGivesOne, LineFitsStep
  <2> QED
    BY <2>2, <2>3
<1> QED
  BY <1>1, <1>2, PTL DEF KeepsLine, Line!QueueSpec
============================================================================
