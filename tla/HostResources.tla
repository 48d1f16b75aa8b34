--------------------------- MODULE HostResources ---------------------------
(***************************************************************************)
(* Host resource admission of the TruthDeck Conductor                      *)
(* (src/scripts/conductor_resources.py, class HostResourceManager): named  *)
(* pools of bounded capacity (host:heavy, the cdp:* browser lanes, the     *)
(* provider:* accounts), a journal of requests, one lease row per grant,   *)
(* and the stale-slot sweep that takes capacity back from dead owners.     *)
(*                                                                         *)
(* Every mutation of the journal runs under BEGIN IMMEDIATE, so an         *)
(* operation is one step -- except the sweep, which walks the journal row  *)
(* by row inside its transaction.  `op' is the write lock: while it is not *)
(* "idle" only the steps of the open transaction may happen.               *)
(*                                                                         *)
(* Wall-clock time appears only as what the code derives from it: whether  *)
(* a lease has expired, whether a row is past the stale-slot TTL or past   *)
(* the longer cutoff of unrecorded waiters, and whether a CDP grant is     *)
(* past its maximum hold.  Time does not advance inside a transaction      *)
(* because the code reads the clock once, and processes are taken to die   *)
(* between transactions, so that one sweep sees one host.  A transaction that rolls back   *)
(* leaves no trace; a refused request is modelled as keeping its sweep,    *)
(* a state the reconciler can also reach.                                  *)
(*                                                                         *)
(* The rows the sweep also writes in the work-queue tables (leases,        *)
(* work_items) belong to module WorkItems.                                 *)
(***************************************************************************)
EXTENDS Integers, FiniteSets

CONSTANTS
    Pool,            \* resource keys
    Capacity,        \* [Pool -> Nat]: host_resource_pools.capacity
    NoSource,        \* a pool with no provider source (host:heavy, cdp:tv)
    SourceOf,        \* PROVIDER_SOURCE_BY_POOL, NoSource where it has no entry
    SourceCapacity,  \* the bound of _source_full_locked, by source
    MaxHoldPool,     \* pools with a maximum hold: cdp:chatgpt, cdp:perplexity
    ProviderPool,    \* the provider:* pools, which accept retained observations
    Attempt,         \* attempt ids
    Registered,      \* attempts that have a row in the attempts table
    Slot, NoSlot,    \* exclusive slot keys, and the empty one
    Priority,        \* request priorities
    Proc, NoProc,    \* recorded process identities, and their absence
    MaxRequests,     \* bound on the journal
    MaxSequence      \* bound on heartbeat sequence numbers

Request == 1 .. MaxRequests
None    == 0         \* no request; the lease of request r is identified with r
Sources == {SourceOf[p] : p \in Pool} \ {NoSource}

ASSUME ConstantsAssumption ==
    /\ MaxRequests \in Nat
    /\ MaxSequence \in Nat \ {0}
    /\ Capacity \in [Pool -> Nat \ {0}]
    /\ SourceOf \in [Pool -> Sources \cup {NoSource}]
    /\ SourceCapacity \in [Sources -> Nat \ {0}]
    /\ MaxHoldPool \subseteq Pool
    /\ ProviderPool \subseteq {p \in Pool : SourceOf[p] # NoSource}
    /\ Registered \subseteq Attempt
    /\ Priority \subseteq Nat
    /\ Pool # {} /\ Attempt # {} /\ Priority # {}
    /\ NoSlot \notin Slot
    /\ NoProc \notin Proc

VARIABLES
    count,     \* rows inserted so far: ids are allocated in creation order
    st,        \* host_resource_requests.state, "NONE" before the row exists
    req,       \* the immutable columns of a row
    owner,     \* owner_process_pid/start of the request row
    lease,     \* the row in host_resource_leases: "NONE", "FRESH", "EXPIRED"
    proc,      \* process_pid/start of that lease row
    seq,       \* its heartbeat_sequence
    age,       \* 0 young; 1 past the stale-slot TTL; 2 past the waiter cutoff
    overheld,  \* grants past the CDP maximum hold
    auto,      \* rows whose reason_code is one of the automatic releases
    unknown,   \* attempts whose status is UNKNOWN
    life,      \* what psutil would say of each process
    op,        \* open write transaction: "idle", "request", "reconcile", "sweep"
    todo,      \* sweep: candidates of this pass not yet examined
    snap,      \* sweep: states as read by this pass's SELECT
    swept,     \* sweep: swept_ids
    dirty      \* sweep: newly_swept is not empty

grant == <<lease, proc, seq>>
sweepVars == <<op, todo, snap, swept, dirty>>
vars == <<count, st, req, owner, lease, proc, seq, age, overheld, auto,
          unknown, life, op, todo, snap, swept, dirty>>

----------------------------------------------------------------------------
(* Types                                                                   *)

State == {"QUEUED", "ACTIVE", "INHERITED", "RELEASED", "RECOVERY_REQUIRED",
          "QUARANTINED"}
Live  == {"QUEUED", "ACTIVE", "INHERITED", "RECOVERY_REQUIRED"}
Row   == [pool : Pool, attempt : Attempt, slot : Slot \cup {NoSlot},
          prio : Priority, parent : Request \cup {None}]

\* Columns of a row not yet inserted are never read.
Blank == CHOOSE row \in Row : TRUE

TypeOK ==
    /\ count \in 0 .. MaxRequests
    /\ st \in [Request -> State \cup {"NONE"}]
    /\ \A r \in Request : st[r] # "NONE" <=> r <= count
    /\ req \in [Request -> Row]
    /\ owner \in [Request -> Proc \cup {NoProc}]
    /\ lease \in [Request -> {"NONE", "FRESH", "EXPIRED"}]
    /\ proc \in [Request -> Proc \cup {NoProc}]
    /\ seq \in [Request -> 0 .. MaxSequence]
    /\ age \in [Request -> 0 .. 2]
    /\ overheld \subseteq Request
    /\ auto \subseteq 1 .. count
    /\ unknown \subseteq Registered
    /\ life \in [Proc -> {"alive", "unproven", "gone"}]
    /\ op \in {"idle", "request", "reconcile", "sweep"}
    /\ todo \subseteq 1 .. count
    /\ snap \in [Request -> State \cup {"NONE"}]
    /\ swept \subseteq Request
    /\ dirty \in BOOLEAN

----------------------------------------------------------------------------
(* Capacity.  These read a journal s, which may be the middle of a         *)
(* transaction, and the set u of attempts known to be UNKNOWN in it.       *)

In(s, states, p) == {r \in Request : s[r] \in states /\ req[r].pool = p}

\* (Operators named Faulty... are slips a change to the code could make; each
\* shows that some property can fail.)
FaultyHolding(s, p) == In(s, {"ACTIVE"}, p)

\* Rows request() and _promote_locked count against a pool.
Holding(s, p) == In(s, {"ACTIVE", "RECOVERY_REQUIRED"}, p)

\* Pools drawing on the same provider account; a pool without one stands alone.
Related(p) ==
    IF SourceOf[p] = NoSource THEN {p} ELSE {q \in Pool : SourceOf[q] = SourceOf[p]}

FaultySourceFull(s, p) ==
    /\ SourceOf[p] # NoSource
    /\ Cardinality({r \in Request : s[r] = "ACTIVE" /\ req[r].pool \in Related(p)})
           >= SourceCapacity[SourceOf[p]]

SourceFull(s, p) ==
    /\ SourceOf[p] # NoSource
    /\ Cardinality({r \in Request :
            /\ s[r] \in {"ACTIVE", "INHERITED", "RECOVERY_REQUIRED"}
            /\ req[r].pool \in Related(p)}) >= SourceCapacity[SourceOf[p]]

FaultyPoolFull(s, p) == Cardinality(Holding(s, p)) > Capacity[p]

PoolFull(s, p) == Cardinality(Holding(s, p)) >= Capacity[p]

FaultySlotBusy(s, p, k) ==
    k # NoSlot /\ \E r \in Holding(s, p) : s[r] # "ACTIVE" /\ req[r].slot = k

SlotBusy(s, p, k) == k # NoSlot /\ \E r \in Holding(s, p) : req[r].slot = k

\* Waiters of p that promotion does not skip.
Eligible(s, u, p) ==
    {r \in In(s, {"QUEUED"}, p) :
        ~SlotBusy(s, p, req[r].slot) /\ req[r].attempt \notin u}

FaultyFirstOf(rs) == {r \in rs : \A x \in rs : r <= x}

\* The head of a queue: ORDER BY priority DESC, created_at_utc, request_id.
FirstOf(rs) == {r \in rs : \A x \in rs :
    \/ req[r].prio > req[x].prio
    \/ req[r].prio = req[x].prio /\ r <= x}

\* _promote_related_locked: waiters of the related pools in queue order; the
\* first whose pool can promote promotes that pool's first eligible waiter.
\* At most one row.
Promotable(s, u, p) ==
    LET open    == {q \in Related(p) : /\ ~SourceFull(s, q)
                                       /\ ~PoolFull(s, q)
                                       /\ Eligible(s, u, q) # {}}
        waiting == UNION {In(s, {"QUEUED"}, q) : q \in open}
    IN  UNION {FirstOf(Eligible(s, u, req[r].pool)) : r \in FirstOf(waiting)}

FaultyCommitAndPromote(s, l, u, p) ==
    /\ st' = [r \in Request |-> s[r]] /\ lease' = [r \in Request |-> l[r]]
    /\ UNCHANGED <<proc, seq, age>>

\* Commit journal s and leases l after promoting at most one waiter of p.
CommitAndPromote(s, l, u, p) ==
    LET promoted == Promotable(s, u, p) IN
    /\ st' = [r \in Request |-> IF r \in promoted THEN "ACTIVE" ELSE s[r]]
    /\ lease' = [r \in Request |-> IF r \in promoted THEN "FRESH" ELSE l[r]]
    /\ proc' = [r \in Request |-> IF r \in promoted THEN owner[r] ELSE proc[r]]
    /\ seq' = [r \in Request |-> IF r \in promoted THEN 1 ELSE seq[r]]
    /\ age' = [r \in Request |-> IF r \in promoted THEN 0 ELSE age[r]]

----------------------------------------------------------------------------
(* Leases, ancestry and owners                                             *)

FaultyChildren(s, l) == {c \in Request : s[c] = "ACTIVE" /\ req[c].parent = l}

Children(s, l) ==
    {c \in Request : s[c] = "INHERITED" /\ req[c].parent = l}

\* The lease a row holds, or the one it was admitted under.
LeaseId(r) == IF lease[r] # "NONE" THEN r ELSE req[r].parent
HasLeaseRow(r) == LeaseId(r) # None /\ lease[LeaseId(r)] # "NONE"

Known(ps) == ps \ {NoProc}
LeaseProc(r) == IF HasLeaseRow(r) THEN proc[LeaseId(r)] ELSE NoProc
OwnProc(r) == IF lease[r] # "NONE" THEN proc[r] ELSE NoProc

FaultyIdentities(r, state) == Known({LeaseProc(r)})

\* Every identity the journal holds for r; the process itself, and for a child
\* admitted under a parent's lease only what was recorded for the child.
Identities(r, state) ==
    Known({owner[r], IF state = "INHERITED" THEN OwnProc(r) ELSE LeaseProc(r)})

AllGone(ps) == \A p \in ps : life[p] = "gone"

FaultyRevoked(a) == FALSE

Revoked(a) == a \in unknown \/ \E r \in auto : req[r].attempt = a

----------------------------------------------------------------------------
(* The stale-slot sweep.  A candidate is judged on the state seen by its    *)
(* pass's SELECT, and on leases, ages and children as they are now.         *)

HoldExceeded(r, seen) ==
    seen[r] = "ACTIVE" /\ req[r].pool \in MaxHoldPool /\ r \in overheld

Lapsed(r, seen) ==
    seen[r] \in {"ACTIVE", "INHERITED"} =>
        ~HasLeaseRow(r) \/ lease[LeaseId(r)] = "EXPIRED"

OwnerGone(r, seen) ==
    LET ps == Identities(r, seen[r]) IN
    CASE seen[r] = "INHERITED" -> ps # {} /\ AllGone(ps)
      [] seen[r] = "QUEUED"    -> IF owner[r] # NoProc THEN life[owner[r]] = "gone"
                                  ELSE age[r] = 2
      [] OTHER                 -> AllGone(ps)

Sweepable(r, seen) ==
    /\ HoldExceeded(r, seen) \/ (Lapsed(r, seen) /\ age[r] >= 1 /\ OwnerGone(r, seen))
    /\ LeaseId(r) # None => Children(st, LeaseId(r)) \subseteq swept \cup {r}

FaultyCandidates == {r \in Request : st[r] \in {"QUEUED", "ACTIVE", "INHERITED"}} \ swept

Candidates == {r \in Request : st[r] \in Live} \ swept
Stale == {r \in todo : Sweepable(r, snap)}

BeginTransaction(kind) ==
    /\ op = "idle"
    /\ op' = kind
    /\ todo' = Candidates
    /\ snap' = st
    /\ UNCHANGED <<count, st, req, owner, grant, age, overheld, auto, unknown,
                   life, swept, dirty>>

EndTransaction ==
    /\ op' = "idle"
    /\ todo' = {}
    /\ snap' = [r \in Request |-> "NONE"]
    /\ swept' = {}
    /\ dirty' = FALSE

\* The next candidate in creation order that is not `continue'd over: release
\* it with the waiters of its attempt, drop its own lease, mark the attempt.
SweepReleases ==
    /\ op # "idle"
    /\ \E r \in Stale :
        LET a == req[r].attempt
            released == {r} \cup {q \in Request : st[q] = "QUEUED" /\ req[q].attempt = a}
            s == [q \in Request |-> IF q \in released THEN "RELEASED" ELSE st[q]]
        IN  /\ \A x \in Stale : r <= x
            /\ unknown' = unknown \cup ({a} \cap Registered)
            /\ CommitAndPromote(s, [lease EXCEPT ![r] = "NONE"], unknown', req[r].pool)
            /\ auto' = auto \cup released
            /\ overheld' = overheld \ {r}
            /\ todo' = {c \in todo : c > r}
            /\ swept' = swept \cup {r}
    /\ dirty' = TRUE
    /\ UNCHANGED <<count, req, owner, life, op, snap>>

\* `while True': a pass that released something is followed by another.
SweepAgain ==
    /\ op # "idle" /\ Stale = {} /\ dirty
    /\ todo' = Candidates
    /\ snap' = st
    /\ dirty' = FALSE
    /\ UNCHANGED <<count, st, req, owner, grant, age, overheld, auto, unknown,
                   life, op, swept>>

Swept(kind) == op = kind /\ Stale = {} /\ ~dirty

----------------------------------------------------------------------------
(* sweep_stale_slots and reconcile                                         *)

\* A sweep that finds nothing changes nothing.
BeginSweep ==
    /\ \E r \in Candidates : Sweepable(r, st)
    /\ BeginTransaction("sweep")

FinishSweep ==
    /\ Swept("sweep")
    /\ EndTransaction
    /\ UNCHANGED <<count, st, req, owner, grant, age, overheld, auto, unknown, life>>

\* Looks without the write lock first and goes no further unless a grant has
\* expired or a fenced or inherited row exists.
BeginReconcile ==
    /\ \E r \in Request :
          \/ st[r] = "ACTIVE" /\ lease[r] = "EXPIRED"
          \/ st[r] \in {"RECOVERY_REQUIRED", "INHERITED"}
    /\ BeginTransaction("reconcile")

FinishReconcile ==
    /\ Swept("reconcile")
    /\ st' = [r \in Request |->
                IF st[r] = "ACTIVE" /\ lease[r] = "EXPIRED"
                THEN "RECOVERY_REQUIRED" ELSE st[r]]
    /\ overheld' = {r \in overheld : st'[r] = "ACTIVE"}
    /\ EndTransaction
    /\ UNCHANGED <<count, req, owner, grant, age, auto, unknown, life>>

----------------------------------------------------------------------------
(* request                                                                 *)

BeginRequest == count < MaxRequests /\ BeginTransaction("request")

\* _insert_request and _record_explicit_owner_locked: an owner that is not
\* observably alive is not recorded.
Insert(row, state, p) ==
    /\ count' = count + 1
    /\ st' = [st EXCEPT ![count'] = state]
    /\ req' = [req EXCEPT ![count'] = row]
    /\ owner' = [owner EXCEPT ![count'] =
                    IF p \in Proc /\ life[p] = "alive" THEN p ELSE NoProc]
    /\ age' = [age EXCEPT ![count'] = 0]

Refuse ==
    /\ Swept("request")
    /\ \/ \E a \in Attempt : Revoked(a)                    \* ATTEMPT_REVOKED
       \/ \E q \in Pool : SourceFull(st, q)                \* PROVIDER_SOURCE_BUSY
    /\ EndTransaction
    /\ UNCHANGED <<count, st, req, owner, grant, age, overheld, auto, unknown, life>>

\* The parent lease l exists in p, its request is ACTIVE, and it has not expired.
Inheritable(l, p) ==
    /\ l \in Request
    /\ st[l] = "ACTIVE" /\ lease[l] = "FRESH" /\ req[l].pool = p

Inherit(row, p) ==
    /\ ~Revoked(row.attempt) /\ ~SourceFull(st, row.pool)
    /\ Inheritable(row.parent, row.pool)
    /\ Insert(row, IF Children(st, row.parent) = {} THEN "INHERITED"
                   ELSE "QUARANTINED", p)
    /\ EndTransaction
    /\ UNCHANGED <<grant, overheld, auto, unknown, life>>

\* Also the path of a caller whose inherited lease is invalid or expired; its
\* row keeps no parent.
Admit(row, p) ==
    /\ ~Revoked(row.attempt)
    /\ row.parent = None
    /\ LET granted == /\ ~PoolFull(st, row.pool)
                      /\ ~SourceFull(st, row.pool)
                      /\ ~SlotBusy(st, row.pool, row.slot)
       IN  \/ /\ granted
              /\ Insert(row, "ACTIVE", p)
              /\ lease' = [lease EXCEPT ![count'] = "FRESH"]
              /\ proc' = [proc EXCEPT ![count'] = owner'[count']]
              /\ seq' = [seq EXCEPT ![count'] = 1]
           \/ /\ ~granted
              /\ Insert(row, "QUEUED", p)
              /\ UNCHANGED grant
    /\ EndTransaction
    /\ UNCHANGED <<overheld, auto, unknown, life>>

----------------------------------------------------------------------------
(* Operations of one step                                                  *)

Heartbeat(l, n) ==
    /\ op = "idle"
    /\ st[l] = "ACTIVE" /\ lease[l] = "FRESH"
    /\ n > seq[l]
    /\ seq' = [seq EXCEPT ![l] = n]
    /\ age' = [r \in Request |->
                 IF r = l \/ (lease[r] = "NONE" /\ req[r].parent = l) THEN 0
                 ELSE age[r]]
    /\ UNCHANGED <<count, st, req, owner, lease, proc, overheld, auto, unknown,
                   life, sweepVars>>

Release(r) ==
    /\ op = "idle"
    /\ st[r] \in {"QUEUED", "ACTIVE", "INHERITED"}
    /\ (st[r] = "ACTIVE" /\ lease[r] # "NONE") => Children(st, r) = {}
    /\ CommitAndPromote([st EXCEPT ![r] = "RELEASED"], lease, unknown, req[r].pool)
    /\ auto' = auto \ {r}
    /\ overheld' = overheld \ {r}
    /\ UNCHANGED <<count, req, owner, unknown, life, sweepVars>>

\* resource-recover: the recorded lease process decides; without one, or when
\* it cannot be read, the operator attests.  A provider hold always needs that.
Recoverable(r, attested) ==
    /\ op = "idle"
    /\ st[r] = "RECOVERY_REQUIRED"
    /\ SourceOf[req[r].pool] # NoSource => attested
    /\ LeaseId(r) # None => Children(st, LeaseId(r)) = {}
    /\ LET p == OwnProc(r) IN
          \/ p # NoProc /\ life[p] = "gone"
          \/ (p # NoProc => life[p] = "unproven") /\ attested

Recover(r, attested) ==
    /\ Recoverable(r, attested)
    /\ CommitAndPromote([st EXCEPT ![r] = "RELEASED"], lease, unknown, req[r].pool)
    /\ auto' = auto \ {r}
    /\ UNCHANGED <<count, req, owner, overheld, unknown, life, sweepVars>>

Fence(r) ==
    /\ st' = [st EXCEPT ![r] = "RECOVERY_REQUIRED"]
    /\ age' = [age EXCEPT ![r] = 0]
    /\ auto' = auto \ {r}
    /\ overheld' = overheld \ {r}
    /\ UNCHANGED <<count, req, owner, grant, unknown, life, sweepVars>>

\* mark_uncertain: any pool with a provider source.
MarkUncertain(r) ==
    /\ op = "idle"
    /\ st[r] \in {"ACTIVE", "INHERITED"}
    /\ SourceOf[req[r].pool] # NoSource
    /\ Fence(r)

\* _mark_recovery: a pytest child whose death was not observed.
MarkRecovery(r) ==
    /\ op = "idle"
    /\ st[r] \in {"ACTIVE", "INHERITED"}
    /\ SourceOf[req[r].pool] = NoSource
    /\ Fence(r)

\* retain_observed_attempt on a known request, released or not.
RetainKnown(r) ==
    /\ op = "idle"
    /\ st[r] \in {"ACTIVE", "INHERITED", "RELEASED", "RECOVERY_REQUIRED"}
    /\ \E q \in ProviderPool : SourceOf[q] = SourceOf[req[r].pool]
    /\ Fence(r)

\* retain_observed_attempt on a request the journal never saw: a hold with no
\* lease and no capacity check.
RetainUnseen(row) ==
    /\ op = "idle"
    /\ count < MaxRequests
    /\ row.pool \in ProviderPool /\ row.slot = NoSlot /\ row.parent = None
    /\ Insert(row, "RECOVERY_REQUIRED", NoProc)
    /\ UNCHANGED <<grant, overheld, auto, unknown, life, sweepVars>>

\* run_bounded_pytest records the child it spawned: on the lease of a grant, on
\* the request row of an inherited admission.  Neither update looks at the state
\* (a terminal row is left out: nothing reads its identities again).
AttachChild(r, p) ==
    /\ op = "idle"
    /\ st[r] \in Live
    /\ SourceOf[req[r].pool] = NoSource
    /\ life[p] = "alive"
    /\ \/ /\ lease[r] # "NONE"
          /\ proc' = [proc EXCEPT ![r] = p]
          /\ UNCHANGED <<owner, age>>
       \/ /\ req[r].parent # None
          /\ owner' = [owner EXCEPT ![r] = p]
          /\ age' = [age EXCEPT ![r] = 0]
          /\ UNCHANGED proc
    /\ UNCHANGED <<count, st, req, lease, seq, overheld, auto, unknown, life, sweepVars>>

----------------------------------------------------------------------------
(* Time and processes.  Flags rise only where a later step can tell: the    *)
(* expiry of a fenced lease matters only to a child admitted under it, and  *)
(* the age of a grant only once its lease has expired.                      *)

LeaseExpires(r) ==
    /\ op = "idle"
    /\ lease[r] = "FRESH"
    /\ st[r] = "ACTIVE" \/ (st[r] = "RECOVERY_REQUIRED" /\ Children(st, r) # {})
    /\ lease' = [lease EXCEPT ![r] = "EXPIRED"]
    /\ UNCHANGED <<count, st, req, owner, proc, seq, age, overheld, auto,
                   unknown, life, sweepVars>>

GrowsOld(r) ==
    /\ op = "idle"
    /\ st[r] \in Live /\ Lapsed(r, st)
    /\ age[r] < (IF st[r] = "QUEUED" THEN 2 ELSE 1)
    /\ age' = [age EXCEPT ![r] = @ + 1]
    /\ UNCHANGED <<count, st, req, owner, grant, overheld, auto, unknown, life, sweepVars>>

HoldRunsOut(r) ==
    /\ op = "idle"
    /\ st[r] = "ACTIVE" /\ req[r].pool \in MaxHoldPool
    /\ overheld' = overheld \cup {r}
    /\ UNCHANGED <<count, st, req, owner, grant, age, auto, unknown, life, sweepVars>>

\* A process dies, or psutil is refused its start time.
ProcessFails(p) ==
    /\ op = "idle"
    /\ \/ life[p] = "alive" /\ life' = [life EXCEPT ![p] = "unproven"]
       \/ life[p] # "gone" /\ life' = [life EXCEPT ![p] = "gone"]
    /\ UNCHANGED <<count, st, req, owner, grant, age, overheld, auto, unknown, sweepVars>>

----------------------------------------------------------------------------
Init ==
    /\ count = 0
    /\ st = [r \in Request |-> "NONE"]
    /\ req = [r \in Request |-> Blank]
    /\ owner = [r \in Request |-> NoProc]
    /\ lease = [r \in Request |-> "NONE"]
    /\ proc = [r \in Request |-> NoProc]
    /\ seq = [r \in Request |-> 0]
    /\ age = [r \in Request |-> 0]
    /\ overheld = {}
    /\ auto = {}
    /\ unknown = {}
    /\ life = [p \in Proc |-> "alive"]
    /\ op = "idle"
    /\ todo = {}
    /\ snap = [r \in Request |-> "NONE"]
    /\ swept = {}
    /\ dirty = FALSE

SweepStep == SweepReleases \/ SweepAgain
Finish == FinishSweep \/ FinishReconcile \/ Refuse
Answer ==
    /\ Swept("request")
    /\ \E row \in Row, p \in Proc \cup {NoProc} : Inherit(row, p) \/ Admit(row, p)

Operation ==
    \E r \in Request :
        \/ \E n \in 1 .. MaxSequence : Heartbeat(r, n)
        \/ Release(r)
        \/ \E attested \in BOOLEAN : Recover(r, attested)
        \/ MarkUncertain(r) \/ MarkRecovery(r) \/ RetainKnown(r)
        \/ \E p \in Proc : AttachChild(r, p)

Environment ==
    \/ \E r \in Request : LeaseExpires(r) \/ GrowsOld(r) \/ HoldRunsOut(r)
    \/ \E p \in Proc : ProcessFails(p)

Next ==
    \/ BeginRequest \/ BeginReconcile \/ BeginSweep
    \/ SweepStep \/ Finish \/ Answer
    \/ Operation
    \/ \E row \in Row : RetainUnseen(row)
    \/ Environment

Spec == Init /\ [][Next]_vars

\* The daemon reconciles on every poll and a transaction, once begun, ends;
\* time passes.  Nothing makes a holder's lease expire while it is renewed.
FairSpec ==
    /\ Spec
    /\ WF_vars(SweepStep \/ Finish \/ Answer)
    /\ SF_vars(BeginReconcile)
    /\ \A r \in Request : SF_vars(GrowsOld(r)) /\ SF_vars(HoldRunsOut(r))

----------------------------------------------------------------------------
(* Properties                                                              *)

\* A pool never has more live grants than its capacity, whatever promotions,
\* inherited admissions and imported holds surround them (request and
\* _promote_locked both count grants and fenced rows before granting).
GrantsWithinCapacity == \A p \in Pool : Cardinality(In(st, {"ACTIVE"}, p)) <= Capacity[p]

\* In a pool that no provider observation can be imported into, fenced rows
\* admitted on their own keep their place: grants and fenced rows together fit,
\* so an unproven owner is never overlapped by a new one (host:heavy).
FencedKeepTheirPlace ==
    \A p \in Pool : SourceOf[p] = NoSource =>
        Cardinality({r \in In(st, {"ACTIVE", "RECOVERY_REQUIRED"}, p) :
                        req[r].parent = None}) <= Capacity[p]

\* The lanes and provider pools of one account never run more than the account
\* allows, inherited children included (_source_full_locked).
RunningWithinAccount ==
    \A p \in Pool : SourceOf[p] # NoSource =>
        Cardinality({r \in Request : /\ st[r] \in {"ACTIVE", "INHERITED"}
                                     /\ req[r].pool \in Related(p)})
            <= SourceCapacity[SourceOf[p]]

\* Two grants of a pool never share an exclusive slot key, although a waiter
\* blocked on its slot is overtaken and promoted later.
SlotsExclusive ==
    \A r, x \in Request :
        /\ st[r] = "ACTIVE" /\ st[x] = "ACTIVE"
        /\ req[r].pool = req[x].pool
        /\ req[r].slot = req[x].slot /\ req[r].slot # NoSlot
        => r = x

\* A child admitted under a lease never outlives it: while the child is
\* INHERITED its parent's lease row exists and the parent is granted or fenced,
\* never released by its owner, the sweep or an operator; and it is alone.
ChildUnderHeldParent ==
    \A c \in Request : st[c] = "INHERITED" =>
        LET l == req[c].parent IN
        /\ l # None /\ st[l] \in {"ACTIVE", "RECOVERY_REQUIRED"}
        /\ lease[l] # "NONE"
        /\ Children(st, l) = {c}

\* Between transactions no waiter is left behind that capacity, account and
\* slots would admit: every release promotes at most one, and one is enough.
NoStrandedWaiter == op = "idle" => \A p \in Pool : Promotable(st, unknown, p) = {}

\* The journal keeps the promise of ResourceQueue to whoever asks: free places are
\* served at once and in order of priority and age, a waiter whose slot is busy is
\* passed over and one that fits is not, although a place comes free in the middle
\* of a sweep, by an operator's recovery or in another pool of the account.
Stage(state) == CASE state = "NONE" -> "absent"
                  [] state = "QUEUED" -> "waiting"
                  [] state = "ACTIVE" -> "granted"
                  [] state = "INHERITED" -> "sheltered"
                  [] state = "RECOVERY_REQUIRED" -> "held"
                  [] state \in {"RELEASED", "QUARANTINED"} -> "over"
Line == INSTANCE ResourceQueue WITH
            stage <- [r \in Request |-> Stage(st[r])], ask <- req,
            Requests <- Request, Asks <- Row
KeepsLine == Line!QueueSpec

\* Once a sweep has declared an attempt's outcome UNKNOWN (or has released one
\* of its requests) nothing is granted to that attempt again.
RevokedNeverGranted ==
    [][\A r \in Request :
        st[r] \notin {"ACTIVE", "INHERITED"} /\ st'[r] \in {"ACTIVE", "INHERITED"}
            => /\ req'[r].attempt \notin unknown'
               /\ \A x \in auto' : req'[x].attempt # req'[r].attempt]_vars

\* A sweep takes a held row only from owners it has proven gone (or past the
\* maximum hold): never a grant made to a live waiter earlier in the same sweep.
SweepSparesLiveOwners ==
    [][\A r \in Request :
        /\ op # "idle" /\ st[r] \in {"ACTIVE", "INHERITED", "RECOVERY_REQUIRED"}
        /\ st'[r] = "RELEASED"
        => r \in overheld \/ AllGone(Known({owner[r], OwnProc(r)}))]_vars

\* A fenced row whose recorded owners are all gone, and that shelters no child,
\* is released in the end by the daemon alone: nobody has to notice it.
DeadFenceIsFreed ==
    \A r \in Request :
        (/\ st[r] = "RECOVERY_REQUIRED"
         /\ AllGone(Identities(r, "RECOVERY_REQUIRED"))
         /\ Children(st, LeaseId(r)) = {})
            ~> st[r] = "RELEASED"

\* SKILL.md: "Attestation is not an override -- a recorded process that is still
\* running refuses with OWNER_PROCESS_ALIVE either way".  recover() looks only at
\* the lease's process, not at the one recorded on the request row.
AttestationNeverOverrides ==
    [][\A r \in Request :
        op = "idle" /\ st[r] = "RECOVERY_REQUIRED" /\ st'[r] = "RELEASED"
            => \A p \in Known({owner[r], OwnProc(r)}) : life[p] # "alive"]_vars

\* get_cdp_max_hold_seconds: "Maximum admission age for ChatGPT and Perplexity
\* CDP slots".  The daemon's look before the lock does not see an over-held grant
\* whose lease is still renewed.
MaxHoldIsEnforced ==
    \A r \in Request : (st[r] = "ACTIVE" /\ r \in overheld) ~> st[r] # "ACTIVE"
=============================================================================
