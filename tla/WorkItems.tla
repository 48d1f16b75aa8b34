----------------------------- MODULE WorkItems -----------------------------
(***************************************************************************)
(* The work queue of the TruthDeck Conductor                               *)
(* (src/scripts/conductor_commands.py, src/scripts/conductor_store.py):    *)
(* work items that are enqueued, authorized, claimed, worked on under a    *)
(* lease, completed, cancelled, or fenced when a lease runs out.           *)
(*                                                                         *)
(* Several processes run commands at once: the CLI, the MCP server, the    *)
(* daemon.  A handler is a sequence of store calls, each a transaction of  *)
(* its own, so a client's step here is one transaction and the others may  *)
(* act between any two.  transition_work_item_state reads and checks the   *)
(* state in autocommit and opens its transaction with the UPDATE, so it is *)
(* two steps.  The three fenced writes of a worker run under BEGIN         *)
(* IMMEDIATE and are one.                                                  *)
(*                                                                         *)
(* Left out: receipts (a retried command is a new call), the row of an     *)
(* attempt before its claim (nothing refers to it yet), lease generations  *)
(* (always 1) and heartbeat sequence numbers (a repeated heartbeat is      *)
(* refused and changes nothing).                                           *)
(***************************************************************************)
EXTENDS Integers, FiniteSets

CONSTANTS
    Client,       \* processes that run commands
    Daemon,       \* the one that reconciles on every poll
    Item,         \* work items, one for each idempotency key
    Guarded,      \* items of risk class R2 or R3
    MaxAttempts   \* bound on the claims ever made

Attempt == 1 .. MaxAttempts
None == 0

ASSUME QueueAssumption ==
    /\ Daemon \in Client
    /\ Guarded \subseteq Item
    /\ None \notin Item
    /\ MaxAttempts \in Nat

VARIABLES
    state,      \* work_items.state, "ABSENT" before the row exists
    authority,  \* latest authorization: "NONE", "VALID", "STALE" (expired, other scope)
    owner,      \* work_items.current_claim_attempt_id
    gen,        \* work_items.current_claim_generation
    itemOf,     \* attempts.work_item_id, None before the attempt is claimed
    token,      \* claims.claim_generation of an attempt
    unknown,    \* attempts whose status is UNKNOWN
    lease,      \* the row in leases: "NONE", "FRESH", "EXPIRED"
    told,       \* attempts whose claimant was answered SUCCESS
    written,    \* the claim generation of the last worker write accepted
    call        \* what each client is in the middle of

claimVars == <<owner, gen, itemOf, token>>
workerVars == <<unknown, lease, told, written>>
vars == <<state, authority, claimVars, workerVars, call>>

----------------------------------------------------------------------------
(* The lifecycle                                                           *)

ItemState == {"ABSENT", "DISCOVERED", "QUEUED", "HOLD", "READY", "CLAIMED",
              "DISPATCHING", "RUNNING", "WAITING_EXTERNAL", "REVIEW",
              "COMPLETED", "CANCELLED", "BLOCKED", "RECOVERY_REQUIRED",
              "DISPATCH_UNKNOWN", "QUARANTINED"}
Terminal  == {"COMPLETED", "CANCELLED", "QUARANTINED"}
Executing == {"CLAIMED", "DISPATCHING", "RUNNING"}

\* VALID_TRANSITIONS; every state that is not terminal may be cancelled, and
\* all of them but DISCOVERED quarantined.
Successors(s) ==
    CASE s = "DISCOVERED"        -> {"QUEUED"}
      [] s = "QUEUED"            -> {"HOLD", "READY"}
      [] s = "HOLD"              -> {"READY"}
      [] s = "READY"             -> {"CLAIMED", "HOLD"}
      [] s = "CLAIMED"           -> {"DISPATCHING", "RECOVERY_REQUIRED"}
      [] s = "DISPATCHING"       -> {"RUNNING", "DISPATCH_UNKNOWN", "RECOVERY_REQUIRED"}
      [] s = "RUNNING"           -> {"WAITING_EXTERNAL", "REVIEW", "COMPLETED",
                                     "BLOCKED", "RECOVERY_REQUIRED"}
      [] s = "WAITING_EXTERNAL"  -> {"RUNNING", "BLOCKED", "RECOVERY_REQUIRED"}
      [] s = "REVIEW"            -> {"COMPLETED", "BLOCKED", "RECOVERY_REQUIRED"}
      [] s = "RECOVERY_REQUIRED" -> {"READY", "HOLD"}
      [] s = "DISPATCH_UNKNOWN"  -> {"RECOVERY_REQUIRED"}
      [] s = "BLOCKED"           -> {"READY", "HOLD"}
      [] OTHER                   -> {}

CanTransition(s, t) ==
    \/ t \in Successors(s)
    \/ s \notin Terminal \cup {"ABSENT"} /\ t = "CANCELLED"
    \/ s \notin Terminal \cup {"ABSENT", "DISCOVERED"} /\ t = "QUARANTINED"

----------------------------------------------------------------------------
(* Calls.  `at' names the next store call of a handler; `target' is the    *)
(* state its transition asks for; `seen' whether an authorization found    *)
(* the item waiting; `rows' the lease rows a reconcile has yet to visit.   *)

Call == [at : {"idle", "insert", "grant", "authority", "claim", "lease",
               "check", "write", "rows"},
         item : Item \cup {None}, target : ItemState, seen : BOOLEAN,
         attempt : Attempt \cup {None}, rows : SUBSET Attempt]

Idle == [at |-> "idle", item |-> None, target |-> "ABSENT", seen |-> FALSE,
         attempt |-> None, rows |-> {}]

At(c, label) == call[c].at = label
Begin(c, label, w) ==
    /\ At(c, "idle")
    /\ call' = [call EXCEPT ![c] = [Idle EXCEPT !.at = label, !.item = w]]
Continue(c, label) == call' = [call EXCEPT ![c].at = label]
Return(c) == call' = [call EXCEPT ![c] = Idle]
AskFor(c, t) == call' = [call EXCEPT ![c].at = "check", ![c].target = t]

TypeOK ==
    /\ state \in [Item -> ItemState]
    /\ authority \in [Item -> {"NONE", "VALID", "STALE"}]
    /\ owner \in [Item -> Attempt \cup {None}]
    /\ gen \in [Item -> 0 .. MaxAttempts]
    /\ itemOf \in [Attempt -> Item \cup {None}]
    /\ token \in [Attempt -> 0 .. MaxAttempts]
    /\ unknown \subseteq Attempt
    /\ lease \in [Attempt -> {"NONE", "FRESH", "EXPIRED"}]
    /\ told \subseteq Attempt
    /\ written \in [Item -> 0 .. MaxAttempts]
    /\ call \in [Client -> Call]

----------------------------------------------------------------------------
(* transition_work_item_state                                              *)

\* SELECT and can_transition; an invalid one raises and ends the command.
CheckTransition(c) ==
    /\ At(c, "check")
    /\ IF CanTransition(state[call[c].item], call[c].target)
       THEN Continue(c, "write") ELSE Return(c)
    /\ UNCHANGED <<state, authority, claimVars, workerVars>>

\* UPDATE work_items SET state = ? WHERE work_item_id = ?, and nothing else.
WriteTransition(c) ==
    /\ At(c, "write")
    /\ state' = [state EXCEPT ![call[c].item] = call[c].target]
    /\ told' = IF call[c].attempt # None THEN told \cup {call[c].attempt} ELSE told
    /\ IF call[c].rows # {} THEN Continue(c, "rows") ELSE Return(c)
    /\ UNCHANGED <<authority, claimVars, unknown, lease, written>>

----------------------------------------------------------------------------
(* Commands                                                                *)

\* enqueue: get_work_item_by_idempotency_key found nothing.
Enqueue(c, w) ==
    /\ state[w] = "ABSENT"
    /\ Begin(c, "insert", w)
    /\ UNCHANGED <<state, authority, claimVars, workerVars>>

\* save_work_item is an upsert of the item's id that resets the state; under
\* another id it fails if the key is taken by now.
InsertItem(c) ==
    /\ At(c, "insert")
    /\ \/ /\ state' = [state EXCEPT ![call[c].item] = "DISCOVERED"]
          /\ AskFor(c, "QUEUED")
       \/ /\ state[call[c].item] # "ABSENT"
          /\ Return(c)
          /\ UNCHANGED state
    /\ UNCHANGED <<authority, claimVars, workerVars>>

\* The operator's GO: the item is read first.
Authorize(c, w) ==
    /\ state[w] # "ABSENT"
    /\ At(c, "idle")
    /\ call' = [call EXCEPT ![c] = [Idle EXCEPT !.at = "grant", !.item = w,
                                    !.seen = state[w] \in {"QUEUED", "HOLD"}]]
    /\ UNCHANGED <<state, authority, claimVars, workerVars>>

SaveAuthorization(c) ==
    /\ At(c, "grant")
    /\ authority' = [authority EXCEPT ![call[c].item] = "VALID"]
    /\ IF call[c].seen THEN AskFor(c, "READY") ELSE Return(c)
    /\ UNCHANGED <<state, claimVars, workerVars>>

\* (The bound: claims made and under way.)
Claim(c, w) ==
    /\ state[w] = "READY"
    /\ Cardinality({a \in Attempt : itemOf[a] # None})
         + Cardinality({x \in Client : At(x, "authority") \/ At(x, "claim")}) < MaxAttempts
    /\ Begin(c, IF w \in Guarded THEN "authority" ELSE "claim", w)
    /\ UNCHANGED <<state, authority, claimVars, workerVars>>

FaultyCheckAuthority(c) ==
    /\ At(c, "authority")
    /\ Continue(c, "claim")
    /\ UNCHANGED <<state, authority, claimVars, workerVars>>

\* authorization_refusal: without a valid GO the item goes to HOLD.
CheckAuthority(c) ==
    /\ At(c, "authority")
    /\ IF authority[call[c].item] = "VALID" THEN Continue(c, "claim")
       ELSE AskFor(c, "HOLD")
    /\ UNCHANGED <<state, authority, claimVars, workerVars>>

\* save_attempt and save_claim: the new attempt takes the next generation and
\* becomes the current claim, whatever has happened to the item meanwhile.
SaveClaim(c) ==
    /\ At(c, "claim")
    /\ \E a \in Attempt :
        /\ itemOf[a] = None /\ \A b \in Attempt : b < a => itemOf[b] # None
        /\ itemOf' = [itemOf EXCEPT ![a] = call[c].item]
        /\ token' = [token EXCEPT ![a] = gen[call[c].item] + 1]
        /\ gen' = [gen EXCEPT ![call[c].item] = token'[a]]
        /\ owner' = [owner EXCEPT ![call[c].item] = a]
        /\ call' = [call EXCEPT ![c].at = "lease", ![c].attempt = a]
    /\ UNCHANGED <<state, authority, workerVars>>

SaveLease(c) ==
    /\ At(c, "lease")
    /\ lease' = [lease EXCEPT ![call[c].attempt] = "FRESH"]
    /\ AskFor(c, "CLAIMED")
    /\ UNCHANGED <<state, authority, claimVars, unknown, told, written>>

Cancel(c, w) ==
    /\ state[w] # "ABSENT"
    /\ At(c, "idle")
    /\ call' = [call EXCEPT ![c] = [Idle EXCEPT !.at = "check", !.item = w,
                                    !.target = "CANCELLED"]]
    /\ UNCHANGED <<state, authority, claimVars, workerVars>>

FaultyReconcile(c) ==
    LET rows == {a \in Attempt : lease[a] = "EXPIRED" /\ state[itemOf[a]] = "RUNNING"}
    IN  /\ rows # {}
        /\ At(c, "idle")
        /\ call' = [call EXCEPT ![c] = [Idle EXCEPT !.at = "rows", !.rows = rows]]
        /\ UNCHANGED <<state, authority, claimVars, workerVars>>

\* reconcile: every expired lease of any attempt at an executing item ...
Reconcile(c) ==
    LET rows == {a \in Attempt : lease[a] = "EXPIRED" /\ state[itemOf[a]] \in Executing}
    IN  /\ rows # {}
        /\ At(c, "idle")
        /\ call' = [call EXCEPT ![c] = [Idle EXCEPT !.at = "rows", !.rows = rows]]
        /\ UNCHANGED <<state, authority, claimVars, workerVars>>

\* ... one transition after the other, until one raises.
ReconcileRow(c) ==
    /\ At(c, "rows")
    /\ \E a \in call[c].rows :
        IF CanTransition(state[itemOf[a]], "RECOVERY_REQUIRED")
        THEN call' = [call EXCEPT ![c].at = "write", ![c].item = itemOf[a],
                                  ![c].target = "RECOVERY_REQUIRED",
                                  ![c].rows = @ \ {a}]
        ELSE Return(c)
    /\ UNCHANGED <<state, authority, claimVars, workerVars>>

\* A host adapter or an operator moving an item on with the store's own call: no
\* command does (the tests drive an item to RUNNING, and back to READY, so).
Adapter(c, w, t) ==
    /\ state[w] # "ABSENT"
    /\ At(c, "idle")
    /\ call' = [call EXCEPT ![c] = [Idle EXCEPT !.at = "check", !.item = w, !.target = t]]
    /\ UNCHANGED <<state, authority, claimVars, workerVars>>

----------------------------------------------------------------------------
(* Workers, and the sweep of host resources                                *)

FaultyFence(a) == a \in told /\ a \notin unknown /\ lease[a] = "FRESH"

\* _validate_worker_attempt_fence_locked
Fence(a) ==
    /\ a \in told
    /\ a \notin unknown
    /\ owner[itemOf[a]] = a /\ gen[itemOf[a]] = token[a]
    /\ lease[a] = "FRESH"

Accept(a) == written' = [written EXCEPT ![itemOf[a]] = token[a]]

FaultyHeartbeat(a) ==
    /\ a \in told
    /\ lease' = [lease EXCEPT ![a] = "FRESH"]
    /\ Accept(a)
    /\ UNCHANGED <<state, authority, claimVars, unknown, told, call>>

Heartbeat(a) ==
    /\ Fence(a)
    /\ lease' = [lease EXCEPT ![a] = "FRESH"]
    /\ Accept(a)
    /\ UNCHANGED <<state, authority, claimVars, unknown, told, call>>

Checkpoint(a) ==
    /\ Fence(a)
    /\ Accept(a)
    /\ UNCHANGED <<state, authority, claimVars, unknown, lease, told, call>>

Complete(a) ==
    /\ Fence(a)
    /\ CanTransition(state[itemOf[a]], "COMPLETED")
    /\ state' = [state EXCEPT ![itemOf[a]] = "COMPLETED"]
    /\ Accept(a)
    /\ UNCHANGED <<authority, claimVars, unknown, lease, told, call>>

\* What SweepReleases of HostResources does here when it takes a host resource
\* from the attempt: the lease goes, the outcome is unknown, and the item is
\* fenced if the attempt is its current claim.
Reap(a) ==
    LET w == itemOf[a] IN
    /\ a \in told
    /\ unknown' = unknown \cup {a}
    /\ lease' = [lease EXCEPT ![a] = "NONE"]
    /\ state' = [state EXCEPT ![w] =
                   IF /\ @ \in Executing \cup {"WAITING_EXTERNAL", "REVIEW"}
                      /\ owner[w] = a /\ gen[w] = token[a]
                   THEN "RECOVERY_REQUIRED" ELSE @]
    /\ UNCHANGED <<authority, claimVars, told, written, call>>

----------------------------------------------------------------------------
(* Time and crashes                                                        *)

LeaseExpires(a) ==
    /\ lease[a] = "FRESH"
    /\ lease' = [lease EXCEPT ![a] = "EXPIRED"]
    /\ UNCHANGED <<state, authority, claimVars, unknown, told, written, call>>

\* AUTHORIZATION_TTL_SECONDS, or a changed scope digest.
AuthorizationLapses(w) ==
    /\ authority[w] = "VALID"
    /\ authority' = [authority EXCEPT ![w] = "STALE"]
    /\ UNCHANGED <<state, claimVars, workerVars, call>>

Crash(c) ==
    /\ ~At(c, "idle")
    /\ Return(c)
    /\ UNCHANGED <<state, authority, claimVars, workerVars>>

----------------------------------------------------------------------------
Init ==
    /\ state = [w \in Item |-> "ABSENT"]
    /\ authority = [w \in Item |-> "NONE"]
    /\ owner = [w \in Item |-> None]
    /\ gen = [w \in Item |-> 0]
    /\ itemOf = [a \in Attempt |-> None]
    /\ token = [a \in Attempt |-> 0]
    /\ unknown = {}
    /\ lease = [a \in Attempt |-> "NONE"]
    /\ told = {}
    /\ written = [w \in Item |-> 0]
    /\ call = [c \in Client |-> Idle]

\* The moves of an item that no command makes.
AdapterMove == {"DISPATCHING", "RUNNING", "READY"}

Command(c) ==
    \/ \E w \in Item :
        \/ Enqueue(c, w) \/ Authorize(c, w) \/ Claim(c, w) \/ Cancel(c, w)
        \/ \E t \in AdapterMove : Adapter(c, w, t)
    \/ Reconcile(c)

Proceed(c) ==
    \/ InsertItem(c) \/ SaveAuthorization(c) \/ CheckAuthority(c)
    \/ SaveClaim(c) \/ SaveLease(c)
    \/ ReconcileRow(c) \/ CheckTransition(c) \/ WriteTransition(c)

Worker(a) == Heartbeat(a) \/ Checkpoint(a) \/ Complete(a) \/ Reap(a)

Next ==
    \/ \E c \in Client : Command(c) \/ Proceed(c) \/ Crash(c)
    \/ \E a \in Attempt : Worker(a) \/ LeaseExpires(a)
    \/ \E w \in Item : AuthorizationLapses(w)

Spec == Init /\ [][Next]_vars

\* The daemon goes on with what it is doing and reconciles on every poll, and
\* however often it is killed some poll runs to its end; nobody else owes a step.
FairSpec ==
    /\ Spec
    /\ WF_vars(Proceed(Daemon))
    /\ SF_vars(Reconcile(Daemon))
    /\ SF_vars(ReconcileRow(Daemon))
    /\ SF_vars(WriteTransition(Daemon))

----------------------------------------------------------------------------
(* Properties                                                              *)

\* The current claim of an item is the newest ever made, and no two claims share
\* a generation, however claims overlap (save_claim): what every fence relies on.
CurrentClaimIsNewest ==
    \A w \in Item, a \in Attempt : itemOf[a] = w =>
        /\ owner[w] # None /\ token[owner[w]] = gen[w] /\ itemOf[owner[w]] = w
        /\ a # owner[w] => token[a] < gen[w]

\* Once a worker's write has been accepted under a claim, none is accepted under
\* an older one: a worker that was replaced stays out.
ReplacedStaysOut == [][\A w \in Item : written'[w] >= written[w]]_vars

\* Once the sweep has revoked an attempt its lease never comes back (a late
\* heartbeat does not recreate it) and none of its writes is accepted.
RevokedStaysOut ==
    [][\A a \in unknown :
        /\ a \in unknown' /\ lease'[a] = "NONE"
        /\ written'[itemOf[a]] = token[a] => written[itemOf[a]] = token[a]]_vars

\* Work of risk class R2 or R3 is never under way unless an operator has at some
\* time given a GO for it, whichever way it became READY.
NoWorkWithoutGo ==
    \A w \in Guarded : state[w] \in Executing \cup {"COMPLETED"} => authority[w] # "NONE"

\* An item does not stay in execution on an expired lease (SKILL.md rule 3:
\* "Expired leases automatically transition to RECOVERY_REQUIRED").
ExpiredLeaseIsNoticed ==
    \A a \in Attempt :
        (lease[a] = "EXPIRED" /\ state[itemOf[a]] \in Executing)
            ~> (lease[a] = "NONE" \/ state[itemOf[a]] \notin Executing)

\* conductor_model.py, VALID_TRANSITIONS: "COMPLETED: set(),  # Terminal", and so
\* CANCELLED and QUARANTINED.  The check and the write of a transition are two
\* transactions, and the write does not repeat the check.
TerminalIsFinal ==
    [][\A w \in Item : state[w] \in Terminal => state'[w] = state[w]]_vars

\* conductor_resources.py, on the sweep: "after a replacement claim ... the
\* running work item belongs to the replacement and must not be fenced".  The
\* reconcile joins every lease of every attempt: one left by an earlier claim
\* fences the item of the current one.
ReplacementIsNotFenced ==
    [][\A w \in Item :
        state[w] \in Executing /\ state'[w] = "RECOVERY_REQUIRED"
            => lease'[owner[w]] # "FRESH"]_vars
=============================================================================
