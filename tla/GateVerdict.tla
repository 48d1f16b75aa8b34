------------------------------ MODULE GateVerdict ------------------------------
(***************************************************************************)
(* What conductor_store.py makes of a snapshot of the journal of           *)
(* HostResources: the verdict on a pool that the operator panel shows, and *)
(* the way out of a fence it offers.  Both repeat decisions of the manager *)
(* in code of their own and on a copy of the rows; a copy only ever holds  *)
(* committed rows, so they are compared between transactions.              *)
(***************************************************************************)
EXTENDS HostResources

Fenced(p)  == In(st, {"RECOVERY_REQUIRED"}, p)
Holders(p) == In(st, {"ACTIVE"}, p)
Queue(p)   == In(st, {"QUEUED"}, p)

FaultyVerdict(p) ==
    CASE Holders(p) # {} -> "OCCUPIED"
      [] Holders(p) = {} /\ Queue(p) # {} -> "ANOMALY"
      [] OTHER -> "CLEAR"

\* evaluate_gate_verdict, for a pool that is present and enabled.
Verdict(p) ==
    CASE Fenced(p) # {} -> "FENCED"
      [] Fenced(p) = {} /\ Holders(p) # {} -> "OCCUPIED"
      [] Fenced(p) \cup Holders(p) = {} /\ Queue(p) # {} -> "ANOMALY"
      [] OTHER -> "CLEAR"

FaultyAdjudicate(r) ==
    CASE OwnProc(r) = NoProc -> {TRUE}
      [] OwnProc(r) # NoProc /\ life[OwnProc(r)] = "alive" -> {}
      [] OTHER -> {TRUE, FALSE}

\* adjudicate_recovery, which sees a fenced row joined with its own lease alone:
\* the forms of resource-recover, attested or not, said to be accepted.
Adjudicate(r) ==
    LET p == OwnProc(r) IN
    IF lease[r] # "NONE" /\ Children(st, r) # {} THEN {}
    ELSE CASE p = NoProc -> {TRUE}
           [] p # NoProc /\ life[p] = "unproven" -> {TRUE}
           [] p # NoProc /\ life[p] = "alive" -> {}
           [] OTHER -> {TRUE, FALSE}

\* _queued_blocking_holders_locked: whom a waiting request is told to wait for,
\* found in the order in which request() refuses it.
BlockingHolders(r) ==
    LET p == req[r].pool IN
    CASE PoolFull(st, p) -> Holding(st, p)
      [] ~PoolFull(st, p) /\ SourceFull(st, p) ->
             UNION {In(st, {"ACTIVE", "INHERITED", "RECOVERY_REQUIRED"}, q) : q \in Related(p)}
      [] OTHER -> {h \in Holding(st, p) : SlotBusy(st, p, req[r].slot)
                                           /\ req[h].slot = req[r].slot}

\* _holder_entry_locked: what it is told of a holder's owner.  The owner of the
\* row is judged before the process of the lease, and the first that is not
\* proven gone decides.
OwnerAlive(h) ==
    LET ps    == Known({owner[h], LeaseProc(h)})
        there == {p \in ps : life[p] # "gone"}
        first == IF owner[h] \in there THEN owner[h] ELSE LeaseProc(h)
    IN  CASE ps = {} -> "unrecorded"
          [] ps # {} /\ there = {} -> "gone"
          [] OTHER -> life[first]

----------------------------------------------------------------------------
(* Properties                                                              *)

\* On a pool of capacity one and of no account the verdict is what a request
\* would meet: a clear gate admits it, any other does not, and a queue never
\* waits with nothing in front of it.  "Nothing is running", the headline of a
\* single fence, is true unless the fenced row was a child under a live grant.
\* Who waits is told of every row the verdict counts, and of its owner what the
\* stale-slot sweep would find.
VerdictForetells ==
    op = "idle" => \A p \in Pool :
        SourceOf[p] = NoSource /\ Capacity[p] = 1 =>
            /\ Verdict(p) = "CLEAR" <=> ~PoolFull(st, p)
            /\ Verdict(p) # "ANOMALY"
            /\ Verdict(p) = "FENCED" /\ Holders(p) # {} =>
                   \A r \in Fenced(p) : req[r].parent # None
            /\ \A r \in Queue(p) : BlockingHolders(r) = Fenced(p) \cup Holders(p)
            /\ \A r \in Queue(p) : \A h \in BlockingHolders(r) :
                   OwnerAlive(h) \in {"gone", "unrecorded"} <=> OwnerGone(h, st)

\* The recovery the panel offers for a fence is exactly the one the manager
\* would accept at that moment.  A fenced row that was admitted under a lease
\* of another is the exception: the panel does not know whose child it was.
OfferedRecoveryWorks ==
    op = "idle" => \A r \in Request, attested \in BOOLEAN :
        /\ st[r] = "RECOVERY_REQUIRED" /\ SourceOf[req[r].pool] = NoSource
        /\ req[r].parent = None
        => (attested \in Adjudicate(r) <=> Recoverable(r, attested))
=============================================================================
