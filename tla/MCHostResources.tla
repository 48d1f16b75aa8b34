-------------------------- MODULE MCHostResources --------------------------
(***************************************************************************)
(* Small hosts for TLC: the capacity-one pytest gate alone, and a browser  *)
(* lane that shares one provider account with a provider pool.             *)
(***************************************************************************)
EXTENDS GateVerdict, TLC

CONSTANTS heavy, cdp, provider, account

HeavyPool     == {heavy}
HeavyCapacity == heavy :> 1
HeavySource   == heavy :> NoSource
NoSources     == [s \in {} |-> 1]
NoPools       == {}

AccountPool     == {cdp, provider}
AccountCapacity == cdp :> 2 @@ provider :> 1
AccountSource   == cdp :> account @@ provider :> account
AccountBound    == account :> 2
LaneCapacity    == cdp :> 2
LaneSource      == cdp :> account
LanePool        == {cdp}
ProviderOnly    == {provider}

Symmetry == Permutations(Attempt)

(* States that differ only in what no later step reads are one state:      *)
(*  - of a finished row that cannot be fenced again, all but its state, its *)
(*    attempt and how it was released; and even that, if its attempt is     *)
(*    UNKNOWN anyway;                                                       *)
(*  - the priority of a row that waits no longer; the slot in a pool of     *)
(*    one, which is full before its slot is busy;                           *)
(*  - the heartbeats of a lease that cannot be renewed; the expiry of one   *)
(*    whose row ended or is fenced with no child; and whether it is there   *)
(*    at all if it records no process and the pool has a source, where no   *)
(*    child can be attached to it;                                          *)
(*  - what a sweep read of the rows it has passed, or has nothing left to   *)
(*    do with; the rows it has released, which are RELEASED and no          *)
(*    candidates.                                                           *)
Finished(r) == st[r] \in {"RELEASED", "QUARANTINED"}
Ended(r) == Finished(r) \/ (st[r] = "RECOVERY_REQUIRED" /\ Children(st, r) = {})
Buried(r) ==
    /\ Finished(r)
    /\ st[r] = "QUARANTINED" \/ \A q \in ProviderPool : SourceOf[q] # SourceOf[req[r].pool]
Asked(r) == LET q == req[r] IN
            <<q.pool, q.attempt, q.parent, IF st[r] = "QUEUED" THEN q.prio ELSE 0,
              IF Capacity[q.pool] = 1 THEN NoSlot ELSE q.slot>>
Beats(r) == IF st[r] = "ACTIVE" /\ lease[r] = "FRESH" THEN seq[r] ELSE 0
Leased(r) == CASE ~Ended(r) -> lease[r]
               [] Ended(r) /\ SourceOf[req[r].pool] # NoSource /\ proc[r] = NoProc -> "-"
               [] OTHER -> IF lease[r] = "NONE" THEN "NONE" ELSE "-"
Automatic(r) == r \in auto /\ req[r].attempt \notin unknown
Fields(r) ==
    IF Finished(r)
    THEN <<st[r], req[r].attempt, Automatic(r),
           IF Buried(r) THEN "-" ELSE <<Asked(r), owner[r], proc[r], Leased(r)>> >>
    ELSE <<st[r], Asked(r), owner[r], Leased(r), proc[r], Beats(r), age[r],
           r \in overheld, Automatic(r)>>
Seen == <<count, [r \in 1 .. count |-> Fields(r)], unknown, life,
          op, IF op = "idle" \/ Stale = {} THEN <<>> ELSE [r \in todo |-> snap[r]], dirty>>
============================================================================
