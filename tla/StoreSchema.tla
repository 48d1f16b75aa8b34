------------------------------ MODULE StoreSchema ------------------------------
(***************************************************************************)
(* ConductorStore._init_db: bringing the database of any earlier build to  *)
(* the schema of this one, while several processes open it at once, claim  *)
(* work items in it as soon as they have it open, and crash.               *)
(* SQLite is external: one writer at a time, a transaction is all or none. *)
(***************************************************************************)
EXTENDS Naturals, Sequences

CONSTANTS Openers, Items, MaxClaims

ASSUME SchemaAssumption == MaxClaims \in Nat

Latest == 9

\* The columns and the pools each migration brings.
Brings(v) == CASE v = 3 -> {"context"}        [] v = 4 -> {"priority"}
               [] v = 5 -> {"slot_key"}       [] v = 7 -> {"owner_identity"}
               [] v = 8 -> {"lease_generation"}
               [] OTHER -> {}
Seeds(v) == CASE v = 2 -> {"heavy"}
              [] v = 5 -> {"heavy", "perplexity", "chatgpt", "gemini"}
              [] v = 6 -> {"tv"}
              [] OTHER -> {}
\* V9_REQUIRED_COLUMNS
Fencing == {"lease_generation", "claim_generation", "current_claim", "receipt_flag"}
ColumnsOf(v) == UNION {Brings(w) : w \in 1 .. v}
PoolsOf(v)   == UNION {Seeds(w) : w \in 1 .. v}

VARIABLES
  schema, \* [version, columns, pools]; version 0 has no tables
  items,  \* item -> [state, claims, owner]: the generations of its claims, in order of
          \* insertion, and the claim the item names as current (0: none)
  opener, \* process -> "away", "must_migrate", "locked", "open", "refused"
  opens   \* bound on the openings

schemaVars == <<schema, items, opener, opens>>

Live == {"RUNNING"} \* _LIVE_EXECUTION_STATES
Ordered(n) == [k \in 1 .. n |-> k]

\* The layouts in the wild: each earlier version, a version 8 of another branch
\* without leases.lease_generation, a version 9 an earlier build made from that,
\* and a database of a future build.
SchemaInit ==
  /\ \E v \in 0 .. Latest + 1, lacks \in {{}, {"lease_generation"}} :
       /\ lacks = {} \/ v \in {8, 9}
       /\ schema = [version |-> v, pools |-> PoolsOf(v),
                    columns |-> (ColumnsOf(v) \cup IF v > 8 THEN Fencing ELSE {}) \ lacks]
       /\ items \in [Items -> [state : {"QUEUED", "RUNNING"},
                               claims : {[k \in 1 .. n |-> IF v > 8 THEN k ELSE 0] : n \in 0 .. MaxClaims},
                               owner : {0}] \cup
                              [state : {"QUEUED", "RUNNING"},
                               claims : {Ordered(n) : n \in 1 .. MaxClaims}, owner : 1 .. MaxClaims]]
       /\ \A i \in Items : LET n == Len(items[i].claims) IN
            /\ v = 0 => items[i].state = "QUEUED" /\ n = 0
            /\ items[i].owner = IF v > 8 THEN n ELSE 0
            /\ v > 8 /\ items[i].state \in Live => n > 0
  /\ opener = [p \in Openers |-> "away"] /\ opens = 0

-------------------------------------------------------------------------------
(* _init_db *)

\* _schema_is_current: a read without the lock.
Complete == schema.version = Latest /\ Fencing \subseteq schema.columns

Moves(p, to) == opener' = [opener EXCEPT ![p] = to]

Open(p) ==
  /\ opener[p] = "away" /\ opens < 3 /\ opens' = opens + 1
  /\ Moves(p, IF Complete THEN "open" ELSE "must_migrate") /\ UNCHANGED <<schema, items>>

\* BEGIN IMMEDIATE, then the version is read; a newer database is refused.
Lock(p) ==
  /\ opener[p] = "must_migrate" /\ \A q \in Openers : opener[q] # "locked"
  /\ Moves(p, IF schema.version > Latest THEN "refused" ELSE "locked")
  /\ UNCHANGED <<schema, items, opens>>

Migrated == [version |-> Latest,
             columns |-> schema.columns \cup Fencing \cup
                         UNION {Brings(v) : v \in schema.version + 1 .. Latest},
             pools   |-> schema.pools \cup UNION {Seeds(v) : v \in schema.version + 1 .. Latest}]

FaultyBackfilled(item) == [item EXCEPT !.owner = IF item.claims = <<>> THEN 0 ELSE 1]

\* The last claim inserted owns the item; live without a claim is for the operator.
Backfilled(item) ==
  IF item.claims = <<>>
  THEN IF item.state \in Live THEN [item EXCEPT !.state = "RECOVERY_REQUIRED"] ELSE item
  ELSE [item EXCEPT !.owner = Len(item.claims)]

\* _migrate_to_v9_locked: generations in order of insertion where there were
\* none, owners where a column was added to a database not yet marked 9.
Fenced(item) ==
  LET counted == IF "claim_generation" \in schema.columns THEN item
                 ELSE [item EXCEPT !.claims = Ordered(Len(item.claims))]
      added   == ~({"claim_generation", "current_claim"} \subseteq schema.columns)
  IN IF schema.version < Latest /\ added THEN Backfilled(counted) ELSE counted

\* Every step, the validation and the markers commit together.
Migrate(p) ==
  /\ opener[p] = "locked" /\ Moves(p, "open")
  /\ schema' = Migrated /\ items' = [i \in Items |-> Fenced(items[i])]
  /\ UNCHANGED opens

\* The process dies; a transaction under way rolls back.
Vanish(p) == /\ opener[p] \in {"must_migrate", "locked", "open"} /\ Moves(p, "away")
             /\ UNCHANGED <<schema, items, opens>>

-------------------------------------------------------------------------------
(* What an opened store is used for *)

\* claim_work_item: the next generation, and the item names it.
ClaimsItem(p, i) ==
  /\ opener[p] = "open" /\ \A q \in Openers : opener[q] # "locked"
  /\ items[i].state = "QUEUED" /\ Len(items[i].claims) < MaxClaims
  /\ LET g == IF items[i].claims = <<>> THEN 1 ELSE items[i].claims[Len(items[i].claims)] + 1
     IN items' = [items EXCEPT ![i] = [state |-> "RUNNING", claims |-> Append(@.claims, g), owner |-> g]]
  /\ UNCHANGED <<schema, opener, opens>>

SchemaNext == \E p \in Openers : \/ Open(p) \/ Lock(p) \/ Migrate(p) \/ Vanish(p)
                                 \/ \E i \in Items : ClaimsItem(p, i)

-------------------------------------------------------------------------------
(* Properties *)

\* A process that has the store open finds all its columns and pools there, and
\* every live item owned by its latest claim, under the generation that only
\* this claim has; whatever layout the database came from, whoever migrated it
\* and whoever died trying.
OpenedIsComplete ==
  (\E p \in Openers : opener[p] = "open") =>
    /\ schema = [version |-> Latest, columns |-> ColumnsOf(Latest) \cup Fencing,
                 pools |-> PoolsOf(Latest)]
    /\ \A i \in Items : LET item == items[i] IN
         /\ item.claims = Ordered(Len(item.claims))
         /\ item.state \in Live => item.claims # <<>> /\ item.owner = Len(item.claims)
===============================================================================
