---------------------------- MODULE ResourceQueue ----------------------------
(***************************************************************************)
(* What the host resources promise to those who ask for them, whoever dies *)
(* and however the places come free: a pool grants what it has places for, *)
(* its account covers and its slots allow; a place that comes free goes at *)
(* once to the first it fits in the line of a pool; nobody who does not    *)
(* fit holds up the others, and nobody who fits is left waiting; a request *)
(* that was admitted under the grant of another ends before it.            *)
(*                                                                         *)
(* Leases, processes, clocks and the sweep are not here: a step is what a  *)
(* committed transaction means to the line.                                *)
(***************************************************************************)
EXTENDS Integers, FiniteSets

CONSTANTS Requests,       \* numbers, in the order in which requests arrive
          Asks,           \* what may be asked: [pool, slot, prio, parent, ...]
          NoSlot,
          Capacity,       \* places of a pool
          NoSource, SourceOf, SourceCapacity  \* the account of a pool, its bound

VARIABLES stage,  \* [Requests -> "absent", "waiting", "granted", "sheltered" (under
                  \* the grant of its parent), "held" (nobody knows by whom), "over"]
          ask     \* [Requests -> Asks]

queueVars == <<stage, ask>>

\* The places taken in a pool, and what draws on its account.
Taken(s, p) == {r \in Requests : s[r] \in {"granted", "held"} /\ ask[r].pool = p}
Drawing(s, p) ==
    {r \in Requests : /\ s[r] \in {"granted", "sheltered", "held"}
                      /\ SourceOf[ask[r].pool] = SourceOf[p]}

Covered(s, p) == SourceOf[p] # NoSource =>
                     Cardinality(Drawing(s, p)) < SourceCapacity[SourceOf[p]]

Fits(s, a) ==
    /\ Cardinality(Taken(s, a.pool)) < Capacity[a.pool]
    /\ Covered(s, a.pool)
    /\ a.slot # NoSlot => \A r \in Taken(s, a.pool) : ask[r].slot # a.slot

\* Who could be granted, and who of them is first in the line of its pool.
Fitting(s) == {r \in Requests : s[r] = "waiting" /\ Fits(s, ask[r])}

Before(r, x) == \/ ask[r].prio > ask[x].prio
                \/ ask[r].prio = ask[x].prio /\ r < x

Heads(s) == {r \in Fitting(s) : \A x \in Fitting(s) :
                 ask[x].pool = ask[r].pool /\ x # r => Before(r, x)}

Serve(s) ==
    IF Fitting(s) = {} THEN stage' = s
    ELSE \E r \in Heads(s) : stage' = [s EXCEPT ![r] = "granted"]

----------------------------------------------------------------------------

QueueInit ==
    /\ stage = [r \in Requests |-> "absent"]
    /\ ask \in [Requests -> Asks]

\* A place under the grant of l is for one, in the same pool.
Shelters(l, a) ==
    /\ l \in Requests /\ stage[l] = "granted" /\ ask[l].pool = a.pool
    /\ \A c \in Requests : stage[c] = "sheltered" => ask[c].parent # l

\* r is the next to ask.
IsNext(r) == stage[r] = "absent" /\ \A x \in Requests : x < r => stage[x] # "absent"

\* One more asks.  It is granted at once only if it fits and passes nobody, and
\* waits only if it does not fit.  What an account finds running without having
\* granted it is held.
Arrive(r, a, s) ==
    /\ \/ s = "granted" /\ Fits(stage, a) /\ Fitting(stage) = {}
       \/ s = "waiting" /\ ~Fits(stage, a)
       \/ s = "sheltered" /\ Shelters(a.parent, a) /\ Covered(stage, a.pool)
       \/ s = "held" /\ SourceOf[a.pool] # NoSource
       \/ s = "over"
    /\ ask' = [ask EXCEPT ![r] = a]
    /\ stage' = [stage EXCEPT ![r] = s]

\* One leaves, perhaps with the waiters of the same attempt, and nobody leaves
\* before those it shelters; the place is served at once.
Leave(gone) ==
    /\ gone # {}
    /\ \A r \in gone : stage[r] \in {"waiting", "granted", "sheltered", "held"}
    /\ \A r, x \in gone : stage[r] # "waiting" /\ stage[x] # "waiting" => r = x
    /\ \A c \in Requests : stage[c] = "sheltered" => ask[c].parent \notin gone
    /\ Serve([r \in Requests |-> IF r \in gone THEN "over" ELSE stage[r]])
    /\ UNCHANGED ask

\* The trace of some is lost: they keep their places, and on an account one that
\* was over may turn out not to be.
Hold(lost) ==
    /\ \A r \in lost : \/ stage[r] \in {"granted", "sheltered"}
                       \/ stage[r] = "over" /\ SourceOf[ask[r].pool] # NoSource
    /\ stage' = [r \in Requests |-> IF r \in lost THEN "held" ELSE stage[r]]
    /\ UNCHANGED ask

Stages == {"granted", "waiting", "sheltered", "held", "over"}

QueueNext ==
    \/ \E r \in Requests : IsNext(r) /\ \E a \in Asks, s \in Stages : Arrive(r, a, s)
    \/ \E rs \in SUBSET Requests : Leave(rs) \/ Hold(rs)

QueueSpec == QueueInit /\ [][QueueNext]_queueVars
=============================================================================
