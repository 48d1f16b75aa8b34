-------------------------- MODULE WorkItemsProofs --------------------------
(***************************************************************************)
(* What holds of WorkItems for every queue: any clients, items and number  *)
(* of claims that QueueAssumption admits.                                  *)
(***************************************************************************)
EXTENDS WorkItems, TLAPS

Label == {"idle", "insert", "grant", "authority", "claim", "lease", "check",
          "write", "rows"}

----------------------------------------------------------------------------
(* The inductive invariant                                                 *)

\* A claim is saved for an item; an attempt that a client is still claiming has
\* a claim and its claimant was not answered yet, and no two clients claim the
\* same one; a reconcile claims nothing.
CallOK(c) ==
    /\ call[c].at \in {"authority", "claim"} => call[c].item \in Item
    /\ call[c].attempt # None =>
          /\ call[c].at \in {"lease", "check", "write"}
          /\ itemOf[call[c].attempt] # None
          /\ call[c].attempt \notin told
          /\ call[c].rows = {}
    /\ call[c].rows # {} => call[c].at \in {"rows", "write"}

CallsOK ==
    /\ \A c \in Client : CallOK(c)
    /\ \A c, d \in Client :
        call[c].attempt # None /\ call[c].attempt = call[d].attempt => c = d

\* Attempts are claimed in order, so that generations stay below the bound, and
\* the current claim of an item is one of its own.
ClaimsInOrder ==
    /\ \A a, b \in Attempt : itemOf[a] # None /\ b < a => itemOf[b] # None
    /\ \A a \in Attempt : itemOf[a] # None => token[a] <= a
    /\ \A w \in Item :
        IF owner[w] = None THEN gen[w] = 0
        ELSE itemOf[owner[w]] = w /\ token[owner[w]] = gen[w]

\* Only answered attempts are revoked, and a revoked one has no lease; no write
\* was accepted from beyond the current claim.
WorkersOK ==
    /\ \A a \in told : itemOf[a] # None
    /\ \A a \in unknown : a \in told /\ lease[a] = "NONE"
    /\ \A w \in Item : written[w] <= gen[w]

Inv == TypeOK /\ CallsOK /\ ClaimsInOrder /\ CurrentClaimIsNewest /\ WorkersOK

----------------------------------------------------------------------------
(* Calls                                                                   *)

LEMMA IdleIsCall == Idle \in Call
BY DEF Idle, Call, ItemState

\* What the handlers do with their own call keeps its type.
LEMMA CallTypes ==
    ASSUME TypeOK, NEW c \in Client
    PROVE  /\ \A l \in Label : Continue(c, l) => call' \in [Client -> Call]
           /\ \A l \in Label, w \in Item : Begin(c, l, w) => call' \in [Client -> Call]
           /\ Return(c) => call' \in [Client -> Call]
           /\ \A t \in ItemState : AskFor(c, t) => call' \in [Client -> Call]
<1> USE DEF Call, Label
<1>0. call \in [Client -> Call]
  BY DEF TypeOK
<1>1. ASSUME NEW l \in Label, Continue(c, l) PROVE call' \in [Client -> Call]
  BY <1>0, <1>1 DEF Continue
<1>2. ASSUME NEW l \in Label, NEW w \in Item, Begin(c, l, w) PROVE call' \in [Client -> Call]
  <2>1. [Idle EXCEPT !.at = l, !.item = w] \in Call
    BY IdleIsCall
  <2> QED
    BY <1>0, <1>2, <2>1 DEF Begin
<1>3. ASSUME Return(c) PROVE call' \in [Client -> Call]
  BY <1>0, <1>3, IdleIsCall DEF Return
<1>4. ASSUME NEW t \in ItemState, AskFor(c, t) PROVE call' \in [Client -> Call]
  BY <1>0, <1>4 DEF AskFor
<1> QED
  BY <1>1, <1>2, <1>3, <1>4

----------------------------------------------------------------------------
(* Type correctness.  The one number that could grow beyond its bound is a  *)
(* generation, and the order of the attempts bounds it.                     *)

\* The next attempt to be claimed is beyond every generation.
LEMMA GenerationBelowNext ==
    ASSUME TypeOK, ClaimsInOrder, NEW w \in Item, NEW a \in Attempt, itemOf[a] = None,
           \A b \in Attempt : b < a => itemOf[b] # None
    PROVE  gen[w] \in Nat /\ gen[w] + 1 \in 1 .. a
<1>1. gen[w] \in Nat
  BY QueueAssumption DEF TypeOK
<1>2. \A b \in Attempt : b \in Nat /\ b >= 1
  BY QueueAssumption DEF Attempt
<1>3. CASE owner[w] = None
  BY <1>1, <1>2, <1>3 DEF ClaimsInOrder
<1>4. CASE owner[w] # None
  <2>1. owner[w] \in Attempt
    BY <1>4 DEF TypeOK
  <2>2. itemOf[owner[w]] = w /\ token[owner[w]] = gen[w] /\ itemOf[owner[w]] # None
    BY <1>4, QueueAssumption DEF ClaimsInOrder
  <2>3. gen[w] <= owner[w] /\ ~(a < owner[w]) /\ a # owner[w]
    BY <2>1, <2>2 DEF ClaimsInOrder
  <2> QED
    BY <1>1, <1>2, <2>1, <2>3
<1> QED
  BY <1>3, <1>4

\* What save_claim does, with the types that its names imply.
LEMMA NewToken ==
    ASSUME TypeOK, CallsOK, ClaimsInOrder, NEW c \in Client, SaveClaim(c)
    PROVE  \E a \in Attempt :
              LET w == call[c].item IN
              /\ w \in Item
              /\ itemOf[a] = None
              /\ \A b \in Attempt : itemOf[b] # None <=> b < a
              /\ gen[w] + 1 \in 1 .. a
              /\ itemOf' = [itemOf EXCEPT ![a] = w]
              /\ token' = [token EXCEPT ![a] = gen[w] + 1]
              /\ gen' = [gen EXCEPT ![w] = gen[w] + 1]
              /\ owner' = [owner EXCEPT ![w] = a]
              /\ call' = [call EXCEPT ![c].at = "lease", ![c].attempt = a]
<1>1. PICK a \in Attempt :
        /\ itemOf[a] = None
        /\ \A b \in Attempt : b < a => itemOf[b] # None
        /\ itemOf' = [itemOf EXCEPT ![a] = call[c].item]
        /\ token' = [token EXCEPT ![a] = gen[call[c].item] + 1]
        /\ gen' = [gen EXCEPT ![call[c].item] = token'[a]]
        /\ owner' = [owner EXCEPT ![call[c].item] = a]
        /\ call' = [call EXCEPT ![c].at = "lease", ![c].attempt = a]
  BY DEF SaveClaim
<1> DEFINE w == call[c].item
<1>2. w \in Item
  BY DEF SaveClaim, At, CallsOK, CallOK
<1>3. a \in Int /\ \A b \in Attempt : b \in Int
  BY DEF Attempt
<1>4. \A b \in Attempt : itemOf[b] # None <=> b < a
  BY <1>1, <1>3 DEF ClaimsInOrder
<1>5. gen[w] \in Nat /\ gen[w] + 1 \in 1 .. a
  BY <1>1, <1>2, GenerationBelowNext
<1>6. token'[a] = gen[w] + 1
  BY <1>1 DEF TypeOK
<1> QED
  BY <1>1, <1>2, <1>4, <1>5, <1>6
\* A pending call names a state and an attempt of the right kind.
LEMMA CallFields ==
    ASSUME TypeOK, NEW c \in Client
    PROVE  /\ call[c].target \in ItemState
           /\ call[c].item \in Item \cup {None}
           /\ call[c].attempt \in Attempt \cup {None}
           /\ call[c].rows \in SUBSET Attempt
BY DEF TypeOK, Call

LEMMA TypesStep ==
    ASSUME TypeOK, CallsOK, ClaimsInOrder, [Next]_vars
    PROVE  TypeOK'
<1> USE DEF TypeOK, Label
<1>1. ASSUME NEW c \in Client, NEW w \in Item, Enqueue(c, w) PROVE TypeOK'
  BY <1>1, CallTypes DEF Enqueue, claimVars, workerVars
<1>2. ASSUME NEW c \in Client, NEW w \in Item, Authorize(c, w) PROVE TypeOK'
  <2> DEFINE seen == state[w] \in {"QUEUED", "HOLD"}
  <2>1. seen \in BOOLEAN
    OBVIOUS
  <2>2. call' = [call EXCEPT ![c] = [Idle EXCEPT !.at = "grant", !.item = w, !.seen = seen]]
    BY <1>2 DEF Authorize
  <2> HIDE DEF seen
  <2>3. [Idle EXCEPT !.at = "grant", !.item = w, !.seen = seen] \in Call
    BY <2>1, IdleIsCall DEF Call
  <2>4. call' \in [Client -> Call]
    BY <2>2, <2>3
  <2> QED
    BY <1>2, <2>4 DEF Authorize, claimVars, workerVars
<1>3. ASSUME NEW c \in Client, NEW w \in Item, Claim(c, w) PROVE TypeOK'
  BY <1>3, CallTypes DEF Claim, claimVars, workerVars
<1>4. ASSUME NEW c \in Client, NEW w \in Item, Cancel(c, w) PROVE TypeOK'
  <2>1. [Idle EXCEPT !.at = "check", !.item = w, !.target = "CANCELLED"] \in Call
    BY IdleIsCall DEF Call, ItemState
  <2> QED
    BY <1>4, <2>1 DEF Cancel, claimVars, workerVars
<1>5. ASSUME NEW c \in Client, NEW w \in Item, NEW t \in AdapterMove, Adapter(c, w, t) PROVE TypeOK'
  <2>1. [Idle EXCEPT !.at = "check", !.item = w, !.target = t] \in Call
    BY IdleIsCall DEF Call, ItemState, AdapterMove
  <2> QED
    BY <1>5, <2>1 DEF Adapter, claimVars, workerVars
<1>6. ASSUME NEW c \in Client, Reconcile(c) PROVE TypeOK'
  <2> DEFINE rows == {a \in Attempt : lease[a] = "EXPIRED" /\ state[itemOf[a]] \in Executing}
  <2>1. [Idle EXCEPT !.at = "rows", !.rows = rows] \in Call
    BY IdleIsCall DEF Call
  <2>2. call' = [call EXCEPT ![c] = [Idle EXCEPT !.at = "rows", !.rows = rows]]
    BY <1>6 DEF Reconcile
  <2>3. UNCHANGED <<state, authority, claimVars, workerVars>>
    BY <1>6 DEF Reconcile
  <2> HIDE DEF rows
  <2> QED
    BY <2>1, <2>2, <2>3 DEF claimVars, workerVars
<1>7. ASSUME NEW c \in Client, InsertItem(c) PROVE TypeOK'
  <2>1. call' \in [Client -> Call]
    BY <1>7, CallTypes DEF InsertItem, ItemState
  <2>2. state' \in [Item -> ItemState]
    BY <1>7 DEF InsertItem, ItemState
  <2> QED
    BY <1>7, <2>1, <2>2 DEF InsertItem, claimVars, workerVars
<1>8. ASSUME NEW c \in Client, SaveAuthorization(c) PROVE TypeOK'
  <2>1. call' \in [Client -> Call]
    BY <1>8, CallTypes DEF SaveAuthorization, ItemState
  <2> QED
    BY <1>8, <2>1 DEF SaveAuthorization, claimVars, workerVars
<1>9. ASSUME NEW c \in Client, CheckAuthority(c) PROVE TypeOK'
  <2>1. call' \in [Client -> Call]
    BY <1>9, CallTypes DEF CheckAuthority, ItemState
  <2> QED
    BY <1>9, <2>1 DEF CheckAuthority, claimVars, workerVars
<1>10. ASSUME NEW c \in Client, SaveClaim(c) PROVE TypeOK'
  <2>1. PICK a \in Attempt :
          LET w == call[c].item IN
          /\ w \in Item
          /\ gen[w] + 1 \in 1 .. a
          /\ itemOf' = [itemOf EXCEPT ![a] = w]
          /\ token' = [token EXCEPT ![a] = gen[w] + 1]
          /\ gen' = [gen EXCEPT ![w] = gen[w] + 1]
          /\ owner' = [owner EXCEPT ![w] = a]
          /\ call' = [call EXCEPT ![c].at = "lease", ![c].attempt = a]
    BY <1>10, NewToken
  <2>2. gen[call[c].item] + 1 \in 0 .. MaxAttempts
    BY <2>1, QueueAssumption DEF Attempt
  <2>3. [call[c] EXCEPT !.at = "lease", !.attempt = a] \in Call
    BY DEF Call
  <2>4. call' = [call EXCEPT ![c] = [call[c] EXCEPT !.at = "lease", !.attempt = a]]
    BY <2>1
  <2>5. call' \in [Client -> Call]
    BY <2>3, <2>4
  <2>6. gen' \in [Item -> 0 .. MaxAttempts] /\ token' \in [Attempt -> 0 .. MaxAttempts]
    BY <2>1, <2>2
  <2>7. itemOf' \in [Attempt -> Item \cup {None}] /\ owner' \in [Item -> Attempt \cup {None}]
    BY <2>1
  <2> QED
    BY <1>10, <2>5, <2>6, <2>7 DEF SaveClaim, workerVars
<1>11. ASSUME NEW c \in Client, SaveLease(c) PROVE TypeOK'
  <2>1. call' \in [Client -> Call]
    BY <1>11, CallTypes DEF SaveLease, ItemState
  <2> QED
    BY <1>11, <2>1 DEF SaveLease, claimVars
<1>12. ASSUME NEW c \in Client, ReconcileRow(c) PROVE TypeOK'
  <2>1. PICK a \in call[c].rows :
          \/ call' = [call EXCEPT ![c].at = "write", ![c].item = itemOf[a],
                                  ![c].target = "RECOVERY_REQUIRED", ![c].rows = @ \ {a}]
          \/ Return(c)
    BY <1>12 DEF ReconcileRow
  <2>2. a \in Attempt
    BY CallFields
  <2>3. [call[c] EXCEPT !.at = "write", !.item = itemOf[a],
                        !.target = "RECOVERY_REQUIRED", !.rows = call[c].rows \ {a}] \in Call
    <3>1. itemOf[a] \in Item \cup {None} /\ call[c].rows \ {a} \in SUBSET Attempt
      BY <2>2, CallFields
    <3>2. call[c] \in Call
      OBVIOUS
    <3> QED
      BY <3>1, <3>2 DEF Call, ItemState
  <2>4. call' \in [Client -> Call]
    BY <2>1, <2>3, CallTypes
  <2> QED
    BY <1>12, <2>4 DEF ReconcileRow, claimVars, workerVars
<1>13. ASSUME NEW c \in Client, CheckTransition(c) PROVE TypeOK'
  <2>1. call' \in [Client -> Call]
    BY <1>13, CallTypes DEF CheckTransition
  <2> QED
    BY <1>13, <2>1 DEF CheckTransition, claimVars, workerVars
<1>14. ASSUME NEW c \in Client, WriteTransition(c) PROVE TypeOK'
  <2>1. call' \in [Client -> Call]
    BY <1>14, CallTypes DEF WriteTransition
  <2>2. state' \in [Item -> ItemState] /\ told' \subseteq Attempt
    BY <1>14, CallFields DEF WriteTransition
  <2> QED
    BY <1>14, <2>1, <2>2 DEF WriteTransition, claimVars
<1>15. ASSUME NEW c \in Client, Crash(c) PROVE TypeOK'
  BY <1>15, CallTypes DEF Crash, claimVars, workerVars
<1>16. ASSUME NEW a \in Attempt, Heartbeat(a) PROVE TypeOK'
  BY <1>16 DEF Heartbeat, Accept, claimVars
<1>17. ASSUME NEW a \in Attempt, Checkpoint(a) PROVE TypeOK'
  BY <1>17 DEF Checkpoint, Accept, claimVars
<1>18. ASSUME NEW a \in Attempt, Complete(a) PROVE TypeOK'
  BY <1>18 DEF Complete, Accept, claimVars, ItemState
<1>19. ASSUME NEW a \in Attempt, Reap(a) PROVE TypeOK'
  BY <1>19 DEF Reap, claimVars, ItemState
<1>20. ASSUME NEW a \in Attempt, LeaseExpires(a) PROVE TypeOK'
  BY <1>20 DEF LeaseExpires, claimVars
<1>21. ASSUME NEW w \in Item, AuthorizationLapses(w) PROVE TypeOK'
  BY <1>21 DEF AuthorizationLapses, claimVars, workerVars
<1>22. ASSUME UNCHANGED vars PROVE TypeOK'
  BY <1>22 DEF vars, claimVars, workerVars
<1> QED
  BY <1>1, <1>2, <1>3, <1>4, <1>5, <1>6, <1>7, <1>8, <1>9, <1>10, <1>11, <1>12,
     <1>13, <1>14, <1>15, <1>16, <1>17, <1>18, <1>19, <1>20, <1>21, <1>22
  DEF Next, Command, Proceed, Worker
----------------------------------------------------------------------------
(* Calls, claims and workers                                               *)

\* A handler's step that claims nothing and answers nobody.
LEMMA CallsKept ==
    ASSUME TypeOK, CallsOK, NEW c \in Client,
           \A d \in Client : d # c => call'[d] = call[d],
           UNCHANGED <<itemOf, told>>,
           CallOK(c)', call'[c].attempt \in {None, call[c].attempt}
    PROVE  CallsOK'
<1>1. ASSUME NEW d \in Client PROVE CallOK(d)'
  <2>1. CASE d # c
    BY <2>1 DEF CallsOK, CallOK
  <2> QED
    BY <2>1
<1>2. ASSUME NEW d \in Client, NEW e \in Client,
             call'[d].attempt # None, call'[d].attempt = call'[e].attempt
      PROVE  d = e
  <2>1. call'[d].attempt = call[d].attempt /\ call'[e].attempt = call[e].attempt
    BY <1>2
  <2> QED
    BY <1>2, <2>1 DEF CallsOK
<1> QED
  BY <1>1, <1>2 DEF CallsOK

\* The same, for the steps by which a handler goes on, asks for a transition,
\* begins or returns.
LEMMA CallSteps ==
    ASSUME TypeOK, CallsOK, NEW c \in Client, UNCHANGED <<itemOf, told>>
    PROVE  /\ \A l \in {"insert", "grant", "authority", "claim", "check"}, w \in Item :
                Begin(c, l, w) => CallsOK'
           /\ Return(c) => CallsOK'
           /\ At(c, "authority") /\ Continue(c, "claim") => CallsOK'
           /\ At(c, "check") /\ Continue(c, "write") => CallsOK'
           /\ \A t \in ItemState :
                ~At(c, "rows") /\ ~At(c, "write") /\ AskFor(c, t) => CallsOK'
<1>0. call \in [Client -> Call] /\ CallOK(c)
  BY DEF TypeOK, CallsOK
<1>1. ASSUME NEW l \in {"insert", "grant", "authority", "claim", "check"}, NEW w \in Item,
             Begin(c, l, w)
      PROVE  CallsOK'
  <2>1. call' = [call EXCEPT ![c] = [Idle EXCEPT !.at = l, !.item = w]]
    BY <1>1 DEF Begin
  <2>2. call'[c] = [Idle EXCEPT !.at = l, !.item = w]
    BY <1>0, <2>1
  <2>3. /\ call'[c].at = l /\ call'[c].item = w
        /\ call'[c].attempt = None /\ call'[c].rows = {}
    BY <2>2 DEF Idle
  <2>4. CallOK(c)'
    BY <2>3 DEF CallOK
  <2> QED
    BY <1>0, <2>1, <2>3, <2>4, CallsKept
<1>2. ASSUME Return(c) PROVE CallsOK'
  <2>1. call'[c] = Idle /\ \A d \in Client : d # c => call'[d] = call[d]
    BY <1>0, <1>2 DEF Return
  <2>2. CallOK(c)' /\ call'[c].attempt = None
    BY <2>1 DEF CallOK, Idle
  <2> QED
    BY <2>1, <2>2, CallsKept
<1>3. ASSUME At(c, "authority"), Continue(c, "claim") PROVE CallsOK'
  <2>1. /\ call'[c].at = "claim" /\ call'[c].item = call[c].item
        /\ call'[c].attempt = call[c].attempt /\ call'[c].rows = call[c].rows
        /\ \A d \in Client : d # c => call'[d] = call[d]
    BY <1>0, <1>3 DEF Continue, Call
  <2>2. CallOK(c)'
    BY <1>0, <1>3, <2>1 DEF CallOK, At
  <2> QED
    BY <2>1, <2>2, CallsKept
<1>4. ASSUME At(c, "check"), Continue(c, "write") PROVE CallsOK'
  <2>1. /\ call'[c].at = "write"
        /\ call'[c].attempt = call[c].attempt /\ call'[c].rows = call[c].rows
        /\ \A d \in Client : d # c => call'[d] = call[d]
    BY <1>0, <1>4 DEF Continue, Call
  <2>2. CallOK(c)'
    BY <1>0, <1>4, <2>1 DEF CallOK, At
  <2> QED
    BY <2>1, <2>2, CallsKept
<1>5. ASSUME NEW t \in ItemState, ~At(c, "rows"), ~At(c, "write"), AskFor(c, t)
      PROVE  CallsOK'
  <2>1. /\ call'[c].at = "check"
        /\ call'[c].attempt = call[c].attempt /\ call'[c].rows = call[c].rows
        /\ \A d \in Client : d # c => call'[d] = call[d]
    BY <1>0, <1>5 DEF AskFor, Call
  <2>2. CallOK(c)'
    BY <1>0, <1>5, <2>1 DEF CallOK, At
  <2> QED
    BY <2>1, <2>2, CallsKept
<1> QED
  BY <1>1, <1>2, <1>3, <1>4, <1>5
\* A call begun for a command of one item, with what it has read so far.
LEMMA FreshCall ==
    ASSUME TypeOK, CallsOK, NEW c \in Client, UNCHANGED <<itemOf, told>>,
           NEW k \in Call, call' = [call EXCEPT ![c] = k], k.attempt = None,
           k.at \notin {"authority", "claim"}, k.rows # {} => k.at = "rows"
    PROVE  CallsOK'
<1>1. call'[c] = k /\ \A d \in Client : d # c => call'[d] = call[d]
  BY DEF TypeOK
<1>2. CallOK(c)'
  BY <1>1 DEF CallOK
<1> QED
  BY <1>1, <1>2, CallsKept

LEMMA CallsStep ==
    ASSUME TypeOK, CallsOK, ClaimsInOrder, WorkersOK, [Next]_vars
    PROVE  CallsOK'
<1> USE DEF claimVars, workerVars
<1>0. call \in [Client -> Call]
  BY DEF TypeOK
<1>1. ASSUME NEW c \in Client, NEW w \in Item, Enqueue(c, w) PROVE CallsOK'
  BY <1>1, CallSteps DEF Enqueue
<1>2. ASSUME NEW c \in Client, NEW w \in Item, Authorize(c, w) PROVE CallsOK'
  <2> DEFINE seen == state[w] \in {"QUEUED", "HOLD"}
             k == [Idle EXCEPT !.at = "grant", !.item = w, !.seen = seen]
  <2>1. seen \in BOOLEAN
    OBVIOUS
  <2>2. call' = [call EXCEPT ![c] = k] /\ UNCHANGED <<itemOf, told>>
    BY <1>2 DEF Authorize
  <2> HIDE DEF seen
  <2>3. k \in Call
    BY <2>1, IdleIsCall DEF Call
  <2>4. k.attempt = None /\ k.at = "grant" /\ k.rows = {}
    BY DEF Idle
  <2> HIDE DEF k
  <2> QED
    BY <2>2, <2>3, <2>4, FreshCall
<1>3. ASSUME NEW c \in Client, NEW w \in Item, Claim(c, w) PROVE CallsOK'
  BY <1>3, CallSteps DEF Claim
<1>4. ASSUME NEW c \in Client, NEW w \in Item, NEW t \in ItemState, UNCHANGED <<itemOf, told>>,
             call' = [call EXCEPT ![c] = [Idle EXCEPT !.at = "check", !.item = w, !.target = t]]
      PROVE  CallsOK'
  <2> DEFINE k == [Idle EXCEPT !.at = "check", !.item = w, !.target = t]
  <2>1. k \in Call
    BY IdleIsCall DEF Call
  <2>2. k.attempt = None /\ k.at = "check" /\ k.rows = {}
    BY DEF Idle
  <2>3. call' = [call EXCEPT ![c] = k]
    BY <1>4
  <2> HIDE DEF k
  <2> QED
    BY <1>4, <2>1, <2>2, <2>3, FreshCall
<1>5. ASSUME NEW c \in Client, NEW w \in Item,
             Cancel(c, w) \/ \E t \in AdapterMove : Adapter(c, w, t)
      PROVE  CallsOK'
  BY <1>4, <1>5 DEF Cancel, Adapter, AdapterMove, ItemState
<1>6. ASSUME NEW c \in Client, Reconcile(c) PROVE CallsOK'
  <2> DEFINE rows == {a \in Attempt : lease[a] = "EXPIRED" /\ state[itemOf[a]] \in Executing}
             k == [Idle EXCEPT !.at = "rows", !.rows = rows]
  <2>1. rows \in SUBSET Attempt
    OBVIOUS
  <2>2. call' = [call EXCEPT ![c] = k] /\ UNCHANGED <<itemOf, told>>
    BY <1>6 DEF Reconcile
  <2> HIDE DEF rows
  <2>3. k \in Call
    BY <2>1, IdleIsCall DEF Call
  <2>4. k.attempt = None /\ k.at = "rows"
    BY DEF Idle
  <2> HIDE DEF k
  <2> QED
    BY <2>2, <2>3, <2>4, FreshCall
<1>7. ASSUME NEW c \in Client, InsertItem(c) PROVE CallsOK'
  BY <1>7, CallSteps DEF InsertItem, At, ItemState
<1>8. ASSUME NEW c \in Client, SaveAuthorization(c) PROVE CallsOK'
  BY <1>8, CallSteps DEF SaveAuthorization, At, ItemState
<1>9. ASSUME NEW c \in Client, CheckAuthority(c) PROVE CallsOK'
  BY <1>9, CallSteps DEF CheckAuthority, At, ItemState
<1>10. ASSUME NEW c \in Client, SaveClaim(c) PROVE CallsOK'
  <2>1. PICK a \in Attempt :
          /\ itemOf[a] = None
          /\ call[c].item \in Item
          /\ itemOf' = [itemOf EXCEPT ![a] = call[c].item]
          /\ call' = [call EXCEPT ![c].at = "lease", ![c].attempt = a]
    BY <1>10, NewToken
  <2>2. /\ call'[c].at = "lease" /\ call'[c].attempt = a /\ call'[c].rows = call[c].rows
        /\ \A d \in Client : d # c => call'[d] = call[d]
    BY <1>0, <2>1 DEF Call
  <2>3. call[c].rows = {}
    BY <1>10 DEF SaveClaim, At, CallsOK, CallOK
  <2>4. told' = told /\ a # None /\ call[c].item # None
    BY <1>10, <2>1, QueueAssumption DEF SaveClaim, Attempt, None
  <2>5. \A x \in Attempt : itemOf[x] # None => itemOf'[x] # None /\ x # a
    BY <2>1 DEF TypeOK
  <2>6. itemOf'[a] # None
    BY <2>1, <2>4 DEF TypeOK
  <2>7. \A d \in Client : d # c => CallOK(d)'
    <3> SUFFICES ASSUME NEW d \in Client, d # c PROVE CallOK(d)'
      OBVIOUS
    <3>1. CallOK(d) /\ call'[d] = call[d]
      BY <2>2 DEF CallsOK
    <3>2. call[d].attempt \in Attempt \cup {None}
      BY CallFields
    <3> QED
      BY <2>4, <2>5, <3>1, <3>2 DEF CallOK
  <2>8. a \notin told
    BY <2>1 DEF WorkersOK
  <2>9. CallOK(c)'
    BY <2>2, <2>3, <2>4, <2>6, <2>8 DEF CallOK
  <2>10. ASSUME NEW d \in Client, NEW e \in Client,
                call'[d].attempt # None, call'[d].attempt = call'[e].attempt
         PROVE  d = e
    <3>1. \A x \in Client : x # c => call'[x].attempt # a
      <4> SUFFICES ASSUME NEW x \in Client, x # c, call'[x].attempt = a PROVE FALSE
        OBVIOUS
      <4>1. call[x].attempt = a
        BY <2>2
      <4>2. itemOf[a] # None
        BY <2>4, <4>1 DEF CallsOK, CallOK
      <4> QED
        BY <2>1, <4>2
    <3>2. CASE d # c /\ e # c
      BY <2>2, <2>10, <3>2 DEF CallsOK
    <3> QED
      BY <2>2, <2>10, <3>1, <3>2
  <2> QED
    BY <2>7, <2>9, <2>10 DEF CallsOK
<1>11. ASSUME NEW c \in Client, SaveLease(c) PROVE CallsOK'
  BY <1>11, CallSteps DEF SaveLease, At, ItemState
<1>12. ASSUME NEW c \in Client, ReconcileRow(c) PROVE CallsOK'
  <2>1. PICK a \in call[c].rows :
          \/ call' = [call EXCEPT ![c].at = "write", ![c].item = itemOf[a],
                                  ![c].target = "RECOVERY_REQUIRED", ![c].rows = @ \ {a}]
          \/ Return(c)
    BY <1>12 DEF ReconcileRow
  <2>2. UNCHANGED <<itemOf, told>> /\ call[c].at = "rows"
    BY <1>12 DEF ReconcileRow, At
  <2>3. CASE Return(c)
    BY <2>2, <2>3, CallSteps
  <2>4. CASE call' = [call EXCEPT ![c].at = "write", ![c].item = itemOf[a],
                                 ![c].target = "RECOVERY_REQUIRED", ![c].rows = @ \ {a}]
    <3>1. call[c].attempt = None
      BY <2>2 DEF CallsOK, CallOK
    <3>2. /\ call'[c].at = "write" /\ call'[c].attempt = call[c].attempt
          /\ \A d \in Client : d # c => call'[d] = call[d]
      BY <1>0, <2>4 DEF Call
    <3>3. CallOK(c)'
      BY <3>1, <3>2 DEF CallOK
    <3> QED
      BY <2>2, <3>2, <3>3, CallsKept
  <2> QED
    BY <2>1, <2>3, <2>4
<1>13. ASSUME NEW c \in Client, CheckTransition(c) PROVE CallsOK'
  BY <1>13, CallSteps DEF CheckTransition
<1>14. ASSUME NEW c \in Client, WriteTransition(c) PROVE CallsOK'
  <2>1. itemOf' = itemOf /\ call[c].at = "write"
    BY <1>14 DEF WriteTransition, At
  <2>2. CASE call[c].attempt = None
    <3>1. told' = told
      BY <1>14, <2>2 DEF WriteTransition
    <3>2. CASE call[c].rows = {}
      BY <1>14, <2>1, <3>1, <3>2, CallSteps DEF WriteTransition
    <3>3. CASE call[c].rows # {}
      <4>1. Continue(c, "rows")
        BY <1>14, <3>3 DEF WriteTransition
      <4>2. /\ call'[c].at = "rows" /\ call'[c].attempt = call[c].attempt
            /\ \A d \in Client : d # c => call'[d] = call[d]
        BY <1>0, <4>1 DEF Continue, Call
      <4>3. CallOK(c)'
        BY <2>2, <4>2 DEF CallOK
      <4> QED
        BY <2>1, <3>1, <4>2, <4>3, CallsKept
    <3> QED
      BY <3>2, <3>3
  <2>3. CASE call[c].attempt # None
    <3>1. call[c].rows = {} /\ told' = told \cup {call[c].attempt}
      BY <1>14, <2>3 DEF WriteTransition, CallsOK, CallOK
    <3>2. call'[c] = Idle /\ \A d \in Client : d # c => call'[d] = call[d]
      BY <1>0, <1>14, <3>1 DEF WriteTransition, Return
    <3>3. ASSUME NEW d \in Client, d # c PROVE CallOK(d)'
      <4>1. CallOK(d) /\ call'[d] = call[d]
        BY <3>2, <3>3 DEF CallsOK
      <4>2. call[d].attempt # None => call[d].attempt # call[c].attempt
        BY <3>3 DEF CallsOK
      <4> QED
        BY <2>1, <3>1, <4>1, <4>2 DEF CallOK
    <3>4. CallOK(c)' /\ call'[c].attempt = None
      BY <3>2 DEF CallOK, Idle
    <3>5. ASSUME NEW d \in Client, NEW e \in Client,
                 call'[d].attempt # None, call'[d].attempt = call'[e].attempt
          PROVE  d = e
      BY <3>2, <3>4, <3>5 DEF CallsOK
    <3> QED
      BY <3>3, <3>4, <3>5 DEF CallsOK
  <2> QED
    BY <2>2, <2>3
<1>15. ASSUME NEW c \in Client, Crash(c) PROVE CallsOK'
  BY <1>15, CallSteps DEF Crash
<1>16. ASSUME UNCHANGED <<call, itemOf, told>> PROVE CallsOK'
  BY <1>16 DEF CallsOK, CallOK
<1>17. ASSUME NEW a \in Attempt, Worker(a) \/ LeaseExpires(a) PROVE CallsOK'
  BY <1>16, <1>17 DEF Worker, Heartbeat, Checkpoint, Complete, Reap, LeaseExpires
<1>18. ASSUME NEW w \in Item, AuthorizationLapses(w) PROVE CallsOK'
  BY <1>16, <1>18 DEF AuthorizationLapses
<1>19. ASSUME UNCHANGED vars PROVE CallsOK'
  BY <1>16, <1>19 DEF vars
<1> QED
  BY <1>1, <1>2, <1>3, <1>5, <1>6, <1>7, <1>8, <1>9, <1>10, <1>11, <1>12,
     <1>13, <1>14, <1>15, <1>17, <1>18, <1>19
  DEF Next, Command, Proceed
\* Only save_claim touches the claims.
LEMMA ClaimSteps ==
    ASSUME [Next]_vars
    PROVE  UNCHANGED claimVars \/ \E c \in Client : SaveClaim(c)
<1>1. ASSUME NEW c \in Client, Command(c) PROVE UNCHANGED claimVars
  BY <1>1 DEF Command, Enqueue, Authorize, Claim, Cancel, Adapter, Reconcile
<1>2. ASSUME NEW c \in Client, Proceed(c) PROVE UNCHANGED claimVars \/ SaveClaim(c)
  BY <1>2 DEF Proceed, InsertItem, SaveAuthorization, CheckAuthority, SaveLease,
              ReconcileRow, CheckTransition, WriteTransition
<1>3. ASSUME NEW a \in Attempt, Worker(a) PROVE UNCHANGED claimVars
  BY <1>3 DEF Worker, Heartbeat, Checkpoint, Complete, Reap
<1> QED
  BY <1>1, <1>2, <1>3 DEF Next, Crash, LeaseExpires, AuthorizationLapses, vars

LEMMA ClaimsStep ==
    ASSUME TypeOK, CallsOK, ClaimsInOrder, CurrentClaimIsNewest, [Next]_vars
    PROVE  ClaimsInOrder' /\ CurrentClaimIsNewest'
<1>1. CASE UNCHANGED claimVars
  BY <1>1 DEF claimVars, ClaimsInOrder, CurrentClaimIsNewest
<1>2. ASSUME NEW c \in Client, SaveClaim(c) PROVE ClaimsInOrder' /\ CurrentClaimIsNewest'
  <2>1. PICK a \in Attempt, w \in Item :
          /\ itemOf[a] = None
          /\ \A b \in Attempt : itemOf[b] # None <=> b < a
          /\ gen[w] + 1 \in 1 .. a
          /\ itemOf' = [itemOf EXCEPT ![a] = w]
          /\ token' = [token EXCEPT ![a] = gen[w] + 1]
          /\ gen' = [gen EXCEPT ![w] = gen[w] + 1]
          /\ owner' = [owner EXCEPT ![w] = a]
    BY <1>2, NewToken
  <2>2. /\ \A b \in Attempt : b \in Int /\ token[b] \in Int
        /\ \A x \in Item : gen[x] \in Int /\ x # None
        /\ a # None
    BY QueueAssumption DEF TypeOK, Attempt, None
  <2>3. /\ itemOf'[a] = w /\ token'[a] = gen[w] + 1
        /\ owner'[w] = a /\ gen'[w] = gen[w] + 1
        /\ \A b \in Attempt : b # a => itemOf'[b] = itemOf[b] /\ token'[b] = token[b]
        /\ \A x \in Item : x # w => owner'[x] = owner[x] /\ gen'[x] = gen[x]
    BY <2>1 DEF TypeOK
  <2>4. \A x \in Item : x # w /\ owner[x] # None => owner[x] # a /\ owner[x] \in Attempt
    BY <2>1, <2>2 DEF TypeOK, ClaimsInOrder
  <2>5. ClaimsInOrder'
    <3>1. \A b, d \in Attempt : itemOf'[b] # None /\ d < b => itemOf'[d] # None
      <4> SUFFICES ASSUME NEW b \in Attempt, NEW d \in Attempt,
                          itemOf'[b] # None, d < b
                   PROVE  itemOf'[d] # None
        OBVIOUS
      <4>1. b = a \/ b < a
        BY <2>1, <2>3
      <4>2. d < a
        BY <2>2, <4>1
      <4> QED
        BY <2>1, <2>2, <2>3, <4>2
    <3>2. \A b \in Attempt : itemOf'[b] # None => token'[b] <= b
      BY <2>1, <2>2, <2>3 DEF ClaimsInOrder
    <3>3. \A x \in Item : IF owner'[x] = None THEN gen'[x] = 0
                          ELSE itemOf'[owner'[x]] = x /\ token'[owner'[x]] = gen'[x]
      BY <2>2, <2>3, <2>4 DEF ClaimsInOrder
    <3> QED
      BY <3>1, <3>2, <3>3 DEF ClaimsInOrder
  <2>6. CurrentClaimIsNewest'
    <3> SUFFICES ASSUME NEW x \in Item, NEW b \in Attempt, itemOf'[b] = x
                 PROVE  /\ owner'[x] # None /\ token'[owner'[x]] = gen'[x]
                        /\ itemOf'[owner'[x]] = x
                        /\ b # owner'[x] => token'[b] < gen'[x]
      BY DEF CurrentClaimIsNewest
    <3>1. CASE x # w
      <4>1. b # a /\ itemOf[b] = x
        BY <2>3, <3>1
      <4>2. /\ owner[x] # None /\ token[owner[x]] = gen[x] /\ itemOf[owner[x]] = x
            /\ b # owner[x] => token[b] < gen[x]
        BY <4>1 DEF CurrentClaimIsNewest
      <4> QED
        BY <2>3, <2>4, <3>1, <4>1, <4>2
    <3>2. CASE x = w
      <4>1. owner'[x] = a /\ a # None /\ token'[a] = gen'[x] /\ itemOf'[a] = x
        BY <2>2, <2>3, <3>2
      <4>2. ASSUME b # a PROVE token'[b] < gen'[x]
        <5>1. itemOf[b] = w /\ token'[b] = token[b]
          BY <2>3, <3>2, <4>2
        <5>2. token[b] <= gen[w]
          BY <2>2, <5>1 DEF CurrentClaimIsNewest
        <5> QED
          BY <2>2, <2>3, <3>2, <5>1, <5>2
      <4> QED
        BY <4>1, <4>2
    <3> QED
      BY <3>1, <3>2
  <2> QED
    BY <2>5, <2>6
<1> QED
  BY <1>1, <1>2, ClaimSteps

\* A worker's write comes from the current claim of its item.
LEMMA FencedWrite ==
    ASSUME TypeOK, WorkersOK, NEW a \in Attempt, Fence(a), Accept(a)
    PROVE  /\ itemOf[a] \in Item /\ a \notin unknown
           /\ owner[itemOf[a]] = a
           /\ written' = [written EXCEPT ![itemOf[a]] = gen[itemOf[a]]]
<1>1. itemOf[a] \in Item
  BY DEF Fence, WorkersOK, TypeOK
<1> QED
  BY <1>1 DEF Fence, Accept

LEMMA WorkersStep ==
    ASSUME TypeOK, CallsOK, ClaimsInOrder, WorkersOK, [Next]_vars
    PROVE  WorkersOK'
<1>0. \A w \in Item : gen[w] \in Int /\ written[w] \in Int
  BY QueueAssumption DEF TypeOK
<1>1. ASSUME UNCHANGED <<claimVars, workerVars>> PROVE WorkersOK'
  BY <1>1 DEF WorkersOK, claimVars, workerVars
<1>2. ASSUME NEW c \in Client, Command(c) PROVE WorkersOK'
  BY <1>1, <1>2 DEF Command, Enqueue, Authorize, Claim, Cancel, Adapter, Reconcile
<1>3. ASSUME NEW c \in Client, \/ InsertItem(c) \/ SaveAuthorization(c) \/ CheckAuthority(c)
                               \/ ReconcileRow(c) \/ CheckTransition(c) \/ Crash(c)
      PROVE  WorkersOK'
  BY <1>1, <1>3 DEF InsertItem, SaveAuthorization, CheckAuthority, ReconcileRow,
                    CheckTransition, Crash, claimVars, workerVars
<1>4. ASSUME NEW c \in Client, SaveClaim(c) PROVE WorkersOK'
  <2>1. PICK a \in Attempt, w \in Item :
          /\ itemOf[a] = None
          /\ itemOf' = [itemOf EXCEPT ![a] = w]
          /\ gen' = [gen EXCEPT ![w] = gen[w] + 1]
    BY <1>4, NewToken
  <2>2. UNCHANGED workerVars
    BY <1>4 DEF SaveClaim
  <2>3. \A b \in Attempt : itemOf[b] # None => itemOf'[b] # None
    BY <2>1 DEF TypeOK
  <2>4. \A x \in Item : gen[x] <= gen'[x] /\ gen'[x] \in Int
    BY <1>0, <2>1 DEF TypeOK
  <2>5. \A x \in Item : written[x] <= gen'[x]
    BY <1>0, <2>4 DEF WorkersOK
  <2> QED
    BY <2>2, <2>3, <2>5 DEF WorkersOK, workerVars, TypeOK
<1>5. ASSUME NEW c \in Client, SaveLease(c) PROVE WorkersOK'
  <2>1. lease' = [lease EXCEPT ![call[c].attempt] = "FRESH"]
        /\ UNCHANGED <<claimVars, unknown, told, written>>
    BY <1>5 DEF SaveLease
  <2>2. call[c].attempt \notin unknown
    <3>1. call[c].attempt # None => call[c].attempt \notin told
      BY DEF CallsOK, CallOK
    <3>2. None \notin unknown
      BY DEF TypeOK, None, Attempt
    <3> QED
      BY <3>1, <3>2 DEF WorkersOK
  <2>3. \A a \in unknown : lease'[a] = lease[a]
    BY <2>1, <2>2 DEF TypeOK
  <2> QED
    BY <2>1, <2>3 DEF WorkersOK, claimVars
<1>6. ASSUME NEW c \in Client, WriteTransition(c) PROVE WorkersOK'
  <2>1. UNCHANGED <<claimVars, unknown, lease, written>>
    BY <1>6 DEF WriteTransition
  <2>2. told' \in {told, told \cup {call[c].attempt}}
        /\ (call[c].attempt = None => told' = told)
    BY <1>6 DEF WriteTransition
  <2>3. call[c].attempt # None => itemOf[call[c].attempt] # None
    BY DEF CallsOK, CallOK
  <2> QED
    BY <2>1, <2>2, <2>3 DEF WorkersOK, claimVars
<1>7. ASSUME NEW a \in Attempt, Heartbeat(a) \/ Checkpoint(a) \/ Complete(a) PROVE WorkersOK'
  <2>1. Fence(a) /\ Accept(a) /\ UNCHANGED <<claimVars, unknown, told>>
    BY <1>7 DEF Heartbeat, Checkpoint, Complete
  <2>2. lease' \in {lease, [lease EXCEPT ![a] = "FRESH"]}
    BY <1>7 DEF Heartbeat, Checkpoint, Complete
  <2>3. a \notin unknown /\ \A w \in Item : written'[w] \in {written[w], gen[w]}
    BY <2>1, FencedWrite DEF TypeOK
  <2>4. \A b \in unknown : lease'[b] = lease[b]
    BY <2>2, <2>3 DEF TypeOK
  <2>5. \A w \in Item : written'[w] <= gen[w]
    BY <1>0, <2>3 DEF WorkersOK
  <2> QED
    BY <2>1, <2>4, <2>5 DEF WorkersOK, claimVars
<1>8. ASSUME NEW a \in Attempt, Reap(a) PROVE WorkersOK'
  BY <1>8 DEF Reap, WorkersOK, TypeOK, claimVars
<1>9. ASSUME NEW a \in Attempt, LeaseExpires(a) PROVE WorkersOK'
  <2>1. a \notin unknown
    BY <1>9 DEF LeaseExpires, WorkersOK
  <2> QED
    BY <1>9, <2>1 DEF LeaseExpires, WorkersOK, TypeOK, claimVars
<1>10. ASSUME NEW w \in Item, AuthorizationLapses(w) PROVE WorkersOK'
  BY <1>1, <1>10 DEF AuthorizationLapses
<1> QED
  BY <1>1, <1>2, <1>3, <1>4, <1>5, <1>6, <1>7, <1>8, <1>9, <1>10
  DEF Next, Proceed, Worker, vars
\* Only the fenced writes count as a worker's ...
LEMMA WriteSteps ==
    ASSUME [Next]_vars
    PROVE  written' = written \/ \E a \in Attempt : Fence(a) /\ Accept(a)
<1>1. ASSUME NEW c \in Client, Command(c) PROVE written' = written
  BY <1>1 DEF Command, Enqueue, Authorize, Claim, Cancel, Adapter, Reconcile, workerVars
<1>2. ASSUME NEW c \in Client, Proceed(c) PROVE written' = written
  BY <1>2 DEF Proceed, InsertItem, SaveAuthorization, CheckAuthority, SaveClaim, SaveLease,
              ReconcileRow, CheckTransition, WriteTransition, workerVars
<1>3. ASSUME NEW a \in Attempt, Worker(a) PROVE written' = written \/ (Fence(a) /\ Accept(a))
  BY <1>3 DEF Worker, Heartbeat, Checkpoint, Complete, Reap
<1> QED
  BY <1>1, <1>2, <1>3 DEF Next, Crash, LeaseExpires, AuthorizationLapses, vars, workerVars

\* ... and nothing takes a revocation back.
LEMMA UnknownSteps ==
    ASSUME [Next]_vars
    PROVE  unknown \subseteq unknown'
<1>1. ASSUME NEW c \in Client, Command(c) PROVE unknown' = unknown
  BY <1>1 DEF Command, Enqueue, Authorize, Claim, Cancel, Adapter, Reconcile, workerVars
<1>2. ASSUME NEW c \in Client, Proceed(c) PROVE unknown' = unknown
  BY <1>2 DEF Proceed, InsertItem, SaveAuthorization, CheckAuthority, SaveClaim, SaveLease,
              ReconcileRow, CheckTransition, WriteTransition, workerVars
<1>3. ASSUME NEW a \in Attempt, Worker(a) PROVE unknown \subseteq unknown'
  BY <1>3 DEF Worker, Heartbeat, Checkpoint, Complete, Reap
<1> QED
  BY <1>1, <1>2, <1>3 DEF Next, Crash, LeaseExpires, AuthorizationLapses, vars, workerVars

----------------------------------------------------------------------------
(* Authority                                                               *)

\* The states that an item reaches only by way of a claim.
Committed == Executing \cup {"COMPLETED", "WAITING_EXTERNAL", "REVIEW", "DISPATCH_UNKNOWN"}

\* A call that will put its item into one of them.
Commits(c) ==
    \/ call[c].at \in {"claim", "lease"}
    \/ call[c].at = "check" /\ call[c].target = "CLAIMED"
    \/ call[c].at = "write" /\ call[c].target \in Committed

Authorized ==
    /\ \A w \in Guarded : state[w] \in Committed => authority[w] # "NONE"
    /\ \A c \in Client : call[c].item \in Guarded /\ Commits(c)
                            => authority[call[c].item] # "NONE"

LEMMA OnlyThroughClaim ==
    ASSUME NEW s \in ItemState, NEW t \in Committed, t # "CLAIMED", CanTransition(s, t)
    PROVE  s \in Committed
BY DEF ItemState, Committed, Executing, CanTransition, Successors, Terminal

\* A GO may go stale, but that it was given stays on record.
LEMMA GoIsRecorded ==
    ASSUME TypeOK, [Next]_vars
    PROVE  \A w \in Item : authority[w] # "NONE" => authority'[w] # "NONE"
<1>1. ASSUME NEW c \in Client, Command(c) PROVE authority' = authority
  BY <1>1 DEF Command, Enqueue, Authorize, Claim, Cancel, Adapter, Reconcile
<1>2. ASSUME NEW c \in Client, Proceed(c)
      PROVE  authority' = authority \/ authority' = [authority EXCEPT ![call[c].item] = "VALID"]
  BY <1>2 DEF Proceed, InsertItem, SaveAuthorization, CheckAuthority, SaveClaim, SaveLease,
              ReconcileRow, CheckTransition, WriteTransition
<1>3. ASSUME NEW a \in Attempt, Worker(a) PROVE authority' = authority
  BY <1>3 DEF Worker, Heartbeat, Checkpoint, Complete, Reap
<1> QED
  BY <1>1, <1>2, <1>3
  DEF Next, Crash, LeaseExpires, AuthorizationLapses, vars, TypeOK

\* It is enough to look at the items that change state and at the call of the
\* client that acts.
LEMMA AuthorizedKept ==
    ASSUME TypeOK, Authorized, [Next]_vars, NEW c \in Client,
           \A d \in Client : d # c => call'[d] = call[d],
           call'[c].item \in Guarded /\ Commits(c)' => authority[call'[c].item] # "NONE",
           \A w \in Guarded : state'[w] \in Committed =>
                state[w] \in Committed \/ authority[w] # "NONE"
    PROVE  Authorized'
<1>1. \A w \in Guarded : authority[w] # "NONE" => authority'[w] # "NONE"
  BY GoIsRecorded, QueueAssumption
<1>2. ASSUME NEW d \in Client, call'[d].item \in Guarded, Commits(d)'
      PROVE  authority'[call'[d].item] # "NONE"
  <2>1. CASE d = c
    BY <1>1, <1>2, <2>1
  <2>2. CASE d # c
    BY <1>1, <1>2, <2>2 DEF Authorized, Commits
  <2> QED
    BY <2>1, <2>2
<1> QED
  BY <1>1, <1>2 DEF Authorized

LEMMA AuthorizedStep ==
    ASSUME TypeOK, Authorized, [Next]_vars
    PROVE  Authorized'
<1>0. call \in [Client -> Call] /\ Guarded \subseteq Item
  BY QueueAssumption DEF TypeOK
<1>1. ASSUME NEW c \in Client, NEW k \in Call, call' = [call EXCEPT ![c] = k], state' = state,
             k.at # "lease" /\ k.at # "write",
             k.at = "claim" => k.item \notin Guarded,
             k.at = "check" => k.target # "CLAIMED"
      PROVE  Authorized'
  <2>1. call'[c] = k /\ \A d \in Client : d # c => call'[d] = call[d]
    BY <1>0, <1>1
  <2>2. ~(call'[c].item \in Guarded /\ Commits(c)')
    BY <1>1, <2>1 DEF Commits
  <2> QED
    BY <1>1, <2>1, <2>2, AuthorizedKept
<1>2. ASSUME NEW c \in Client, NEW w \in Item, Enqueue(c, w) \/ Claim(c, w) PROVE Authorized'
  <2>1. PICK l \in {"insert", "authority", "claim"} :
          /\ l = "claim" => w \notin Guarded
          /\ call' = [call EXCEPT ![c] = [Idle EXCEPT !.at = l, !.item = w]]
    BY <1>2 DEF Enqueue, Claim, Begin
  <2> DEFINE k == [Idle EXCEPT !.at = l, !.item = w]
  <2>2. k \in Call /\ k.at = l /\ k.item = w
    BY IdleIsCall DEF Idle, Call
  <2>3. state' = state /\ call' = [call EXCEPT ![c] = k]
    BY <1>2, <2>1 DEF Enqueue, Claim
  <2> HIDE DEF k
  <2>4. /\ k.at # "lease" /\ k.at # "write" /\ k.at # "check"
        /\ k.at = "claim" => k.item \notin Guarded
    BY <2>1, <2>2
  <2> QED
    BY <1>1, <2>2, <2>3, <2>4
<1>3. ASSUME NEW c \in Client, NEW w \in Item, Authorize(c, w) PROVE Authorized'
  <2> DEFINE seen == state[w] \in {"QUEUED", "HOLD"}
             k == [Idle EXCEPT !.at = "grant", !.item = w, !.seen = seen]
  <2>1. seen \in BOOLEAN
    OBVIOUS
  <2>2. call' = [call EXCEPT ![c] = k] /\ state' = state
    BY <1>3 DEF Authorize
  <2> HIDE DEF seen
  <2>3. k \in Call /\ k.at = "grant"
    BY <2>1, IdleIsCall DEF Call, Idle
  <2> HIDE DEF k
  <2>4. k.at # "lease" /\ k.at # "write" /\ k.at # "claim" /\ k.at # "check"
    BY <2>3
  <2> QED
    BY <1>1, <2>2, <2>3, <2>4
<1>4. ASSUME NEW c \in Client, NEW w \in Item,
             Cancel(c, w) \/ \E t \in AdapterMove : Adapter(c, w, t)
      PROVE  Authorized'
  <2>1. PICK t \in AdapterMove \cup {"CANCELLED"} :
          call' = [call EXCEPT ![c] = [Idle EXCEPT !.at = "check", !.item = w, !.target = t]]
    BY <1>4 DEF Cancel, Adapter
  <2> DEFINE k == [Idle EXCEPT !.at = "check", !.item = w, !.target = t]
  <2>2. k \in Call /\ k.at = "check" /\ k.target = t /\ t # "CLAIMED"
    BY IdleIsCall DEF Idle, Call, AdapterMove, ItemState
  <2>3. state' = state /\ call' = [call EXCEPT ![c] = k]
    BY <1>4, <2>1 DEF Cancel, Adapter
  <2> HIDE DEF k
  <2> QED
    BY <1>1, <2>2, <2>3
<1>5. ASSUME NEW c \in Client, Reconcile(c) PROVE Authorized'
  <2> DEFINE rows == {a \in Attempt : lease[a] = "EXPIRED" /\ state[itemOf[a]] \in Executing}
             k == [Idle EXCEPT !.at = "rows", !.rows = rows]
  <2>1. rows \in SUBSET Attempt
    OBVIOUS
  <2>2. call' = [call EXCEPT ![c] = k] /\ state' = state
    BY <1>5 DEF Reconcile
  <2> HIDE DEF rows
  <2>3. k \in Call /\ k.at = "rows"
    BY <2>1, IdleIsCall DEF Call, Idle
  <2> HIDE DEF k
  <2>4. k.at # "lease" /\ k.at # "write" /\ k.at # "claim" /\ k.at # "check"
    BY <2>3
  <2> QED
    BY <1>1, <2>2, <2>3, <2>4
<1>6. ASSUME NEW c \in Client, state' = state, Return(c) PROVE Authorized'
  <2>1. Idle.at # "lease" /\ Idle.at # "write" /\ Idle.at # "claim" /\ Idle.at # "check"
    BY DEF Idle
  <2>2. call' = [call EXCEPT ![c] = Idle]
    BY <1>6 DEF Return
  <2> QED
    BY <1>1, <1>6, <2>1, <2>2, IdleIsCall
<1>7. ASSUME NEW c \in Client, NEW t \in ItemState, AskFor(c, t)
      PROVE  /\ call'[c].at = "check" /\ call'[c].target = t /\ call'[c].item = call[c].item
             /\ \A d \in Client : d # c => call'[d] = call[d]
  BY <1>0, <1>7 DEF AskFor, Call
<1>8. ASSUME NEW c \in Client, NEW l \in Label, Continue(c, l)
      PROVE  /\ call'[c].at = l /\ call'[c].target = call[c].target /\ call'[c].item = call[c].item
             /\ \A d \in Client : d # c => call'[d] = call[d]
  BY <1>0, <1>8 DEF Continue, Call
<1>9. ASSUME NEW c \in Client, InsertItem(c) PROVE Authorized'
  <2>2. CASE state' = [state EXCEPT ![call[c].item] = "DISCOVERED"] /\ AskFor(c, "QUEUED")
    <3>1. ~Commits(c)' /\ \A d \in Client : d # c => call'[d] = call[d]
      BY <1>7, <2>2 DEF Commits, ItemState
    <3>2. \A w \in Guarded : state'[w] \in Committed => state[w] \in Committed
      BY <1>0, <2>2 DEF TypeOK, Committed, Executing
    <3> QED
      BY <3>1, <3>2, AuthorizedKept
  <2>3. CASE state' = state /\ Return(c)
    BY <1>6, <2>3
  <2> QED
    BY <1>9, <2>2, <2>3 DEF InsertItem
<1>10. ASSUME NEW c \in Client, SaveAuthorization(c) PROVE Authorized'
  <2>1. state' = state /\ (Return(c) \/ AskFor(c, "READY"))
    BY <1>10 DEF SaveAuthorization
  <2>2. CASE AskFor(c, "READY")
    <3>1. ~Commits(c)' /\ \A d \in Client : d # c => call'[d] = call[d]
      BY <1>7, <2>2 DEF Commits, ItemState
    <3> QED
      BY <2>1, <3>1, AuthorizedKept
  <2> QED
    BY <1>6, <2>1, <2>2
<1>11. ASSUME NEW c \in Client, CheckAuthority(c) PROVE Authorized'
  <2>1. state' = state
    BY <1>11 DEF CheckAuthority
  <2>2. CASE authority[call[c].item] = "VALID" /\ Continue(c, "claim")
    <3>1. call'[c].item = call[c].item /\ \A d \in Client : d # c => call'[d] = call[d]
      BY <1>8, <2>2 DEF Label
    <3> QED
      BY <2>1, <2>2, <3>1, AuthorizedKept
  <2>3. CASE AskFor(c, "HOLD")
    <3>1. ~Commits(c)' /\ \A d \in Client : d # c => call'[d] = call[d]
      BY <1>7, <2>3 DEF Commits, ItemState
    <3> QED
      BY <2>1, <3>1, AuthorizedKept
  <2> QED
    BY <1>11, <2>2, <2>3 DEF CheckAuthority
<1>12. ASSUME NEW c \in Client, SaveClaim(c) PROVE Authorized'
  <2>1. state' = state /\ call[c].at = "claim"
    BY <1>12 DEF SaveClaim, At
  <2>2. PICK a \in Attempt : call' = [call EXCEPT ![c].at = "lease", ![c].attempt = a]
    BY <1>12 DEF SaveClaim
  <2>3. call'[c].item = call[c].item /\ \A d \in Client : d # c => call'[d] = call[d]
    BY <1>0, <2>2 DEF Call
  <2>4. call[c].item \in Guarded => authority[call[c].item] # "NONE"
    BY <2>1 DEF Authorized, Commits
  <2> QED
    BY <2>1, <2>3, <2>4, AuthorizedKept
<1>13. ASSUME NEW c \in Client, SaveLease(c) PROVE Authorized'
  <2>1. state' = state /\ call[c].at = "lease"
    BY <1>13 DEF SaveLease, At
  <2>2. call'[c].item = call[c].item /\ \A d \in Client : d # c => call'[d] = call[d]
    BY <1>7, <1>13 DEF SaveLease, ItemState
  <2>3. call[c].item \in Guarded => authority[call[c].item] # "NONE"
    BY <2>1 DEF Authorized, Commits
  <2> QED
    BY <2>1, <2>2, <2>3, AuthorizedKept
<1>14. ASSUME NEW c \in Client, ReconcileRow(c) PROVE Authorized'
  <2>1. PICK a \in call[c].rows :
          \/ call' = [call EXCEPT ![c].at = "write", ![c].item = itemOf[a],
                                  ![c].target = "RECOVERY_REQUIRED", ![c].rows = @ \ {a}]
          \/ Return(c)
    BY <1>14 DEF ReconcileRow
  <2>2. state' = state
    BY <1>14 DEF ReconcileRow
  <2>3. CASE call' = [call EXCEPT ![c].at = "write", ![c].item = itemOf[a],
                                 ![c].target = "RECOVERY_REQUIRED", ![c].rows = @ \ {a}]
    <3>1. /\ call'[c].at = "write" /\ call'[c].target = "RECOVERY_REQUIRED"
          /\ \A d \in Client : d # c => call'[d] = call[d]
      BY <1>0, <2>3 DEF Call
    <3>2. ~Commits(c)'
      BY <3>1 DEF Commits, Committed, Executing
    <3> QED
      BY <2>2, <3>1, <3>2, AuthorizedKept
  <2> QED
    BY <1>6, <2>1, <2>2, <2>3
<1>15. ASSUME NEW c \in Client, CheckTransition(c) PROVE Authorized'
  <2>1. state' = state /\ call[c].at = "check"
    BY <1>15 DEF CheckTransition, At
  <2>2. CASE CanTransition(state[call[c].item], call[c].target) /\ Continue(c, "write")
    <3>1. /\ call'[c].at = "write" /\ call'[c].target = call[c].target
          /\ call'[c].item = call[c].item
          /\ \A d \in Client : d # c => call'[d] = call[d]
      BY <1>8, <2>2 DEF Label
    <3>2. ASSUME call[c].item \in Guarded, call[c].target \in Committed
          PROVE  authority[call[c].item] # "NONE"
      <4>1. CASE call[c].target = "CLAIMED"
        BY <2>1, <3>2, <4>1 DEF Authorized, Commits
      <4>2. CASE call[c].target # "CLAIMED"
        <5>1. state[call[c].item] \in ItemState
          BY <1>0, <3>2 DEF TypeOK
        <5>2. state[call[c].item] \in Committed
          BY <2>2, <3>2, <4>2, <5>1, OnlyThroughClaim
        <5> QED
          BY <3>2, <5>2 DEF Authorized
      <4> QED
        BY <4>1, <4>2
    <3> QED
      BY <2>1, <3>1, <3>2, AuthorizedKept DEF Commits
  <2> QED
    BY <1>6, <1>15, <2>1, <2>2 DEF CheckTransition
<1>16. ASSUME NEW c \in Client, WriteTransition(c) PROVE Authorized'
  <2>1. /\ call[c].at = "write"
        /\ state' = [state EXCEPT ![call[c].item] = call[c].target]
        /\ Continue(c, "rows") \/ Return(c)
    BY <1>16 DEF WriteTransition, At
  <2>2. ~Commits(c)' /\ \A d \in Client : d # c => call'[d] = call[d]
    <3>1. CASE Continue(c, "rows")
      BY <1>8, <3>1 DEF Label, Commits
    <3>2. CASE Return(c)
      BY <1>0, <3>2 DEF Return, Idle, Commits
    <3> QED
      BY <2>1, <3>1, <3>2
  <2>3. ASSUME NEW w \in Guarded, state'[w] \in Committed
        PROVE  state[w] \in Committed \/ authority[w] # "NONE"
    <3>1. CASE w = call[c].item
      <4>1. call[c].target \in Committed
        BY <1>0, <2>1, <2>3, <3>1 DEF TypeOK
      <4> QED
        BY <2>1, <3>1, <4>1 DEF Authorized, Commits
    <3>2. CASE w # call[c].item
      BY <1>0, <2>1, <2>3, <3>2 DEF TypeOK
    <3> QED
      BY <3>1, <3>2
  <2> QED
    BY <2>2, <2>3, AuthorizedKept
<1>17. ASSUME call' = call,
              \A w \in Guarded : state'[w] \in Committed => state[w] \in Committed
       PROVE  Authorized'
  <2>1. Daemon \in Client /\ (Commits(Daemon)' <=> Commits(Daemon))
    BY <1>17, QueueAssumption DEF Commits
  <2> QED
    BY <1>17, <2>1, AuthorizedKept DEF Authorized
<1>18. ASSUME NEW a \in Attempt, Worker(a) PROVE Authorized'
  <2>1. call' = call
    BY <1>18 DEF Worker, Heartbeat, Checkpoint, Complete, Reap
  <2>2. CASE Complete(a)
    <3>1. \A w \in Guarded : w = itemOf[a] => state[w] \in Committed
      BY <1>0, <2>2, OnlyThroughClaim DEF Complete, TypeOK, Committed
    <3> QED
      BY <1>0, <1>17, <2>1, <2>2, <3>1 DEF Complete, TypeOK
  <2>3. CASE Reap(a)
    <3>1. \A w \in Guarded : state'[w] \in Committed => state[w] \in Committed
      BY <1>0, <2>3 DEF Reap, TypeOK, Committed, Executing
    <3> QED
      BY <1>17, <2>1, <3>1
  <2>4. CASE Heartbeat(a) \/ Checkpoint(a)
    BY <1>17, <2>1, <2>4 DEF Heartbeat, Checkpoint
  <2> QED
    BY <1>18, <2>2, <2>3, <2>4 DEF Worker
<1>19. ASSUME call' = call, state' = state PROVE Authorized'
  BY <1>17, <1>19
<1>20. ASSUME NEW c \in Client, Crash(c) PROVE Authorized'
  BY <1>6, <1>20 DEF Crash
<1>21. ASSUME NEW a \in Attempt, LeaseExpires(a) PROVE Authorized'
  BY <1>19, <1>21 DEF LeaseExpires
<1>22. ASSUME NEW w \in Item, AuthorizationLapses(w) PROVE Authorized'
  BY <1>19, <1>22 DEF AuthorizationLapses
<1>23. ASSUME UNCHANGED vars PROVE Authorized'
  BY <1>19, <1>23 DEF vars
<1> QED
  BY <1>2, <1>3, <1>4, <1>5, <1>9, <1>10, <1>11, <1>12, <1>13, <1>14, <1>15, <1>16,
     <1>18, <1>20, <1>21, <1>22, <1>23
  DEF Next, Command, Proceed

----------------------------------------------------------------------------
(* The theorems                                                            *)

\* The claims, the calls under way and the workers' rows agree in every
\* reachable state.
THEOREM QueueInvariant == Spec => []Inv
<1>1. Init => Inv
  <2>1. ASSUME Init PROVE TypeOK
    BY <2>1, IdleIsCall, QueueAssumption DEF Init, TypeOK, ItemState
  <2>2. ASSUME Init PROVE CallsOK /\ ClaimsInOrder /\ CurrentClaimIsNewest /\ WorkersOK
    BY <2>2, QueueAssumption
    DEF Init, CallsOK, CallOK, Idle, ClaimsInOrder, CurrentClaimIsNewest, WorkersOK
  <2> QED
    BY <2>1, <2>2 DEF Inv
<1>2. Inv /\ [Next]_vars => Inv'
  BY TypesStep, CallsStep, ClaimsStep, WorkersStep DEF Inv
<1> QED
  BY <1>1, <1>2, PTL DEF Spec

\* Every reachable queue is well typed; in particular no generation outgrows the
\* number of claims made (save_claim).
THEOREM TypeCorrect == Spec => []TypeOK
<1>1. Inv => TypeOK
  BY DEF Inv
<1> QED
  BY <1>1, QueueInvariant, PTL

\* However claims overlap, the current claim of an item is its newest, and no
\* two claims of an item share a generation (save_claim).
THEOREM ClaimCorrect == Spec => []CurrentClaimIsNewest
<1>1. Inv => CurrentClaimIsNewest
  BY DEF Inv
<1> QED
  BY <1>1, QueueInvariant, PTL

\* A write accepted from a worker is never followed by one of an older claim
\* (_validate_worker_attempt_fence_locked).
THEOREM ReplacedCorrect == Spec => ReplacedStaysOut
<1>1. ASSUME Inv, [Next]_vars PROVE [\A w \in Item : written'[w] >= written[w]]_vars
  <2>0. \A w \in Item : gen[w] \in Int /\ written[w] \in Int /\ written[w] <= gen[w]
    BY <1>1, QueueAssumption DEF Inv, TypeOK, WorkersOK
  <2>1. CASE written' = written
    BY <2>0, <2>1
  <2>2. ASSUME NEW a \in Attempt, Fence(a), Accept(a) PROVE \A w \in Item : written'[w] >= written[w]
    <3>1. \A w \in Item : written'[w] \in {written[w], gen[w]}
      BY <1>1, <2>2, FencedWrite DEF Inv, TypeOK
    <3> QED
      BY <2>0, <3>1
  <2> QED
    BY <1>1, <2>1, <2>2, WriteSteps
<1> QED
  BY <1>1, QueueInvariant, PTL DEF Spec, ReplacedStaysOut

\* A revoked attempt stays revoked and has no lease, and no write of its is
\* accepted (extend_lease_heartbeat_fenced and the other fenced writes).
THEOREM RevokedCorrect == Spec => RevokedStaysOut
<1>1. ASSUME Inv, Inv', [Next]_vars
      PROVE  \A a \in unknown :
                /\ a \in unknown' /\ lease'[a] = "NONE"
                /\ written'[itemOf[a]] = token[a] => written[itemOf[a]] = token[a]
  <2> SUFFICES ASSUME NEW a \in unknown
               PROVE  /\ a \in unknown' /\ lease'[a] = "NONE"
                      /\ written'[itemOf[a]] = token[a] => written[itemOf[a]] = token[a]
    OBVIOUS
  <2>1. a \in unknown'
    BY <1>1, UnknownSteps
  <2>2. lease'[a] = "NONE"
    BY <1>1, <2>1 DEF Inv, WorkersOK
  <2>3. a \in Attempt /\ itemOf[a] \in Item
    BY <1>1 DEF Inv, WorkersOK, TypeOK
  <2>4. ASSUME NEW b \in Attempt, Fence(b), Accept(b), written'[itemOf[a]] = token[a]
        PROVE  written[itemOf[a]] = token[a]
    <3>1. /\ itemOf[b] \in Item /\ b \notin unknown /\ owner[itemOf[b]] = b
          /\ written' = [written EXCEPT ![itemOf[b]] = gen[itemOf[b]]]
      BY <1>1, <2>4, FencedWrite DEF Inv
    <3>2. CASE itemOf[b] # itemOf[a]
      BY <1>1, <2>3, <2>4, <3>1, <3>2 DEF Inv, TypeOK
    <3>3. CASE itemOf[b] = itemOf[a]
      <4>1. a # owner[itemOf[a]]
        BY <3>1, <3>3
      <4>2. token[a] < gen[itemOf[a]]
        BY <1>1, <2>3, <4>1 DEF Inv, CurrentClaimIsNewest
      <4>3. written'[itemOf[a]] = gen[itemOf[a]]
        BY <1>1, <2>3, <3>1, <3>3 DEF Inv, TypeOK
      <4>4. token[a] \in Int /\ gen[itemOf[a]] \in Int
        BY <1>1, <2>3, QueueAssumption DEF Inv, TypeOK
      <4> QED
        BY <2>4, <4>2, <4>3, <4>4
    <3> QED
      BY <3>2, <3>3
  <2>5. written' = written \/ \E b \in Attempt : Fence(b) /\ Accept(b)
    BY <1>1, WriteSteps
  <2> QED
    BY <2>1, <2>2, <2>4, <2>5
<1> QED
  BY <1>1, QueueInvariant, PTL DEF Spec, RevokedStaysOut
\* Whichever way a guarded item became READY, and whatever else happened between
\* the authority check and the claim, an operator has given a GO for it before it
\* is under way (_handle_claim, authorization_refusal).
THEOREM GoCorrect == Spec => []NoWorkWithoutGo
<1>1. Init => Authorized
  <2> SUFFICES ASSUME Init PROVE Authorized
    OBVIOUS
  <2>1. \A w \in Guarded : state[w] = "ABSENT"
    BY QueueAssumption DEF Init
  <2>2. \A c \in Client : call[c].item = None
    BY DEF Init, Idle
  <2> QED
    BY <2>1, <2>2, QueueAssumption DEF Authorized, Committed, Executing
<1>2. TypeOK /\ Authorized /\ [Next]_vars => Authorized'
  BY AuthorizedStep
<1>3. Authorized => NoWorkWithoutGo
  BY DEF Authorized, NoWorkWithoutGo, Committed
<1> QED
  BY <1>1, <1>2, <1>3, TypeCorrect, PTL DEF Spec
=============================================================================
