------------------------- MODULE CommandInboxProofs -------------------------
(***************************************************************************)
(* Theorems about CommandInbox, for any daemons, command line calls and    *)
(* envelopes and any number of deaths and failures.                        *)
(*                                                                         *)
(* Look-up and receipt are two transactions.  What keeps them together is  *)
(* that a key has one server at a time: only the leader serves the inbox   *)
(* (OneServer), and a command line call serves an envelope of its own,     *)
(* which no inbox ever holds (Custody).  So the key that was unanswered    *)
(* at the look-up is unanswered when the receipt is saved (Asked).         *)
(***************************************************************************)
EXTENDS CommandInbox, TLAPS

\* Who handles which envelope: daemons those of the inbox, a call its own.
Custody ==
    /\ inbox \cap Direct = {}
    /\ \A p \in Procs :
         /\ batch[p] \subseteq sent \ Direct
         /\ cur[p] # NoEnvelope => cur[p] \in sent \ Malformed
    /\ \A d \in Daemons : cur[d] \notin Direct
    /\ \A c \in Clis : cur[c] \in {OwnEnvelope[c], NoEnvelope}

Serving(d) == cur[d] # NoEnvelope \/ step[d] \in {"poll", "next"}
OneServer  == \A d \in Daemons : Serving(d) => leader = d

\* What a process knows of the key it serves is still so.
Asked(p) ==
    /\ step[p] \in {"insert", "queue", "save"} => Known(cur[p]) = {}
    /\ step[p] \in {"write", "unlink"} => Known(cur[p]) # {}

Admitted(i) == \/ item[i] = "QUEUED"
               \/ item[i] = "DISCOVERED" /\ mishaps > 0

\* The handler of an enqueue, between its transactions and with its outcome.
Enqueues(p) ==
    /\ step[p] \in {"insert", "queue"} => cur[p] \notin Forbidden \cup Unknown
    /\ step[p] = "queue" => item[ItemOf[cur[p]]] # "none"
    /\ step[p] = "save" =>
         /\ outcome[p] # "none"
         /\ outcome[p] = "SUCCESS" => Admitted(ItemOf[cur[p]])

\* Without a mishap an item is DISCOVERED only under the hands of its server.
HalfDone ==
    \A i \in WorkNames : item[i] = "DISCOVERED" /\ mishaps = 0 =>
        \E p \in Procs : step[p] = "queue" /\ ItemOf[cur[p]] = i

Inv == /\ InboxTypeOK /\ Custody /\ OneServer
       /\ \A p \in Procs : Asked(p) /\ Enqueues(p)
       /\ HalfDone
       /\ OneReceiptPerKey /\ NoLostCommand /\ SuccessIsAdmitted

-----------------------------------------------------------------------------
(* Types *)

\* At the start.
LEMMA InitType == InboxInit => InboxTypeOK
  BY InboxAssumption DEF InboxInit, InboxTypeOK, Resting, Working, Statuses

\* Delivering receipts writes files of receipts there are.
LEMMA DeliverType ==
  ASSUME InboxTypeOK, NEW r \in receipts, Deliver(r)
  PROVE  /\ delivered' \subseteq receipts
         /\ files' \subseteq (Envelopes \X Statuses)
         /\ mishaps' \in 0 .. MaxMishaps /\ mishaps' >= mishaps
  BY InboxAssumption DEF Deliver, InboxTypeOK, RowsOf, NoFault, Fault

\* A step counts one mishap or none.
LEMMA MishapsGrow ==
  ASSUME InboxTypeOK, InboxNext
  PROVE  mishaps' \in 0 .. MaxMishaps /\ mishaps' >= mishaps
<1> DEFINE Goal == mishaps' \in 0 .. MaxMishaps /\ mishaps' >= mishaps
<1> USE InboxAssumption DEF InboxTypeOK, NoFault, Fault
<1>1. ASSUME NEW e \in Envelopes, Send(e) PROVE Goal
  BY <1>1 DEF Send
<1>2. ASSUME NEW p \in Procs, Start(p) \/ Crash(p) PROVE Goal
  BY <1>2 DEF Start, Crash
<1>3. ASSUME NEW p \in Procs, Process(p) PROVE Goal
  <2>1. CASE Drain(p)
    BY <2>1 DEF Drain
  <2>2. CASE Lookup(p)
    <3>1. mishaps' = mishaps \/ \E r \in Known(cur[p]) : Deliver(r)
      BY <2>2, Zenon DEF Lookup
    <3> QED
      BY <3>1 DEF Deliver
  <2>3. CASE InsertItem(p) \/ QueueItem(p)
    BY <2>3 DEF InsertItem, QueueItem, Fails
  <2>4. CASE SaveReceipt(p) \/ Unlink(p)
    BY <2>4 DEF SaveReceipt, Unlink
  <2>5. CASE WriteFile(p)
    BY <2>5 DEF WriteFile, Deliver
  <2> QED
    BY <1>3, <2>1, <2>2, <2>3, <2>4, <2>5 DEF Process
<1>4. ASSUME NEW d \in Daemons, Loop(d) PROVE Goal
  BY <1>4 DEF Loop, AcquireLeader, Poll, EndPass, Take, Quarantine
<1> QED
  BY <1>1, <1>2, <1>3, <1>4 DEF InboxNext
\* What the look-up does: it answers from a receipt, or sends the command on.
LEMMA LookupCases ==
  ASSUME NEW p \in Procs, Lookup(p)
  PROVE  /\ step[p] = "lookup"
         /\ UNCHANGED <<dirs, item, receipts, leader, batch, cur>>
         /\ \/ /\ Known(cur[p]) # {}
               /\ \/ UNCHANGED <<files, delivered, mishaps>>
                  \/ \E r \in Known(cur[p]) : Deliver(r)
               /\ Goto(p, "unlink") /\ UNCHANGED outcome
            \/ /\ Known(cur[p]) = {} /\ cur[p] \in Forbidden \cup Unknown
               /\ \E o \in {"ERROR", "REJECTED"} : outcome' = [outcome EXCEPT ![p] = o]
               /\ Goto(p, "save") /\ UNCHANGED <<files, delivered, mishaps>>
            \/ /\ Known(cur[p]) = {} /\ cur[p] \notin Forbidden \cup Unknown
               /\ Goto(p, "insert") /\ UNCHANGED <<outcome, files, delivered, mishaps>>
  BY DEF Lookup, At

\* The type is preserved.  What may be saved is an outcome and an envelope.
LEMMA TypesStep ==
  ASSUME InboxTypeOK, Custody, \A p \in Procs : Enqueues(p), [InboxNext]_inboxVars
  PROVE  InboxTypeOK'
<1> USE InboxAssumption DEF InboxTypeOK, Custody, Resting, Working, Statuses, Goto, At,
                            dirs, rows, local, Procs
<1>1. CASE UNCHANGED inboxVars
  BY <1>1 DEF inboxVars
<1>2. CASE InboxNext
  <2>0. mishaps' \in 0 .. MaxMishaps
    BY <1>2, MishapsGrow
  <2>1. ASSUME NEW e \in Envelopes, Send(e) PROVE InboxTypeOK'
    BY <2>1 DEF Send
  <2>2. ASSUME NEW p \in Procs, Start(p) PROVE InboxTypeOK'
    BY <2>2 DEF Start
  <2>3. ASSUME NEW p \in Procs, Crash(p) PROVE InboxTypeOK'
    BY <2>0, <2>3 DEF Crash
  <2>4. ASSUME NEW p \in Procs, Process(p) PROVE InboxTypeOK'
    <3>1. CASE Drain(p)
      <4>1. files' \subseteq (Envelopes \X Statuses) /\ delivered' \subseteq receipts
        BY <3>1 DEF Drain, RowsOf
      <4> QED
        BY <2>0, <3>1, <4>1 DEF Drain
    <3>2. CASE Lookup(p)
      <4>1. files' \subseteq (Envelopes \X Statuses) /\ delivered' \subseteq receipts
        BY <3>2, LookupCases, DeliverType DEF Known, RowsOfKey
      <4> QED
        BY <2>0, <3>2, <4>1, LookupCases
    <3>3. CASE InsertItem(p)
      <4>1. item' \in [WorkNames -> {"none", "DISCOVERED", "QUEUED"}]
        BY <3>3 DEF InsertItem, Fails
      <4>2. outcome' \in [Procs -> Statuses \cup {"none"}]
        BY <3>3 DEF InsertItem, Fails
      <4>3. \E s \in {"save", "queue"} : step' = [step EXCEPT ![p] = s]
        BY <3>3 DEF InsertItem, Fails
      <4> QED
        BY <2>0, <3>3, <4>1, <4>2, <4>3 DEF InsertItem
    <3>4. CASE QueueItem(p)
      <4>1. item' \in [WorkNames -> {"none", "DISCOVERED", "QUEUED"}]
        BY <3>4 DEF QueueItem, Fails
      <4>2. outcome' \in [Procs -> Statuses \cup {"none"}]
        BY <3>4 DEF QueueItem, Fails
      <4>3. step' = [step EXCEPT ![p] = "save"]
        BY <3>4 DEF QueueItem, Fails
      <4> QED
        BY <2>0, <3>4, <4>1, <4>2, <4>3 DEF QueueItem
    <3>5. CASE SaveReceipt(p)
      <4>1. cur[p] \in Envelopes \ Malformed /\ outcome[p] \in Statuses
        BY <3>5 DEF SaveReceipt, Enqueues
      <4>2. receipts' \subseteq [env : Envelopes \ Malformed, status : Statuses, by : Procs]
        BY <3>5, <4>1 DEF SaveReceipt
      <4>3. delivered' \subseteq receipts'
        BY <3>5 DEF SaveReceipt
      <4> QED
        BY <2>0, <3>5, <4>2, <4>3 DEF SaveReceipt, GiveUp
    <3>6. CASE WriteFile(p)
      <4>1. files' \subseteq (Envelopes \X Statuses) /\ delivered' \subseteq receipts
        BY <3>6, DeliverType DEF WriteFile, RowsOf
      <4> QED
        BY <2>0, <3>6, <4>1 DEF WriteFile
    <3>7. CASE Unlink(p)
      BY <2>0, <3>7 DEF Unlink, GiveUp
    <3> QED
      BY <2>4, <3>1, <3>2, <3>3, <3>4, <3>5, <3>6, <3>7 DEF Process
  <2>5. ASSUME NEW d \in Daemons, Loop(d) PROVE InboxTypeOK'
    <3>1. CASE AcquireLeader(d)
      BY <3>1 DEF AcquireLeader
    <3>2. CASE Poll(d)
      BY <3>2 DEF Poll
    <3>3. CASE EndPass(d)
      BY <3>3 DEF EndPass
    <3>4. ASSUME NEW e \in Envelopes, Take(d, e) PROVE InboxTypeOK'
      BY <3>4 DEF Take
    <3>5. ASSUME NEW e \in Envelopes, Quarantine(d, e) PROVE InboxTypeOK'
      BY <2>0, <3>5 DEF Quarantine
    <3> QED
      BY <2>5, <3>1, <3>2, <3>3, <3>4, <3>5 DEF Loop
  <2> QED
    BY <1>2, <2>1, <2>2, <2>3, <2>4, <2>5 DEF InboxNext
<1> QED
  BY <1>1, <1>2
-----------------------------------------------------------------------------
(* One server per key *)

\* A process in the middle of an envelope keeps it, or ends with it.
LEMMA ProcessKeepsCur ==
  ASSUME InboxTypeOK, NEW p \in Procs, Process(p)
  PROVE  /\ cur' \in {cur, [cur EXCEPT ![p] = NoEnvelope]}
         /\ batch' \in {batch, [batch EXCEPT ![p] = @ \ {cur[p]}]}
         /\ inbox' \in {inbox, inbox \ {cur[p]}}
         /\ UNCHANGED <<sent, quarantine, leader>>
         /\ \E s \in Resting \cup Working :
              /\ step' = [step EXCEPT ![p] = s]
              /\ s \in {"poll", "next"} => cur[p] # NoEnvelope
<1> USE DEF dirs, rows, local, Goto, At, Resting, Working
<1>1. CASE Drain(p)
  <2>1. step' = [step EXCEPT ![p] = IF cur[p] = NoEnvelope THEN "lock" ELSE "lookup"]
    BY <1>1 DEF Drain
  <2> QED
    BY <1>1, <2>1, Zenon DEF Drain
<1>2. CASE Lookup(p)
  BY <1>2, LookupCases
<1>3. CASE InsertItem(p)
  BY <1>3 DEF InsertItem, Fails
<1>4. CASE QueueItem(p)
  BY <1>4 DEF QueueItem, Fails
<1>5. CASE SaveReceipt(p)
  <2>1. CASE GiveUp(p) /\ UNCHANGED receipts
    BY <1>5, <2>1 DEF SaveReceipt, GiveUp, InboxTypeOK
  <2>2. CASE ~(GiveUp(p) /\ UNCHANGED receipts)
    BY <1>5, <2>2 DEF SaveReceipt, InboxTypeOK
  <2> QED
    BY <2>1, <2>2
<1>6. CASE WriteFile(p)
  BY <1>6 DEF WriteFile
<1>7. CASE Unlink(p)
  BY <1>7 DEF Unlink, GiveUp, InboxTypeOK
<1> QED
  BY <1>1, <1>2, <1>3, <1>4, <1>5, <1>6, <1>7 DEF Process

\* An envelope a call serves is its own and never comes into an inbox.
LEMMA CustodyStep ==
  ASSUME InboxTypeOK, Custody, [InboxNext]_inboxVars
  PROVE  Custody'
<1> USE InboxAssumption DEF InboxTypeOK, Custody, Procs, Goto, At, dirs, rows, local
<1>1. CASE UNCHANGED inboxVars
  BY <1>1 DEF inboxVars, Direct
<1>2. CASE InboxNext
  <2>1. ASSUME NEW e \in Envelopes, Send(e) PROVE Custody'
    BY <2>1 DEF Send
  <2>2. ASSUME NEW p \in Procs, Start(p) PROVE Custody'
    <3>1. p \in Clis => OwnEnvelope[p] \in Direct
      BY DEF Direct
    <3> QED
      BY <2>2, <3>1 DEF Start
  <2>3. ASSUME NEW p \in Procs, Crash(p) PROVE Custody'
    <3>1. NoEnvelope \notin Direct
      BY DEF Direct
    <3> QED
      BY <2>3, <3>1 DEF Crash
  <2>4. ASSUME NEW p \in Procs, Process(p) PROVE Custody'
    <3>1. NoEnvelope \notin Direct
      BY DEF Direct
    <3> QED
      BY <2>4, <3>1, ProcessKeepsCur
  <2>5. ASSUME NEW d \in Daemons, Loop(d) PROVE Custody'
    <3>1. CASE AcquireLeader(d) \/ Poll(d) \/ EndPass(d)
      BY <3>1 DEF AcquireLeader, Poll, EndPass
    <3>2. ASSUME NEW e \in Envelopes, Take(d, e) \/ Quarantine(d, e) PROVE Custody'
      BY <3>2 DEF Take, Quarantine
    <3> QED
      BY <2>5, <3>1, <3>2 DEF Loop
  <2> QED
    BY <1>2, <2>1, <2>2, <2>3, <2>4, <2>5 DEF InboxNext
<1> QED
  BY <1>1, <1>2

\* Only the leader serves the inbox; whoever loses the lead has stopped serving.
LEMMA OneServerStep ==
  ASSUME InboxTypeOK, OneServer, [InboxNext]_inboxVars
  PROVE  OneServer'
<1> USE InboxAssumption DEF InboxTypeOK, OneServer, Serving, Procs, Goto, At, dirs, rows, local
<1>1. CASE UNCHANGED inboxVars
  BY <1>1 DEF inboxVars
<1>2. CASE InboxNext
  <2>1. ASSUME NEW e \in Envelopes, Send(e) PROVE OneServer'
    BY <2>1 DEF Send
  <2>2. ASSUME NEW p \in Procs, Start(p) \/ Crash(p) PROVE OneServer'
    BY <2>2 DEF Start, Crash
  <2>3. ASSUME NEW p \in Procs, Process(p) PROVE OneServer'
    BY <2>3, ProcessKeepsCur
  <2>4. ASSUME NEW d \in Daemons, Loop(d) PROVE OneServer'
    <3>1. CASE AcquireLeader(d)
      <4>1. ASSUME NEW x \in Daemons, x # d PROVE ~Serving(x)
        BY <3>1, <4>1 DEF AcquireLeader, Leading
      <4> QED
        BY <3>1, <4>1 DEF AcquireLeader
    <3>2. CASE Poll(d) \/ EndPass(d)
      BY <3>2 DEF Poll, EndPass
    <3>3. ASSUME NEW e \in Envelopes, Take(d, e) \/ Quarantine(d, e) PROVE OneServer'
      BY <3>3 DEF Take, Quarantine
    <3> QED
      BY <2>4, <3>1, <3>2, <3>3 DEF Loop
  <2> QED
    BY <1>2, <2>1, <2>2, <2>3, <2>4 DEF InboxNext
<1> QED
  BY <1>1, <1>2

\* So the keys two processes serve at once are different.
LEMMA KeyHasOneServer ==
  ASSUME InboxTypeOK, Custody, OneServer, NEW p \in Procs, NEW q \in Procs,
         cur[p] # NoEnvelope, cur[q] # NoEnvelope, KeyOf[cur[p]] = KeyOf[cur[q]]
  PROVE  p = q
<1> USE InboxAssumption DEF InboxTypeOK, Custody, Procs
<1>1. CASE p \in Daemons /\ q \in Daemons
  BY <1>1 DEF OneServer, Serving
<1>2. CASE p \in Clis /\ q \in Clis
  BY <1>2
<1>3. ASSUME NEW c \in Clis, NEW d \in Daemons, cur[c] # NoEnvelope, cur[d] # NoEnvelope,
             KeyOf[cur[c]] = KeyOf[cur[d]]
      PROVE  FALSE
  <2>1. cur[c] = OwnEnvelope[c] /\ cur[d] = cur[c]
    BY <1>3
  <2>2. OwnEnvelope[c] \in Direct
    BY DEF Direct
  <2> QED
    BY <2>1, <2>2
<1> QED
  BY <1>1, <1>2, <1>3
-----------------------------------------------------------------------------
(* One receipt per key *)

\* A process moves no other.
LEMMA OthersStay ==
  ASSUME InboxTypeOK, NEW p \in Procs, NEW q \in Procs, q # p,
         Start(p) \/ Crash(p) \/ Process(p)
  PROVE  UNCHANGED <<step[q], cur[q], outcome[q]>>
<1> USE DEF InboxTypeOK, Goto, local
<1>1. CASE Start(p) \/ Crash(p)
  BY <1>1 DEF Start, Crash
<1>2. CASE Process(p)
  <2>1. UNCHANGED <<step[q], cur[q]>>
    BY <1>2, ProcessKeepsCur
  <2>2. CASE Drain(p) \/ WriteFile(p)
    BY <2>1, <2>2 DEF Drain, WriteFile
  <2>3. CASE Lookup(p)
    BY <2>1, <2>3, LookupCases
  <2>4. CASE InsertItem(p) \/ QueueItem(p)
    BY <2>1, <2>4 DEF InsertItem, QueueItem, Fails
  <2>5. CASE SaveReceipt(p) \/ Unlink(p)
    BY <2>1, <2>5 DEF SaveReceipt, Unlink, GiveUp
  <2> QED
    BY <1>2, <2>2, <2>3, <2>4, <2>5 DEF Process
<1> QED
  BY <1>1, <1>2

\* The table of receipts grows by SaveReceipt alone, by one row for its envelope.
LEMMA ReceiptsGrow ==
  ASSUME InboxTypeOK, InboxNext
  PROVE  \/ UNCHANGED receipts
         \/ \E p \in Procs :
              /\ step[p] = "save" /\ step' = [step EXCEPT ![p] = "write"]
              /\ UNCHANGED <<item, inbox, quarantine, sent, local, mishaps>>
              /\ receipts' = receipts \cup {[env |-> cur[p], status |-> outcome[p], by |-> p]}
<1> USE DEF rows, dirs, local, At, Goto
<1>1. ASSUME NEW e \in Envelopes, Send(e) PROVE UNCHANGED receipts
  BY <1>1 DEF Send
<1>2. ASSUME NEW p \in Procs, Start(p) \/ Crash(p) PROVE UNCHANGED receipts
  BY <1>2 DEF Start, Crash
<1>3. ASSUME NEW d \in Daemons, Loop(d) PROVE UNCHANGED receipts
  BY <1>3 DEF Loop, AcquireLeader, Poll, EndPass, Take, Quarantine
<1>4. ASSUME NEW p \in Procs, Process(p), ~SaveReceipt(p) PROVE UNCHANGED receipts
  BY <1>4, LookupCases DEF Process, Drain, InsertItem, QueueItem, WriteFile, Unlink
<1>5. ASSUME NEW p \in Procs, SaveReceipt(p)
      PROVE  \/ UNCHANGED receipts
             \/ /\ step[p] = "save" /\ step' = [step EXCEPT ![p] = "write"]
                /\ UNCHANGED <<item, inbox, quarantine, sent, local, mishaps>>
                /\ receipts' = receipts \cup {[env |-> cur[p], status |-> outcome[p], by |-> p]}
  BY <1>5 DEF SaveReceipt, NoFault
<1> QED
  BY <1>1, <1>2, <1>3, <1>4, <1>5 DEF InboxNext

\* The answers to a key stay as they are unless its one server is saving.
LEMMA KnownGrows ==
  ASSUME InboxTypeOK, InboxNext,
         NEW e \in Envelopes
  PROVE  /\ Known(e) \subseteq Known(e)'
         /\ Known(e)' # Known(e) =>
              \E p \in Procs : /\ step[p] = "save" /\ step'[p] = "write"
                               /\ cur[p] \in Envelopes /\ KeyOf[cur[p]] = KeyOf[e]
<1>1. CASE UNCHANGED receipts
  BY <1>1 DEF Known, RowsOfKey
<1>2. ASSUME NEW p \in Procs, step[p] = "save", step' = [step EXCEPT ![p] = "write"],
             receipts' = receipts \cup {[env |-> cur[p], status |-> outcome[p], by |-> p]}
      PROVE  /\ Known(e) \subseteq Known(e)'
             /\ Known(e)' # Known(e) =>
                   /\ step[p] = "save" /\ step'[p] = "write"
                   /\ cur[p] \in Envelopes /\ KeyOf[cur[p]] = KeyOf[e]
  <2>1. cur[p] \in Envelopes /\ step'[p] = "write"
    BY <1>2 DEF InboxTypeOK, Resting
  <2>2. KeyOf[cur[p]] # KeyOf[e] => Known(e)' = Known(e)
    BY <1>2 DEF Known, RowsOfKey
  <2>3. Known(e) \subseteq Known(e)'
    BY <1>2 DEF Known, RowsOfKey
  <2> QED
    BY <1>2, <2>1, <2>2, <2>3
<1> QED
  BY <1>1, <1>2, ReceiptsGrow

\* What the look-up found out of a key stays so while its server works on it.
LEMMA AskedStep ==
  ASSUME InboxTypeOK, Custody, OneServer, \A p \in Procs : Asked(p) /\ Enqueues(p),
         [InboxNext]_inboxVars, NEW q \in Procs
  PROVE  Asked(q)'
<1> USE DEF Goto, At, dirs, rows, local
<1>1. CASE UNCHANGED inboxVars
  BY <1>1 DEF inboxVars, Asked, Known, RowsOfKey
<1>2. CASE InboxNext
  <2>0. SUFFICES ASSUME step'[q] \in {"insert", "queue", "save", "write", "unlink"}
                 PROVE  Asked(q)'
    BY DEF Asked
  <2>1. ASSUME UNCHANGED <<step[q], cur[q]>> PROVE Asked(q)'
    <3>1. PICK e \in Envelopes : e = cur[q]
      BY <2>0, <2>1 DEF InboxTypeOK, Resting
    <3>2. ASSUME Known(e)' # Known(e), step[q] \in {"insert", "queue", "save"} PROVE FALSE
      <4>1. PICK p \in Procs : /\ step[p] = "save" /\ step'[p] = "write"
                               /\ cur[p] \in Envelopes /\ KeyOf[cur[p]] = KeyOf[e]
        BY <1>2, <3>1, <3>2, KnownGrows
      <4>2. p = q
        BY <3>1, <4>1, KeyHasOneServer, InboxAssumption
      <4> QED
        BY <2>1, <4>1, <4>2
    <3>3. Known(e) \subseteq Known(e)'
      BY <1>2, <3>1, KnownGrows
    <3>4. Known(cur[q])' = Known(e)' /\ Known(cur[q]) = Known(e)
      BY <2>1, <3>1 DEF Known, RowsOfKey
    <3> QED
      BY <2>1, <3>2, <3>3, <3>4 DEF Asked
  <2>2. ASSUME NEW x \in Envelopes, Send(x) PROVE Asked(q)'
    BY <2>1, <2>2 DEF Send
  <2>3. ASSUME NEW p \in Procs, Start(p) \/ Crash(p) PROVE Asked(q)'
    BY <2>0, <2>1, <2>3, OthersStay DEF Start, Crash, InboxTypeOK
  <2>4. ASSUME NEW d \in Daemons, Loop(d) PROVE Asked(q)'
    <3>1. d # q
      BY <2>0, <2>4 DEF Loop, AcquireLeader, Poll, EndPass, Take, Quarantine, InboxTypeOK
    <3>2. UNCHANGED <<step[q], cur[q]>>
      BY <2>4, <3>1 DEF Loop, AcquireLeader, Poll, EndPass, Take, Quarantine, InboxTypeOK
    <3> QED
      BY <2>1, <3>2
  <2>5. ASSUME Process(q) PROVE Asked(q)'
    <3>1. CASE Drain(q) \/ Unlink(q)
      BY <2>0, <3>1 DEF Drain, Unlink, GiveUp, InboxTypeOK
    <3>2. CASE Lookup(q)
      BY <3>2, LookupCases DEF Asked, Known, RowsOfKey, InboxTypeOK
    <3>3. CASE InsertItem(q) \/ QueueItem(q) \/ WriteFile(q)
      BY <3>3 DEF InsertItem, QueueItem, WriteFile, Fails, Asked, Known, RowsOfKey, InboxTypeOK
    <3>4. CASE SaveReceipt(q)
      <4>1. CASE step'[q] = "save"
        <5>1. UNCHANGED <<cur, receipts>> /\ step[q] = "save"
          BY <3>4, <4>1 DEF SaveReceipt, GiveUp, InboxTypeOK
        <5> QED
          BY <4>1, <5>1 DEF Asked, Known, RowsOfKey
      <4>2. CASE step'[q] = "write"
        <5> DEFINE r == [env |-> cur[q], status |-> outcome[q], by |-> q]
        <5>1. UNCHANGED cur /\ r \in receipts'
          BY <3>4, <4>2 DEF SaveReceipt, GiveUp, InboxTypeOK
        <5>2. r.env = cur'[q]
          BY <5>1
        <5> HIDE DEF r
        <5>3. Known(cur[q])' # {}
          BY <5>1, <5>2 DEF Known, RowsOfKey
        <5> QED
          BY <4>2, <5>3 DEF Asked
      <4>3. step'[q] \in {"save", "write"}
        BY <2>0, <3>4 DEF SaveReceipt, GiveUp, InboxTypeOK
      <4> QED
        BY <4>1, <4>2, <4>3
    <3> QED
      BY <2>5, <3>1, <3>2, <3>3, <3>4 DEF Process
  <2> QED
    BY <1>2, <2>1, <2>2, <2>3, <2>4, <2>5, OthersStay DEF InboxNext
<1> QED
  BY <1>1, <1>2

\* A receipt is saved only by the one server of a key that had none.
LEMMA OneReceiptStep ==
  ASSUME InboxTypeOK, \A p \in Procs : Asked(p), OneReceiptPerKey, [InboxNext]_inboxVars
  PROVE  OneReceiptPerKey'
<1>1. CASE UNCHANGED receipts
  BY <1>1 DEF OneReceiptPerKey
<1>2. ASSUME NEW p \in Procs, step[p] = "save",
             receipts' = receipts \cup {[env |-> cur[p], status |-> outcome[p], by |-> p]}
      PROVE  OneReceiptPerKey'
  <2> DEFINE new == [env |-> cur[p], status |-> outcome[p], by |-> p]
  <2>1. \A r \in receipts : KeyOf[r.env] # KeyOf[cur[p]]
    BY <1>2 DEF Asked, Known, RowsOfKey
  <2>2. new.env = cur[p] /\ receipts' = receipts \cup {new}
    BY <1>2
  <2> HIDE DEF new
  <2> QED
    BY <2>1, <2>2 DEF OneReceiptPerKey
<1> QED
  BY <1>1, <1>2, ReceiptsGrow DEF inboxVars

\* An envelope leaves the inbox unanswered for the quarantine only.
LEMMA NoLossStep ==
  ASSUME InboxTypeOK, \A p \in Procs : Asked(p), NoLostCommand, [InboxNext]_inboxVars
  PROVE  NoLostCommand'
<1> USE DEF dirs, rows, local, At, Goto
<1>1. CASE UNCHANGED inboxVars
  BY <1>1 DEF inboxVars, NoLostCommand, Known, RowsOfKey, Direct
<1>2. CASE InboxNext
  <2> SUFFICES ASSUME NEW e \in Envelopes, e \in sent', e \notin inbox', e \notin quarantine',
                      e \notin Direct
               PROVE  Known(e)' # {}
    <3>1. sent' \subseteq Envelopes
      <4>1. ASSUME NEW x \in Envelopes, Send(x) PROVE sent' \subseteq Envelopes
        BY <4>1 DEF Send, InboxTypeOK
      <4>2. ASSUME NEW p \in Procs, Start(p) \/ Crash(p) PROVE sent' \subseteq Envelopes
        BY <4>2, InboxAssumption DEF Start, Crash, InboxTypeOK
      <4>3. ASSUME NEW p \in Procs, Process(p) PROVE sent' \subseteq Envelopes
        BY <4>3, ProcessKeepsCur DEF InboxTypeOK
      <4>4. ASSUME NEW d \in Daemons, Loop(d) PROVE sent' \subseteq Envelopes
        BY <4>4 DEF Loop, AcquireLeader, Poll, EndPass, Take, Quarantine, InboxTypeOK
      <4> QED
        BY <1>2, <4>1, <4>2, <4>3, <4>4 DEF InboxNext
    <3> QED
      BY <3>1 DEF NoLostCommand, Direct
  <2>1. Known(e) # {} => Known(e)' # {}
    BY <1>2, KnownGrows
  <2>2. e \in sent /\ e \notin inbox /\ e \notin quarantine => Known(e) # {}
    BY DEF NoLostCommand
  <2>3. ASSUME NEW x \in Envelopes, Send(x) PROVE Known(e)' # {}
    BY <2>1, <2>2, <2>3 DEF Send
  <2>4. ASSUME NEW p \in Procs, Start(p) \/ Crash(p) PROVE Known(e)' # {}
    <3>1. p \in Clis => OwnEnvelope[p] \in Direct
      BY DEF Direct
    <3> QED
      BY <2>1, <2>2, <2>4, <3>1 DEF Start, Crash
  <2>5. ASSUME NEW p \in Procs, Process(p) PROVE Known(e)' # {}
    <3>1. CASE Unlink(p)
      BY <2>1, <2>2, <2>5, <3>1, ProcessKeepsCur DEF Unlink, Asked
    <3>2. CASE ~Unlink(p)
      <4>1. UNCHANGED inbox
        <5>1. CASE Lookup(p)
          BY <5>1, LookupCases
        <5>2. CASE ~Lookup(p)
          BY <2>5, <3>2, <5>2 DEF Process, Drain, InsertItem, QueueItem, SaveReceipt, WriteFile
        <5> QED
          BY <5>1, <5>2
      <4> QED
        BY <2>1, <2>2, <2>5, <4>1, ProcessKeepsCur
    <3> QED
      BY <3>1, <3>2
  <2>6. ASSUME NEW d \in Daemons, Loop(d) PROVE Known(e)' # {}
    BY <2>1, <2>2, <2>6 DEF Loop, AcquireLeader, Poll, EndPass, Take, Quarantine
  <2> QED
    BY <1>2, <2>3, <2>4, <2>5, <2>6 DEF InboxNext
<1> QED
  BY <1>1, <1>2

-----------------------------------------------------------------------------
(* Success means work *)

\* The items move by the two transactions of the handler alone.
LEMMA ItemsMove ==
  ASSUME InboxNext
  PROVE  \/ UNCHANGED item
         \/ \E p \in Procs : InsertItem(p) \/ QueueItem(p)
<1> USE DEF dirs, rows, local
<1>1. ASSUME NEW e \in Envelopes, Send(e) PROVE UNCHANGED item
  BY <1>1 DEF Send
<1>2. ASSUME NEW p \in Procs, Start(p) \/ Crash(p) PROVE UNCHANGED item
  BY <1>2 DEF Start, Crash
<1>3. ASSUME NEW d \in Daemons, Loop(d) PROVE UNCHANGED item
  BY <1>3 DEF Loop, AcquireLeader, Poll, EndPass, Take, Quarantine
<1>4. ASSUME NEW p \in Procs, Process(p), ~InsertItem(p), ~QueueItem(p) PROVE UNCHANGED item
  BY <1>4, LookupCases DEF Process, Drain, SaveReceipt, WriteFile, Unlink
<1> QED
  BY <1>1, <1>2, <1>3, <1>4 DEF InboxNext

\* An item that is there stays, one that is queued stays queued, and what is
\* admitted stays admitted.
LEMMA ItemsStay ==
  ASSUME InboxTypeOK, InboxNext, NEW i \in WorkNames
  PROVE  /\ item[i] # "none" => item'[i] # "none"
         /\ item[i] = "QUEUED" => item'[i] = "QUEUED"
         /\ Admitted(i) => Admitted(i)'
<1>1. CASE UNCHANGED item
  BY <1>1, MishapsGrow DEF Admitted, InboxTypeOK
<1>2. ASSUME NEW p \in Procs, InsertItem(p) \/ QueueItem(p)
      PROVE  item' = item \/ item' = [item EXCEPT ![ItemOf[cur[p]]] = "QUEUED"]
             \/ (item[ItemOf[cur[p]]] = "none"
                 /\ item' = [item EXCEPT ![ItemOf[cur[p]]] = "DISCOVERED"])
  BY <1>2 DEF InsertItem, QueueItem, Fails
<1>3. ASSUME NEW p \in Procs, InsertItem(p) \/ QueueItem(p)
      PROVE  /\ item[i] # "none" => item'[i] # "none"
             /\ item[i] = "QUEUED" => item'[i] = "QUEUED"
             /\ item[i] = "DISCOVERED" => item'[i] \in {"DISCOVERED", "QUEUED"}
  BY <1>2, <1>3 DEF InboxTypeOK
<1> QED
  BY <1>1, <1>3, ItemsMove, MishapsGrow DEF Admitted, InboxTypeOK

\* An item is enqueued by one process at a time: the leader, one envelope after
\* the other, or the call whose envelope alone names it.
LEMMA OneEnqueuer ==
  ASSUME InboxTypeOK, Custody, OneServer, \A p \in Procs : Enqueues(p),
         NEW p \in Procs, NEW q \in Procs, ItemOf[cur[p]] = ItemOf[cur[q]],
         step[p] \in {"insert", "queue"}, step[q] \in {"insert", "queue"}
  PROVE  p = q
<1>1. \A x \in {p, q} : /\ cur[x] # NoEnvelope /\ cur[x] \in Envelopes
                        /\ cur[x] \notin Forbidden \cup Unknown
  BY DEF InboxTypeOK, Resting, Enqueues
<1>2. ASSUME NEW x \in {p, q}, NEW y \in {p, q}, x \in Clis
      PROVE  x = y
  <2>1. cur[x] = OwnEnvelope[x]
    BY <1>1, <1>2 DEF Custody
  <2>2. cur[y] = OwnEnvelope[x]
    BY <1>1, <1>2, <2>1, InboxAssumption
  <2>3. y \notin Daemons
    BY <1>2, <2>2 DEF Custody, Direct
  <2>4. y \in Clis /\ cur[y] = OwnEnvelope[y]
    BY <1>1, <2>3 DEF Custody, Procs
  <2> QED
    BY <1>2, <2>2, <2>4, InboxAssumption
<1> QED
  BY <1>1, <1>2 DEF OneServer, Serving, Procs

\* The enqueue handler goes on from an item it has inserted.
LEMMA EnqueuesStep ==
  ASSUME InboxTypeOK, Custody, OneServer, \A p \in Procs : Enqueues(p), HalfDone,
         [InboxNext]_inboxVars, NEW q \in Procs
  PROVE  Enqueues(q)'
<1> USE DEF Goto, At, dirs, rows, local
<1>1. CASE UNCHANGED inboxVars
  BY <1>1 DEF inboxVars, Enqueues, Admitted
<1>2. CASE InboxNext
  <2>0. SUFFICES ASSUME step'[q] \in {"insert", "queue", "save"}
                 PROVE  Enqueues(q)'
    BY DEF Enqueues
  <2>1. ASSUME UNCHANGED <<step[q], cur[q], outcome[q]>> PROVE Enqueues(q)'
    <3>1. PICK i \in WorkNames : i = ItemOf[cur[q]]
      BY <2>0, <2>1, InboxAssumption DEF InboxTypeOK, Resting
    <3>2. /\ item[i] # "none" => item'[i] # "none"
          /\ Admitted(i) => Admitted(i)'
      BY <1>2, <3>1, ItemsStay
    <3>3. Admitted(ItemOf[cur[q]])' = Admitted(i)' /\ Admitted(ItemOf[cur[q]]) = Admitted(i)
      BY <2>1, <3>1 DEF Admitted
    <3> QED
      BY <2>1, <3>1, <3>2, <3>3 DEF Enqueues
  <2>2. ASSUME NEW x \in Envelopes, Send(x) PROVE Enqueues(q)'
    BY <2>1, <2>2 DEF Send
  <2>3. ASSUME NEW p \in Procs, Start(p) \/ Crash(p) PROVE Enqueues(q)'
    BY <2>0, <2>1, <2>3, OthersStay DEF Start, Crash, InboxTypeOK
  <2>4. ASSUME NEW d \in Daemons, Loop(d) PROVE Enqueues(q)'
    <3>1. d # q
      BY <2>0, <2>4 DEF Loop, AcquireLeader, Poll, EndPass, Take, Quarantine, InboxTypeOK
    <3>2. UNCHANGED <<step[q], cur[q], outcome[q]>>
      BY <2>4, <3>1 DEF Loop, AcquireLeader, Poll, EndPass, Take, Quarantine, InboxTypeOK
    <3> QED
      BY <2>1, <3>2
  <2>5. ASSUME Process(q) PROVE Enqueues(q)'
    <3>1. CASE Drain(q) \/ Unlink(q) \/ WriteFile(q)
      BY <2>0, <3>1 DEF Drain, Unlink, WriteFile, GiveUp, InboxTypeOK
    <3>2. CASE Lookup(q)
      BY <2>0, <3>2, LookupCases DEF Enqueues, InboxTypeOK
    <3>3. CASE InsertItem(q)
      <4>1. PICK i \in WorkNames : i = ItemOf[cur[q]]
        BY <3>3, InboxAssumption DEF InsertItem, InboxTypeOK, Resting
      <4>2. CASE item[i] # "none" /\ outcome'[q] = "SUCCESS" /\ step'[q] = "save"
                 /\ UNCHANGED <<item, cur, mishaps>>
        <5>1. ASSUME item[i] = "DISCOVERED", mishaps = 0 PROVE FALSE
          <6>1. PICK p \in Procs : step[p] = "queue" /\ ItemOf[cur[p]] = i
            BY <5>1 DEF HalfDone
          <6>2. step[q] = "insert"
            BY <3>3 DEF InsertItem
          <6> QED
            BY <4>1, <6>1, <6>2, OneEnqueuer
        <5>2. Admitted(i)'
          BY <4>2, <5>1 DEF Admitted, InboxTypeOK
        <5> QED
          BY <4>1, <4>2, <5>2 DEF Enqueues, Admitted
      <4>3. CASE item' = [item EXCEPT ![i] = "DISCOVERED"] /\ step'[q] = "queue"
        BY <3>3, <4>1, <4>3 DEF InsertItem, Enqueues, InboxTypeOK
      <4>4. CASE outcome'[q] = "ERROR" /\ step'[q] = "save"
        BY <4>4 DEF Enqueues
      <4> QED
        BY <3>3, <4>1, <4>2, <4>3, <4>4 DEF InsertItem, Fails, NoFault, InboxTypeOK
    <3>4. CASE QueueItem(q)
      <4>1. ItemOf[cur[q]] \in WorkNames
        BY <3>4, InboxAssumption DEF QueueItem, InboxTypeOK, Resting
      <4> QED
        BY <3>4, <4>1 DEF QueueItem, Fails, Enqueues, Admitted, InboxTypeOK
    <3>5. CASE SaveReceipt(q)
      BY <2>0, <3>5 DEF SaveReceipt, GiveUp, Enqueues, InboxTypeOK
    <3> QED
      BY <2>5, <3>1, <3>2, <3>3, <3>4, <3>5 DEF Process
  <2> QED
    BY <1>2, <2>1, <2>2, <2>3, <2>4, <2>5, OthersStay DEF InboxNext
<1> QED
  BY <1>1, <1>2

\* An item that is only discovered is being queued.
LEMMA HalfDoneStep ==
  ASSUME InboxTypeOK, HalfDone, [InboxNext]_inboxVars
  PROVE  HalfDone'
<1> USE DEF Goto, At, dirs, rows, local
<1>1. CASE UNCHANGED inboxVars
  BY <1>1 DEF inboxVars, HalfDone
<1>2. CASE InboxNext
  <2> SUFFICES ASSUME NEW i \in WorkNames, item'[i] = "DISCOVERED", mishaps' = 0
               PROVE  \E p \in Procs : step'[p] = "queue" /\ ItemOf[cur'[p]] = i
    BY DEF HalfDone
  <2>0. mishaps = 0
    BY <1>2, MishapsGrow DEF InboxTypeOK
  <2>1. CASE item[i] = "DISCOVERED"
    <3>1. PICK p \in Procs : step[p] = "queue" /\ ItemOf[cur[p]] = i
      BY <2>0, <2>1 DEF HalfDone
    <3> SUFFICES UNCHANGED <<step[p], cur[p]>>
      BY <3>1
    <3>2. ASSUME NEW x \in Envelopes, Send(x) PROVE UNCHANGED <<step[p], cur[p]>>
      BY <3>2 DEF Send
    <3>3. ~Start(p) /\ ~Crash(p)
      BY <2>0, <3>1 DEF Start, Crash, Fault
    <3>4. ~Process(p)
      <4>1. ~Lookup(p)
        BY <3>1, LookupCases
      <4>2. ~QueueItem(p)
        BY <2>0, <3>1 DEF QueueItem, Fails, Fault, InboxTypeOK
      <4> QED
        BY <3>1, <4>1, <4>2 DEF Process, Drain, InsertItem, SaveReceipt, WriteFile, Unlink
    <3>5. ASSUME NEW d \in Daemons, Loop(d) PROVE UNCHANGED <<step[p], cur[p]>>
      BY <3>1, <3>5 DEF Loop, AcquireLeader, Poll, EndPass, Take, Quarantine, InboxTypeOK
    <3> QED
      BY <1>2, <3>2, <3>3, <3>4, <3>5, OthersStay DEF InboxNext
  <2>2. CASE item[i] # "DISCOVERED"
    <3>1. item[i] = "none"
      BY <1>2, <2>2, ItemsStay DEF InboxTypeOK
    <3>2. PICK p \in Procs : InsertItem(p) \/ QueueItem(p)
      BY <1>2, <2>2, ItemsMove
    <3>3. ~QueueItem(p)
      BY <3>1 DEF QueueItem, Fails, InboxTypeOK
    <3>4. item' = [item EXCEPT ![ItemOf[cur[p]]] = "DISCOVERED"] /\ step'[p] = "queue"
          /\ UNCHANGED cur
      BY <2>2, <3>2, <3>3 DEF InsertItem, Fails, InboxTypeOK
    <3> QED
      BY <2>2, <3>4 DEF InboxTypeOK
  <2> QED
    BY <2>1, <2>2
<1> QED
  BY <1>1, <1>2

\* What SUCCESS has been recorded for stays admitted.
LEMMA AdmittedStep ==
  ASSUME InboxTypeOK, \A p \in Procs : Enqueues(p), SuccessIsAdmitted, [InboxNext]_inboxVars
  PROVE  SuccessIsAdmitted'
<1>1. CASE UNCHANGED inboxVars
  BY <1>1 DEF inboxVars, SuccessIsAdmitted
<1>2. CASE InboxNext
  <2> SUFFICES ASSUME NEW r \in receipts', r.status = "SUCCESS"
               PROVE  Admitted(ItemOf[r.env])'
    BY DEF SuccessIsAdmitted, Admitted
  <2>1. CASE r \in receipts
    <3>1. ItemOf[r.env] \in WorkNames
      BY <2>1, InboxAssumption DEF InboxTypeOK
    <3>2. Admitted(ItemOf[r.env])
      BY <2>1 DEF SuccessIsAdmitted, Admitted
    <3> QED
      BY <1>2, <3>1, <3>2, ItemsStay
  <2>2. CASE r \notin receipts
    <3>1. PICK p \in Procs : /\ step[p] = "save" /\ UNCHANGED <<item, mishaps>>
                             /\ r = [env |-> cur[p], status |-> outcome[p], by |-> p]
      BY <1>2, <2>2, ReceiptsGrow
    <3>2. Admitted(ItemOf[r.env])
      BY <3>1 DEF Enqueues
    <3> QED
      BY <3>1, <3>2 DEF Admitted
  <2> QED
    BY <2>1, <2>2
<1> QED
  BY <1>1, <1>2

-----------------------------------------------------------------------------

\* The inductive invariant.
LEMMA InitInv == InboxInit => Inv
<1> SUFFICES ASSUME InboxInit PROVE Inv
  OBVIOUS
<1>1. InboxTypeOK
  BY InitType
<1>2. Custody /\ OneServer /\ HalfDone
  BY InboxAssumption DEF InboxInit, Custody, OneServer, Serving, HalfDone, Procs, Direct
<1>3. \A p \in Procs : Asked(p) /\ Enqueues(p)
  BY DEF InboxInit, Asked, Enqueues
<1>4. OneReceiptPerKey /\ NoLostCommand /\ SuccessIsAdmitted
  BY DEF InboxInit, OneReceiptPerKey, NoLostCommand, SuccessIsAdmitted
<1> QED
  BY <1>1, <1>2, <1>3, <1>4 DEF Inv

\* Every step keeps it.
LEMMA StepInv == Inv /\ [InboxNext]_inboxVars => Inv'
<1> SUFFICES ASSUME Inv, [InboxNext]_inboxVars PROVE Inv'
  OBVIOUS
<1> USE DEF Inv
<1>1. InboxTypeOK'
  BY TypesStep
<1>2. Custody' /\ OneServer'
  BY CustodyStep, OneServerStep
<1>3. ASSUME NEW p \in Procs PROVE Asked(p)' /\ Enqueues(p)'
  BY AskedStep, EnqueuesStep
<1>4. HalfDone'
  BY HalfDoneStep
<1>5. OneReceiptPerKey' /\ NoLostCommand' /\ SuccessIsAdmitted'
  BY OneReceiptStep, NoLossStep, AdmittedStep
<1> QED
  BY <1>1, <1>2, <1>3, <1>4, <1>5

LEMMA AlwaysInv == InboxSpec => []Inv
  BY InitInv, StepInv, PTL DEF InboxSpec
-----------------------------------------------------------------------------
(* The refinement of IdempotentCommands *)

\* What the two variables of the promise are here.
answers == [k \in Keys |-> Answer(k)]
works   == {i \in WorkNames : item[i] # "none"}
wants   == [k \in Keys |-> ItemOf[CHOOSE e \in Envelopes : KeyOf[e] = k]]

\* The envelopes of one key ask for one item: the work the key wants.
LEMMA WantsItem ==
  ASSUME NEW e \in Envelopes
  PROVE  KeyOf[e] \in Keys /\ wants[KeyOf[e]] = ItemOf[e]
<1>1. KeyOf[e] \in Keys
  BY InboxAssumption
<1>2. \A x \in Envelopes : KeyOf[x] = KeyOf[e] => ItemOf[x] = ItemOf[e]
  BY InboxAssumption
<1>3. wants[KeyOf[e]] = ItemOf[CHOOSE x \in Envelopes : KeyOf[x] = KeyOf[e]]
  BY <1>1 DEF wants
<1> QED
  BY <1>1, <1>2, <1>3

\* The answer to a key changes only with its receipts.
LEMMA AnswerStays ==
  ASSUME NEW k, RowsOfKey(k)' = RowsOfKey(k)
  PROVE  Answer(k)' = Answer(k)
  BY DEF Answer

\* Inserting an item is the work of the key that waits for its answer.
LEMMA InsertPerforms ==
  ASSUME Inv, NEW p \in Procs, InsertItem(p), item[ItemOf[cur[p]]] = "none", item' # item
  PROVE  \E k \in Keys : Promise!Perform(k)
<1>1. PICK e \in Envelopes : e = cur[p]
  BY DEF InsertItem, Inv, InboxTypeOK, At, Resting
<1>2. PICK k \in Keys : k = KeyOf[e] /\ wants[k] = ItemOf[e]
  BY WantsItem
<1>3. answers[k] = "none"
  <2>1. RowsOfKey(k) = {}
    BY <1>1, <1>2 DEF InsertItem, At, Inv, Asked, Known
  <2> QED
    BY <2>1 DEF answers, Answer
<1>4. works' = works \cup {wants[k]}
  <2>1. item' = [item EXCEPT ![ItemOf[e]] = "DISCOVERED"]
    BY <1>1 DEF InsertItem, Fails
  <2>2. ItemOf[e] \in WorkNames
    BY InboxAssumption
  <2> QED
    BY <1>2, <2>1, <2>2 DEF works, Inv, InboxTypeOK
<1>5. answers' = answers
  BY DEF InsertItem, rows, answers, Answer, RowsOfKey
<1> QED
  BY <1>3, <1>4, <1>5 DEF Promise!Perform, answers, works, wants

\* Saving a receipt is the answer to its key.
LEMMA SaveAnswers ==
  ASSUME Inv, NEW p \in Procs, step[p] = "save", UNCHANGED item,
         receipts' = receipts \cup {[env |-> cur[p], status |-> outcome[p], by |-> p]}
  PROVE  \E k \in Keys, a \in Statuses : Promise!AnswerWith(k, a)
<1>1. PICK e \in Envelopes, a \in Statuses : e = cur[p] /\ a = outcome[p]
  BY DEF Inv, InboxTypeOK, Resting, Enqueues
<1> DEFINE new == [env |-> e, status |-> a, by |-> p]
<1>2. PICK k \in Keys : k = KeyOf[e] /\ wants[k] = ItemOf[e]
  BY WantsItem
<1>3. new.env = e /\ new.status = a /\ receipts' = receipts \cup {new}
  BY <1>1
<1> HIDE DEF new
<1>4. RowsOfKey(k) = {} /\ RowsOfKey(k)' = {new}
  <2>1. RowsOfKey(k) = {}
    BY <1>1, <1>2 DEF Inv, Asked, Known
  <2> QED
    BY <1>2, <1>3, <2>1 DEF RowsOfKey
<1>5. answers[k] = "none" /\ answers' = [answers EXCEPT ![k] = a]
  <2>1. Answer(k) = "none" /\ Answer(k)' = a
    BY <1>3, <1>4 DEF Answer
  <2>2. ASSUME NEW j \in Keys, j # k PROVE Answer(j)' = Answer(j)
    <3>1. RowsOfKey(j)' = RowsOfKey(j)
      BY <1>2, <1>3, <2>2 DEF RowsOfKey
    <3> QED
      BY <3>1, AnswerStays
  <2> QED
    BY <2>1, <2>2 DEF answers
<1>6. a = "SUCCESS" => wants[k] \in works
  <2>1. a = "SUCCESS" => Admitted(ItemOf[e])
    BY <1>1 DEF Inv, Enqueues
  <2>2. ItemOf[e] \in WorkNames
    BY InboxAssumption
  <2> QED
    BY <1>2, <2>1, <2>2 DEF works, Admitted
<1>7. works' = works
  BY DEF works
<1>8. Promise!AnswerWith(k, a)
  BY <1>5, <1>6, <1>7 DEF Promise!AnswerWith, answers, works, wants
<1> QED
  BY <1>8

\* Every step of the conductor is a step of the promise, or none of its business.
LEMMA StepKeepsPromise ==
  ASSUME Inv, [InboxNext]_inboxVars
  PROVE  [Promise!CommandNext]_(Promise!commandVars)
<1>1. ASSUME answers' = answers, works' = works
      PROVE  UNCHANGED Promise!commandVars
  BY <1>1 DEF Promise!commandVars, answers, works
<1>2. CASE UNCHANGED inboxVars
  BY <1>1, <1>2 DEF inboxVars, answers, works, Answer, RowsOfKey
<1>3. CASE InboxNext /\ UNCHANGED receipts
  <2>1. answers' = answers
    BY <1>3 DEF answers, Answer, RowsOfKey
  <2>2. CASE works' = works
    BY <1>1, <2>1, <2>2
  <2>3. CASE works' # works
    <3>1. item' # item
      BY <2>3 DEF works
    <3>2. PICK p \in Procs : InsertItem(p) \/ QueueItem(p)
      BY <1>3, <3>1, ItemsMove
    <3>3. ~QueueItem(p)
      <4> SUFFICES ASSUME QueueItem(p) PROVE works' = works
        BY <2>3
      <4>1. item[ItemOf[cur[p]]] # "none" /\ item' = [item EXCEPT ![ItemOf[cur[p]]] = "QUEUED"]
        BY <3>1 DEF QueueItem, Fails, At, Inv, Enqueues
      <4> QED
        BY <4>1 DEF works, Inv, InboxTypeOK
    <3>4. \E k \in Keys : Promise!Perform(k)
      <4>1. item[ItemOf[cur[p]]] = "none"
        BY <3>1, <3>2, <3>3 DEF InsertItem, Fails
      <4> QED
        BY <3>1, <3>2, <3>3, <4>1, InsertPerforms
    <3> QED
      BY <3>4 DEF Promise!CommandNext
  <2> QED
    BY <2>2, <2>3
<1>4. CASE InboxNext /\ receipts' # receipts
  <2>1. \E k \in Keys, a \in Statuses : Promise!AnswerWith(k, a)
    BY <1>4, ReceiptsGrow, SaveAnswers DEF Inv
  <2> QED
    BY <2>1 DEF Promise!CommandNext
<1> QED
  BY <1>2, <1>3, <1>4

\* The refinement: at the start, and at every step.
LEMMA InitKeepsPromise == InboxInit => Promise!CommandInit
<1> SUFFICES ASSUME InboxInit PROVE Promise!CommandInit
  OBVIOUS
<1>1. \A k \in Keys : Answer(k) = "none"
  BY DEF InboxInit, Answer, RowsOfKey
<1>2. works = {}
  BY DEF InboxInit, works
<1> QED
  BY <1>1, <1>2 DEF Promise!CommandInit, works

-----------------------------------------------------------------------------
(* The theorems *)

\* At most one daemon polls the inbox or serves an envelope of it, and it is the
\* one the leader row names: a lock without a lease, lost by a crash and taken over
\* from a dead owner, never has two daemons believe they hold it.
THEOREM LeaderCorrect == InboxSpec => []OneServer
  BY AlwaysInv, PTL DEF Inv

\* The variables of the inbox keep their types.
THEOREM InboxTypes == InboxSpec => []InboxTypeOK
  BY AlwaysInv, PTL DEF Inv

\* At most one receipt is ever recorded for a command key, with any number of
\* daemons, command line calls, re-read files, deaths and failed commits.
THEOREM KeysAnsweredOnce == InboxSpec => []OneReceiptPerKey
  BY AlwaysInv, PTL DEF Inv

\* No envelope leaves the inbox before its key has a committed receipt, but for
\* the malformed ones, which go to the quarantine.
THEOREM CommandsAreKept == InboxSpec => []NoLostCommand
  BY AlwaysInv, PTL DEF Inv

\* A recorded SUCCESS of an enqueue stands for an item in the queue; it is only
\* discovered after a death or a failure between the handler's transactions.
THEOREM SuccessIsTrue == InboxSpec => []SuccessIsAdmitted
  BY AlwaysInv, PTL DEF Inv

\* The conductor implements IdempotentCommands: one final answer per key, no work
\* for an answered key, success only for work that exists.
THEOREM PromiseIsKept == InboxSpec => KeepsPromise
<1>1. InboxInit => Promise!CommandInit
  BY InitKeepsPromise
<1>2. Inv /\ [InboxNext]_inboxVars => [Promise!CommandNext]_(Promise!commandVars)
  BY StepKeepsPromise
<1> QED
  BY <1>1, <1>2, AlwaysInv, PTL DEF InboxSpec, KeepsPromise, Promise!CommandSpec
=============================================================================
