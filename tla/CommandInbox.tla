----------------------------- MODULE CommandInbox -----------------------------
(***************************************************************************)
(* The way of a command through the conductor: an envelope file in the     *)
(* inbox (or the envelope of a command line call), the leader lock that    *)
(* lets one daemon drain the inbox, ConductorCommandProcessor with its     *)
(* receipt look-up, the enqueue handler and its two transactions, the      *)
(* receipt row and, after its commit, the receipt file.  Every statement   *)
(* that commits or touches the disk is a step, any process may die between *)
(* two of them, and any commit or file operation may fail.                 *)
(***************************************************************************)
EXTENDS Naturals, FiniteSets

CONSTANTS
  Daemons,     \* conductord processes started on this root
  Clis,        \* conductorctl calls, each executing one envelope itself
  Nobody,      \* the leader_locks row is absent or names a dead process
  Envelopes,   \* every envelope of the run
  OwnEnvelope, \* [Clis -> Envelopes]
  KeyOf,       \* [Envelopes -> command idempotency keys]
  ItemOf,      \* [Envelopes -> work items], the item an enqueue names
  Malformed, Unknown, Forbidden,  \* kinds of Envelopes; the others enqueue
  NoEnvelope,
  MaxMishaps   \* bound on deaths and failed operations together

Procs     == Daemons \cup Clis
Direct    == {OwnEnvelope[c] : c \in Clis}
Keys      == {KeyOf[e] : e \in Envelopes}
WorkNames == {ItemOf[e] : e \in Envelopes}
Statuses  == {"SUCCESS", "ERROR", "REJECTED"}

ASSUME InboxAssumption ==
  /\ KeyOf \in [Envelopes -> Keys] /\ ItemOf \in [Envelopes -> WorkNames]
  /\ OwnEnvelope \in [Clis -> Envelopes]
  /\ \A c \in Clis, e \in Envelopes :
       KeyOf[e] = KeyOf[OwnEnvelope[c]] => e = OwnEnvelope[c]
  /\ \A c1, c2 \in Clis : OwnEnvelope[c1] = OwnEnvelope[c2] => c1 = c2
  /\ \A e1, e2 \in Envelopes : KeyOf[e1] = KeyOf[e2] => ItemOf[e1] = ItemOf[e2]
  /\ Nobody \notin Procs /\ NoEnvelope \notin Envelopes
  /\ Daemons \cap Clis = {}
  \* conductorctl and conductor_mcp build their envelopes, with a key of its own
  \* for the command and, to enqueue, another for the item.
  /\ Direct \cap Malformed = {}
  /\ \A c \in Clis, e \in Envelopes :
       ItemOf[e] = ItemOf[OwnEnvelope[c]] =>
         e = OwnEnvelope[c] \/ OwnEnvelope[c] \in Forbidden \cup Unknown
  /\ MaxMishaps \in Nat

VARIABLES
  sent,        \* envelopes put into the inbox so far
  inbox, quarantine,  \* the files of the two directories
  item,        \* [WorkNames -> state of the work item]
  receipts,    \* receipt rows; by stands for the fresh receipt_id
  delivered,   \* rows with receipt_file_delivered = 1
  files,       \* receipt files on disk, as <<envelope, status>>
  leader,      \* the process the leader_locks row names
  step,        \* [Procs -> where the process stands]
  batch,       \* [Procs -> envelopes of this pass not yet handled]
  cur,         \* [Procs -> the envelope being processed]
  outcome,     \* [Procs -> the status process_envelope is about to record]
  mishaps      \* deaths and failures so far

inboxVars == <<sent, inbox, quarantine, item, receipts, delivered, files, leader,
               step, batch, cur, outcome, mishaps>>

dirs  == <<sent, inbox, quarantine>>
rows  == <<receipts, delivered, files>>
local == <<batch, cur, outcome>>

Goto(p, to)  == step' = [step EXCEPT ![p] = to]
At(p, where) == step[p] = where
NoFault      == UNCHANGED mishaps
Fault        == mishaps < MaxMishaps /\ mishaps' = mishaps + 1

RowsOf(e)      == {r \in receipts : r.env = e}
RowsOfKey(k)   == {r \in receipts : KeyOf[r.env] = k}

\* Writing the file of r and marking its rows, or failing before or between.
Deliver(r) ==
  \/ /\ files' = files \cup {<<r.env, r.status>>}
     /\ delivered' = delivered \cup RowsOf(r.env)
     /\ NoFault
  \/ /\ files' \in {files, files \cup {<<r.env, r.status>>}}
     /\ UNCHANGED delivered
     /\ Fault

-------------------------------------------------------------------------------
InboxInit ==
  /\ sent = {} /\ inbox = {} /\ quarantine = {}
  /\ item = [i \in WorkNames |-> "none"]
  /\ receipts = {} /\ delivered = {} /\ files = {}
  /\ leader = Nobody
  /\ step = [p \in Procs |-> "off"]
  /\ batch = [p \in Procs |-> {}]
  /\ cur = [p \in Procs |-> NoEnvelope]
  /\ outcome = [p \in Procs |-> "none"]
  /\ mishaps = 0

\* put_inbox_envelope: the file appears by one rename.
Send(e) ==
  /\ e \notin sent \cup Direct
  /\ sent' = sent \cup {e} /\ inbox' = inbox \cup {e}
  /\ UNCHANGED <<quarantine, item, rows, leader, step, local, mishaps>>

\* The daemon opens the store, or a command line call opens it for its envelope.
Start(p) ==
  /\ At(p, "off")
  /\ \/ /\ p \in Daemons
        /\ Goto(p, "drain") /\ UNCHANGED <<cur, sent>>
     \/ /\ p \in Clis /\ OwnEnvelope[p] \notin sent
        /\ sent' = sent \cup {OwnEnvelope[p]}
        /\ cur' = [cur EXCEPT ![p] = OwnEnvelope[p]]
        /\ Goto(p, "drain")
  /\ UNCHANGED <<inbox, quarantine, item, rows, leader, batch, outcome, mishaps>>

\* ensure_receipt_files_delivered, at the opening of the store, before every
\* command and at the end of a pass: all undelivered rows are tried.
Drain(p) ==
  /\ At(p, "drain")
  /\ \E written \in SUBSET (receipts \ delivered) :
     \E marked \in SUBSET written :
       /\ files' = files \cup {<<r.env, r.status>> : r \in written}
       /\ delivered' = delivered \cup UNION {RowsOf(r.env) : r \in marked}
       /\ IF marked = receipts \ delivered THEN NoFault ELSE Fault
  /\ Goto(p, IF cur[p] = NoEnvelope THEN "lock" ELSE "lookup")
  /\ UNCHANGED <<dirs, item, receipts, leader, local>>

FaultyLeading(d) == TRUE

\* acquire_leader_lock: renewed by its owner, refused while the process the row
\* names is alive, taken over otherwise.
Leading(d) == leader = d \/ leader \notin Daemons

AcquireLeader(d) ==
  /\ At(d, "lock") /\ Leading(d)
  /\ leader' = d
  /\ Goto(d, "poll")
  /\ UNCHANGED <<dirs, item, rows, local, mishaps>>

Poll(d) ==
  /\ At(d, "poll")
  /\ batch' = [batch EXCEPT ![d] = inbox]
  /\ Goto(d, "next")
  /\ UNCHANGED <<dirs, item, rows, leader, cur, outcome, mishaps>>

FaultyTake(d, e) ==
  /\ At(d, "next") /\ e \in batch[d] \ Malformed
  /\ cur' = [cur EXCEPT ![d] = e] /\ inbox' = inbox \ {e}
  /\ Goto(d, "drain")
  /\ UNCHANGED <<sent, quarantine, item, rows, leader, batch, outcome, mishaps>>

Take(d, e) ==
  /\ At(d, "next") /\ e \in batch[d] \ Malformed
  /\ cur' = [cur EXCEPT ![d] = e]
  /\ Goto(d, "drain")
  /\ UNCHANGED <<dirs, item, rows, leader, batch, outcome, mishaps>>

\* A file that cannot be an envelope is moved aside; the move may fail.
Quarantine(d, e) ==
  /\ At(d, "next") /\ e \in batch[d] \cap Malformed
  /\ batch' = [batch EXCEPT ![d] = @ \ {e}]
  /\ \/ /\ inbox' = inbox \ {e} /\ quarantine' = quarantine \cup {e} /\ NoFault
     \/ /\ UNCHANGED <<inbox, quarantine>> /\ Fault
  /\ UNCHANGED <<sent, item, rows, leader, step, cur, outcome>>

FaultyEndPass(d) ==
  /\ At(d, "next") /\ batch[d] = {}
  /\ Goto(d, "lock")
  /\ UNCHANGED <<dirs, item, rows, leader, local, mishaps>>

\* The batch is empty: both reconcilers run (the second one drains the
\* outbox), then the loop starts again with the lock.
EndPass(d) ==
  /\ At(d, "next") /\ batch[d] = {}
  /\ Goto(d, "drain")
  /\ UNCHANGED <<dirs, item, rows, leader, local, mishaps>>

-------------------------------------------------------------------------------
(* process_envelope *)

FaultyKnown(e) == RowsOf(e)

\* A recorded receipt is the answer, and its file is restored if it is missing.
Known(e) == RowsOfKey(KeyOf[e])

Lookup(p) ==
  /\ At(p, "lookup")
  /\ LET e == cur[p] IN
     \/ /\ Known(e) # {}
        /\ \E r \in Known(e) :
             IF \E s \in Statuses : <<r.env, s>> \in files
             THEN UNCHANGED <<files, delivered, mishaps>>
             ELSE Deliver(r)
        /\ Goto(p, "unlink") /\ UNCHANGED outcome
     \/ /\ Known(e) = {} /\ e \in Forbidden \cup Unknown
        /\ outcome' = [outcome EXCEPT ![p] = IF e \in Unknown THEN "REJECTED" ELSE "ERROR"]
        /\ Goto(p, "save") /\ UNCHANGED <<files, delivered, mishaps>>
     \/ /\ Known(e) = {} /\ e \notin Forbidden \cup Unknown
        /\ Goto(p, "insert") /\ UNCHANGED <<outcome, files, delivered, mishaps>>
  /\ UNCHANGED <<dirs, item, receipts, leader, batch, cur>>

Fails(p) == /\ outcome' = [outcome EXCEPT ![p] = "ERROR"]
            /\ Goto(p, "save") /\ UNCHANGED item /\ Fault

FaultyInsertItem(p) ==
  /\ At(p, "insert")
  /\ item' = [item EXCEPT ![ItemOf[cur[p]]] = IF @ = "none" THEN "DISCOVERED" ELSE @]
  /\ outcome' = [outcome EXCEPT ![p] = "SUCCESS"]
  /\ Goto(p, "save") /\ NoFault
  /\ UNCHANGED <<dirs, rows, leader, batch, cur>>

\* _handle_enqueue: an item of this key exists, or it is inserted as DISCOVERED.
InsertItem(p) ==
  /\ At(p, "insert")
  /\ LET i == ItemOf[cur[p]] IN
     \/ /\ item[i] # "none"
        /\ outcome' = [outcome EXCEPT ![p] = "SUCCESS"]
        /\ Goto(p, "save") /\ UNCHANGED item /\ NoFault
     \/ /\ item[i] = "none"
        /\ item' = [item EXCEPT ![i] = "DISCOVERED"]
        /\ Goto(p, "queue") /\ UNCHANGED outcome /\ NoFault
     \/ Fails(p)
  /\ UNCHANGED <<dirs, rows, leader, batch, cur>>

\* ... and moved to QUEUED by a transaction of its own.
QueueItem(p) ==
  /\ At(p, "queue")
  /\ \/ /\ item' = [item EXCEPT ![ItemOf[cur[p]]] = "QUEUED"]
        /\ outcome' = [outcome EXCEPT ![p] = "SUCCESS"]
        /\ Goto(p, "save") /\ NoFault
     \/ Fails(p)
  /\ UNCHANGED <<dirs, rows, leader, batch, cur>>

\* save_receipt.  When the row of a SUCCESS or a REJECTED fails the handler of
\* exceptions records an ERROR instead; when that fails too the exception
\* reaches the loop, which keeps the file for the next pass.
GiveUp(p) == /\ Goto(p, IF p \in Daemons THEN "next" ELSE "done")
             /\ batch' = [batch EXCEPT ![p] = @ \ {cur[p]}]
             /\ cur' = [cur EXCEPT ![p] = NoEnvelope]
             /\ outcome' = [outcome EXCEPT ![p] = "none"]

SaveReceipt(p) ==
  /\ At(p, "save")
  /\ \/ /\ receipts' = receipts \cup
              {[env |-> cur[p], status |-> outcome[p], by |-> p]}
        /\ Goto(p, "write") /\ UNCHANGED local /\ NoFault
     \/ /\ outcome[p] # "ERROR" /\ Fault
        /\ outcome' = [outcome EXCEPT ![p] = "ERROR"]
        /\ UNCHANGED <<receipts, step, batch, cur>>
     \/ /\ outcome[p] = "ERROR" /\ Fault
        /\ GiveUp(p) /\ UNCHANGED receipts
  /\ UNCHANGED <<dirs, item, delivered, files, leader>>

\* _connection, after the commit.
WriteFile(p) ==
  /\ At(p, "write")
  /\ \E r \in RowsOf(cur[p]) : r.status = outcome[p] /\ Deliver(r)
  /\ Goto(p, "unlink")
  /\ UNCHANGED <<dirs, item, receipts, leader, local>>

Unlink(p) ==
  /\ At(p, "unlink")
  /\ \/ inbox' = inbox \ {cur[p]} /\ NoFault
     \/ p \in Daemons /\ UNCHANGED inbox /\ Fault
  /\ GiveUp(p)
  /\ UNCHANGED <<sent, quarantine, item, rows, leader>>

-------------------------------------------------------------------------------
\* A process dies; the row it left in leader_locks names a dead process.
Crash(p) ==
  /\ step[p] \notin {"off", "done"} /\ Fault
  /\ leader' = IF leader = p THEN Nobody ELSE leader
  /\ Goto(p, "off")
  /\ batch' = [batch EXCEPT ![p] = {}]
  /\ cur' = [cur EXCEPT ![p] = NoEnvelope]
  /\ outcome' = [outcome EXCEPT ![p] = "none"]
  /\ UNCHANGED <<dirs, item, rows>>

Process(p) == \/ Drain(p) \/ Lookup(p) \/ InsertItem(p) \/ QueueItem(p)
              \/ SaveReceipt(p) \/ WriteFile(p) \/ Unlink(p)
Loop(d) == \/ AcquireLeader(d) \/ Poll(d) \/ EndPass(d)
           \/ \E e \in Envelopes : Take(d, e) \/ Quarantine(d, e)

InboxNext == \/ \E e \in Envelopes : Send(e)
             \/ \E p \in Procs : Start(p) \/ Process(p) \/ Crash(p)
             \/ \E d \in Daemons : Loop(d)

\* A started process keeps running, and a stopped daemon is started again.
InboxFairness == /\ \A p \in Procs : WF_inboxVars(Process(p))
                 /\ \A d \in Daemons : WF_inboxVars(Loop(d)) /\ WF_inboxVars(Start(d))

InboxSpec == InboxInit /\ [][InboxNext]_inboxVars /\ InboxFairness

(* Properties *)

Resting == {"off", "drain", "lock", "poll", "next", "done"}
Working == {"drain", "lookup", "insert", "queue", "save", "write", "unlink"}

InboxTypeOK ==
  /\ sent \subseteq Envelopes /\ inbox \subseteq sent /\ quarantine \subseteq sent \cap Malformed
  /\ item \in [WorkNames -> {"none", "DISCOVERED", "QUEUED"}]
  /\ receipts \subseteq [env : Envelopes \ Malformed, status : Statuses, by : Procs]
  /\ delivered \subseteq receipts
  /\ files \subseteq (Envelopes \X Statuses)
  /\ leader \in Daemons \cup {Nobody}
  /\ batch \in [Procs -> SUBSET Envelopes]
  /\ outcome \in [Procs -> Statuses \cup {"none"}]
  /\ cur \in [Procs -> Envelopes \cup {NoEnvelope}]
  /\ step \in [Procs -> Resting \cup Working]
  /\ \A p \in Procs : step[p] \in IF cur[p] = NoEnvelope THEN Resting ELSE Working
  /\ mishaps \in 0 .. MaxMishaps

\* No command key is answered twice, with two daemons on one inbox, re-read
\* envelopes and duplicates of an envelope: the look-up and the insert of the
\* receipt are two transactions, and only the leader lock keeps them apart.
OneReceiptPerKey == \A r1, r2 \in receipts : KeyOf[r1.env] = KeyOf[r2.env] => r1 = r2

\* An envelope leaves the inbox only for the quarantine or once its key has a
\* committed receipt, whatever dies or fails on the way.
NoLostCommand ==
  \A e \in sent \ (inbox \cup quarantine \cup Direct) : Known(e) # {}

\* SUCCESS for an enqueue means the item is in the queue.  Only a death or a
\* failure between the handler's two transactions leaves it DISCOVERED, a state
\* in which every later enqueue of the item answers ALREADY_EXISTS.
SuccessIsAdmitted ==
  \A r \in receipts : r.status = "SUCCESS" =>
    \/ item[ItemOf[r.env]] = "QUEUED"
    \/ item[ItemOf[r.env]] = "DISCOVERED" /\ mishaps > 0

\* The conductor implements the promise of IdempotentCommands.
Answer(k) == IF RowsOfKey(k) = {} THEN "none" ELSE (CHOOSE r \in RowsOfKey(k) : TRUE).status

Promise == INSTANCE IdempotentCommands WITH
  Items <- WorkNames, Wants <- [k \in Keys |-> ItemOf[CHOOSE e \in Envelopes : KeyOf[e] = k]],
  Answers <- Statuses, Unanswered <- "none",
  answer <- [k \in Keys |-> Answer(k)], work <- {i \in WorkNames : item[i] # "none"}
KeepsPromise == Promise!CommandSpec

\* Every committed receipt eventually has its file, delivered by whichever store
\* survives.
ReceiptsReachDisk ==
  \A e \in Envelopes : (RowsOf(e) # {}) ~> (\E s \in Statuses : <<e, s>> \in files)
===============================================================================
