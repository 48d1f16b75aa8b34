# A TLA+ model of the TruthDeck Conductor

The repository is the tooling a workstation uses to run several coding agents at
once.  Its stateful core is the **Conductor**: a SQLite journal, the commands that
write it, a daemon that tidies it up, and the host resources (one heavy test run at
a time, a few browser lanes, a few provider accounts) that the agents compete for.
Around it stand the session and worktree lifecycles, driven by the hosts' hooks,
and TruthDeck, which collects evidence about repositories and evaluates gates on it.

## Reading order

| file | what it is |
| --- | --- |
| `ResourceQueue.tla` | what the host resources promise to those who ask for them |
| `HostResources.tla` | how they keep it: admission, leases and the sweep of `conductor_resources.py` |
| `GateVerdict.tla` | what the panel and a refusal make of the same rows: `conductor_store.py`, `conductor_resources.py` |
| `MCHostResources.tla`, `MCHeavyGate.cfg`, `MCSharedAccount.cfg`, `MCDaemon.cfg`, `MCAttestation.cfg`, `MCMaxHold.cfg` | small hosts for TLC |
| `HostResourcesProofs.tla` | theorems about `HostResources` and `GateVerdict`, the refinement among them, for every value of their constants |
| `WorkItems.tla` | the work queue: `conductor_commands.py`, `conductor_store.py`, the daemon's reconcile |
| `MCWorkQueue.cfg`, `MCTerminal.cfg`, `MCReplacement.cfg` | small queues for TLC |
| `WorkItemsProofs.tla` | theorems about `WorkItems` |
| `IdempotentCommands.tla` | what the conductor promises the sender of a command |
| `CommandInbox.tla`, `MCCommandInbox.tla/.cfg` | how it keeps the promise: inbox, leader lock, receipts, outbox |
| `CommandInboxProofs.tla` | theorems about `CommandInbox`, the refinement among them |
| `PytestAdapter.tla`, `PytestAdapterProofs.tla` | `run_bounded_pytest` and the gate around it, and theorems about them |
| `SessionEvidence.tla` | how SessionEnd reaches its verdict |
| `SessionVerdict.tla`, `MCVerdictSteal.cfg`, `SessionVerdictProofs.tla` | the verdict file of a session and its lock, and theorems about them |
| `StateReaper.tla` | the deletion of old session files |
| `GatePanel.tla`, `HistoryPages.tla` | the operator panel: its two threads, its history drawer |
| `SnapshotRead.tla`, `StoreSchema.tla` | the read-only copy of the store, the migrations of its schema |
| `LaneLock.tla`, `WorktreeCustody.tla`, `CuratorPacket.tla`, `TruthDeck.tla`, `ModelTeam.tla` | one program each, see below |
| `HookInstaller.tla`, `OwnedInstall.tla`, `HostAdapters.tla` | the installers |
| `WorkplaceProofs.tla` | theorems about `LaneLock`, `WorktreeCustody`, `SnapshotRead`, `HistoryPages`, `StateReaper`, `ModelTeam` |
| `InstallerProofs.tla` | theorems about `OwnedInstall`, `HostAdapters`, `HookInstaller`, `StoreSchema` |
| `EvidenceProofs.tla` | theorems about `TruthDeck`, `CuratorPacket`, `SessionEvidence` |
| `MCSessions.tla/.cfg`, `MCWorkstation.tla/.cfg` | the machines of the workstation, checked one at a time in one run |
| `PROJECT.json` | components, runs, mutants, the map from definitions to source lines, hazards, findings, theorems |

## The system

### Components

**Host resource manager** (`scripts/conductor_resources.py`).  *State*: pools with a
capacity, a journal of requests (QUEUED, ACTIVE, INHERITED, RECOVERY_REQUIRED,
RELEASED, QUARANTINED), at most one lease row per granted request (expiry, heartbeat
sequence, process identity), an owner identity on the request row, an event ledger.
*Operations*: `request` (grant, queue, or admit a child under its parent's lease),
`heartbeat`, `release`, `recover`, `mark_uncertain`, `retain_observed_attempt`,
`reconcile`, `sweep_stale_slots`, `run_bounded_pytest`.  *Hard*: every operation may
run in several processes; owners die without saying so; an expired lease proves
nothing; the sweep walks the journal in several passes and promotes waiters as it
goes; one account is shared by several pools.  *Correct when*: capacity and account
bounds hold, an unproven owner keeps its place, a child never outlives the lease it
was admitted under, no waiter is stranded, a revoked attempt stays revoked, and dead
owners' capacity comes back.

**Work-item commands and store** (`conductor_commands.py`, `conductor_store.py`).
*State*: work items with a lifecycle and a current claim (attempt and generation),
attempts, claims, leases, authorizations, checkpoints, receipts.  *Operations*:
enqueue, authorize (operator only), claim, heartbeat, checkpoint, complete, cancel,
reconcile.  *Hard*: a handler is several transactions, and several processes run
handlers; workers die and come back; claims are replaced.  *Correct when*: a fenced
write is accepted from the newest claim only, a revoked attempt stays out, guarded
work waits for a GO, terminal states are final, an expired lease is noticed.

**Receipts, inbox and leader lock** (`conductor_store.py`, `conductord.py`).  Inbox
files are read, processed and unlinked by the daemon that holds the leader lock; a
command's receipt is a row and then a file, delivered by any surviving store.
*Hard*: a crash between any two of these.  *Correct when*: a command takes effect
once for each idempotency key, and its receipt is delivered in the end.

**Recovery adjudication and gate verdict** (`conductor_store.py`).  Functions of a
copy of the journal that repeat decisions of the manager in code of their own.
*Correct when*: they say what the manager would do.

**Store: snapshots, history, migrations** (`conductor_store.py`).  Readers copy the
database and its log file by file while others write; every process that opens the
store brings its schema up to date.  *Hard*: two files copied one after the other,
signatures of limited resolution, several openers, crashes, claims taken during a
migration.  *Correct when*: a copy is a state the store was in, paging misses
nothing, an open store is complete and every claim has its owner.

**Operator panel** (`conductor_gui.py`).  A worker thread that reads when the store's
signature moved, a UI thread that redraws when the content changed.  *Hard*: a commit
between the look and the read, an error that empties the cards without forgetting
what they showed.  *Correct when*: it comes to show the store.

**Pytest adapter** (`run_bounded_pytest`).  A wrapper that is admitted, spawns a
child, renews the lease, kills the child when the lease is lost, and owes a release.
*Hard*: nested wrappers share a lease row; crashes between spawning and recording.
*Correct when*: two suites never overlap, and the gate comes free.

**Browser lane lock** (`cdp_lane_lock.py`).  An OS byte-range lock, a holder file and
a supervised process tree.  *Hard*: signals between two steps of starting the tree.
*Correct when*: no tree runs in a lane whose lock somebody else may take.

**Session lifecycle** (`session_lifecycle.py`, `session_state.py`).  At its end a
session collects evidence from git and decides a verdict; the verdict file is
surfaced and consumed by later sessions under a lock file that is stolen when stale.
*Hard*: a shared checkout, the steal, and the writer that takes no lock.  *Correct
when*: a verdict never calls unfinished work done, and stamps are final.

**State reaper and router** (`state_reaper.py`, `session_router.py`).  Every session
start makes files and deletes old ones of other sessions within a time budget.
*Correct when*: only what is abandoned goes, and all of it in the end.

**Worktree lifecycle and janitor** (`worktree_lifecycle.py`, `git_hygiene.py`).
Receipts of a session's start and close; a receipt authorizes the removal of a
worktree if a fresh snapshot agrees; the janitor reaps merged worktrees and branches.
*Hard*: what happens between the look and the removal.

**Curator** (`curator_claims.py`).  Confronts what a session said with its transcript,
git and TruthDeck, read one after the other; what lies in `start..HEAD` stands for what
the session made.  *Hard*: a session that commits, amends, pulls and switches meanwhile.
*Correct when*: it settles nothing against what it could see.

**TruthDeck** (`truthdeck_*.py`, `truthctl.py`).  Collectors write an immutable
snapshot; gates are functions of a snapshot; the snapshot is judged again when read.
*Hard*: the facts are of different moments and heads.

**Model team driver** (`model_team.py`).  Dispatches one role of a team to a provider
and accepts its answer file.  *Hard*: a provider that outlives a timed-out run.

**Installers** (`hooks_install.py`, `conductor_install.py`, `truthdeck_install.py`,
`install_codex_*.py`, `install_cursor_*.py`).  They own some files whole and a part
of others, and must recognise next time what they wrote.  *Hard*: deaths between two
writes, several checkouts, other programs that edit the same files, digests read back
from disk.

**Scheduler, doctors, guards, catalogues, prose.**  Listed one by one in
`PROJECT.json` with the reason each is left out; none keeps state that two actors
change.

### How they interact

The CLI, the MCP server, the GUI and the daemon all open the same SQLite file and
call the same command processor.  The daemon's loop drains the inbox, reconciles
work items, then reconciles host resources, about once a second.  The sweep of host
resources writes into the work queue's tables as well: it deletes the attempt's
lease, marks the attempt UNKNOWN and fences the work item if that attempt is its
current claim.  Workers talk to both: they renew their work-item lease and hold host
resources under the same attempt id.

## What is modelled

### HostResources

One step per operation, because every mutation runs under `BEGIN IMMEDIATE` -- except
the sweep, which is stepped row by row (`SweepReleases`, `SweepAgain`) inside its
transaction, since what it promotes on the way is what makes it hard.  `op` is the
write lock: while a request, a reconcile or an explicit sweep is under way only its
own steps may happen.

| state | code |
| --- | --- |
| `st`, `req`, `owner` | `host_resource_requests`: state; pool, attempt, slot, priority, parent; owner identity |
| `lease`, `proc`, `seq` | `host_resource_leases`; the lease of request `r` is called `r` |
| `auto`, `unknown` | reason codes and attempt statuses by which `_attempt_is_revoked_locked` knows a revoked attempt |
| `age`, `overheld`, `lease = "EXPIRED"` | what the code derives from the clock, instead of a clock |
| `life` | what psutil says of a process: alive, gone, or not to be told |
| `todo`, `snap`, `swept`, `dirty` | the sweep's candidates, the states its SELECT read, `swept_ids`, `newly_swept` |

`BeginRequest` ... `Inherit`, `Admit`, `Refuse` is `request`; `BeginReconcile`, with
its look before the lock, and `FinishReconcile` are `reconcile`; `Heartbeat`,
`Release`, `Recover`, `MarkUncertain`, `MarkRecovery`, `RetainKnown`, `RetainUnseen`
and `AttachChild` are the operations of one step; `LeaseExpires`, `GrowsOld`,
`HoldRunsOut` and `ProcessFails` are time and the host.

Abstractions: time does not pass and nobody dies inside a transaction (the code reads
the clock once).  Flags rise only where a later step can tell the difference.  A
request refused after its sweep is modelled as keeping the sweep: when the attempt is
revoked the code runs the sweep again on a connection of its own, and otherwise the
result is a state that a reconcile reaches.  A request replayed under its idempotency
key changes nothing and is left out.

`ResourceQueue` is the promise behind it, with no lease, process, clock or sweep: one
line in which requests arrive, leave and are lost sight of.  A grant is given only
where pool, account and slot have a place; a place that comes free goes, in the same
step, to the first of those it fits in the line of their pool (if its account serves
several pools, the line does not say which comes first); nobody who fits waits; a
child ends before the request whose lease it shares.  `Stage` maps the
journal onto it: QUEUED is waiting, ACTIVE is granted, INHERITED is sheltered, a
fence is held, a released or quarantined row is over.  `KeepsLine` is the
refinement: one operation, or one row of a sweep, is one step of the line or none.

### WorkItems

One step per store transaction.  `call` holds what each client is in the middle of:
a handler is the sequence of its labels (claim: `authority`, `claim`, `lease`,
`check`, `write`).  `transition_work_item_state` is two steps, because it reads and
checks in autocommit and its transaction opens with the UPDATE (Python's sqlite3
begins one before the first write only).  The fenced worker writes are one step each.
`Reap` is what the sweep of HostResources does to these tables.  `Crash` loses a
client's handler between any two of its transactions.

`Adapter` is the only action with no command behind it: no command moves an item to
DISPATCHING or RUNNING, or from RECOVERY_REQUIRED back to READY; adapters and
operators do so with the store's own call, as the tests do.  `written`, the
generation of the last accepted worker write, is the only history variable.

### SessionVerdict

One verdict file, its lock file, and the processes that use them, one step per system
call or atomic replace.  A call of `surface_pending_verdict` is `Surface`, the lock
loop (`Acquire`, `FindStale`, `Steal`, `GiveUp`), `Read`, `Write`, `Release`, `Unlink`;
the curator's is `Render`, `Expect`, and the same.  `SessionEnd` replaces the file
without the lock, as `handle_event` does.  `Steal` and `Unlink` remove whatever lock
file is there, because `unlink` goes by name.  `GoesStale` is the lock file's age and
`Kill` the host's timeout on a hook.  A stamp is the process that set it;
`file.created` is the number of the SessionEnd that wrote the verdict.  `expired`
remembers which kinds of lock have outlived their five seconds (held by a live
process, left behind by a killed one) and guards nothing.

### GateVerdict

Operators over the journal of `HostResources`: `Verdict` (`evaluate_gate_verdict`),
`Adjudicate` (`adjudicate_recovery`), `BlockingHolders` and `OwnerAlive` (the rows
and owners a refusal names).  They are compared with the manager's own `PoolFull`,
`OwnerGone` and `Recover` in every state between transactions, since a copy only ever
holds committed rows.

### CommandInbox and IdempotentCommands

A step per statement that commits or touches the disk: `Drain`, `AcquireLeader`,
`Poll`, `Take`, `Lookup`, `InsertItem`, `QueueItem`, `SaveReceipt`, `WriteFile`,
`Unlink`, `Quarantine`, `EndPass`.  Any of them may fail where the code catches a
failure and any process may die between two (`mishaps` counts both).
The command line and the MCP server build envelopes too and run them themselves beside
the daemon (`OwnEnvelope`; `conductorctl.py:512-533` for an enqueue, with a fresh key
for the command and another for the item).  Envelopes that are neither to enqueue nor
malformed stand for the commands whose work is not an item: the unknown and the
refused; what the other handlers do is `WorkItems`.
`IdempotentCommands` is the promise to a sender: one final answer per command key, no
work for a key that has been answered, SUCCESS only for work that exists.
`KeepsPromise` is the refinement: `answer` is the status of the key's receipt, `work`
the items that exist.  The leader row names a process and is judged by whether that
process lives, so `Leading` reads the row and nothing else.

### PytestAdapter

The wrappers of one host and the rows they have in the gate: `Ask` or `AskInside`,
`Spawn`, `Record`, `Beat`, `TimesOut`, `Leave` (the finally clause) in
`run_bounded_pytest`; `PytestExits`, `WrapperDies`, `LeaseLapses` are the host;
`FenceExpired` and `SweepRow` the daemon.  The rows are those of `HostResources` cut
down to one pool without slots: here the suites are state of their own, which there
they are not.

### SessionEvidence

One step per git command of `collect_evidence`, in the order it runs them, between
steps of a repository that others push to, commit in, switch and edit.  A commit is a
record of its tree and its ancestors.  `decide_verdict` is the last step.

### The store, the panel and the history

`SnapshotRead` copies the database page by page and then the log; `Writes` says
whether a write shows in a signature (size and time of limited resolution).
`GatePanel` takes the read as one answer and models the two threads and the mailbox
between them.  `HistoryPages` is the cursor over rows that go on being released: a page
is the set of rows the query returns, in one order only, and the list on the screen is
how often each request is on it.
`StoreSchema` starts from every older layout and steps through `_init_db`.

### The other programs of the workstation

`LaneLock`, `WorktreeCustody`, `StateReaper`, `HookInstaller`, `OwnedInstall`,
`HostAdapters`, `CuratorPacket`, `TruthDeck` and `ModelTeam` have one shape: each
reads the world more than once, decides, and writes; the world (git, another session,
another run, the operator) moves in between.  Every command, read or write is a step
of its own and what the program remembers from it is a variable; the world's actions
are external definitions.  In `OwnedInstall` a target is replaced in one step and its
digest taken, of what is then on disk, in another; `calm` remembers whether anybody
came in between.  In `CuratorPacket` commits have an identity: the session commits and
amends, others' commits are pulled or merged in, HEAD goes to any commit there is, and
the three listings, both tests of ancestry and the range of commits each see what is
there at their time.  One session works in the worktree; what another leaves there
uncommitted would count as its own.  History variables (named so where they are declared) record
what was true when, and guard nothing.

### MCSessions and MCWorkstation

The programs above share no variables, so a state of several of them together says no
more than a state of each.  The two MC modules therefore put them in one run:
`which` picks the machine whose behaviour it is, and the others rest in a state they
start in.  What is checked is exactly each module's own `Init`, `Next` and properties;
`MCSessions` adds each one's own fairness.

## What is checked

All bounds are CONSTANTs of the cfg.

| run | instance | shows |
| --- | --- | --- |
| `heavy_gate` | host:heavy, capacity 1, 3 requests of 2 attempts and 2 priorities, 1 process | the journal implements the line of `ResourceQueue` (`KeepsLine`); an unproven owner keeps its place (`FencedKeepTheirPlace`); a child never outlives its parent's lease and is alone (`ChildUnderHeldParent`); a sweep takes nothing from a live owner (`SweepSparesLiveOwners`); the panel's verdict and what a refusal says are what a request would meet (`VerdictForetells`); the recovery it offers is the one accepted (`OfferedRecoveryWorks`) |
| `shared_account` | a lane with an exclusive slot and a provider pool on one account of 2, 3 requests of 2 attempts | `RunningWithinAccount`, `NoStrandedWaiter` across the pools, `RevokedNeverGranted`; a waiter whose slot is busy is overtaken and promoted at last, and its slot is granted once (`SlotsExclusive`) |
| `daemon` | a lane of 2, 2 requests, 1 process, fairness | what is fenced and proven dead is freed by the daemon alone (`DeadFenceIsFreed`) |
| `work_queue` | 1 guarded item, 2 attempts, daemon and CLI, crashes, fairness | `NoWorkWithoutGo`, `ReplacedStaysOut`, `RevokedStaysOut`, `ExpiredLeaseIsNoticed` |
| `command_inbox` | 2 daemons, 1 command line call that enqueues an item of its own, 4 envelopes of 3 keys, 1 mishap | a key is answered once (`OneReceiptPerKey`); no envelope vanishes (`NoLostCommand`); SUCCESS means queued, mishaps apart (`SuccessIsAdmitted`); the refinement (`KeepsPromise`); receipts reach their files (`ReceiptsReachDisk`) |
| `sessions` | 4 machines, each under its fairness | verdict file: `StampedOnce`, `ConsumedWasRendered`, `LeftLockIsRemoved`; pytest: `OverlapOnlyUnrecorded`, `GateIsFreed`; panel: `PanelShowsStore`; reaper: `ReapsOnlyAbandoned`, `OldFilesReaped` |
| `workstation` | 12 machines | `TreeUnderLock` (lane lock), `LostOnlyUnseen` (worktrees), `HandlersRecognised`, `InstalledIsWhole`, `OthersKept` (installers), `CopyIsConsistent`, `OpenedIsComplete`, `PagesMissNothing` (store), `PacketIsSound` (curator), `PassIsOneHead` (TruthDeck), `AnswersWhatWasAsked` (model team), `VerdictIsEarned` (SessionEnd) |
| `attestation`, `max_hold`, `terminal`, `replacement`, `verdict_steal` | the smallest instance each | the five findings below |

Several of these properties say where the code does not keep its promise, as an
exception that names the only way: a suite that was never recorded
(`OverlapOnlyUnrecorded`), a wrapper killed outright on POSIX (`TreeUnderLock`), a
HEAD that moved after the look (`LostOnlyUnseen`), overlapping installer runs
and the uninstall of an interrupted install (`HandlersRecognised`), a checkout that
changes under an install or a target written by somebody between its replacement and
its digest (`InstalledIsWhole`), an edit after the last look (`OthersKept`), a write
that left no trace in a signature (`CopyIsConsistent`), a `git add`, a commit or a
move of HEAD between two listings, and a commit of the session that was amended or
left behind since (`PacketIsSound`; nor does it promise that a verified change or
commit is the session's own: what it pulled lies in `start..HEAD` as well).  In each
case dropping the exception makes TLC find the behaviour; the hazards in
`PROJECT.json` give the lines.

**Bounds.**  Three requests are a holder, a child or a second holder, and a waiter;
every property of `HostResources` relates at most three rows (a parent and two
children, a released row, a promoted one and one left behind).  Two attempts tell
the revoked one from another, two priorities the first in line from the oldest
(`heavy_gate` only; where pools share an account there is one).
With slots the three are the holder, a waiter for the same slot and one that
overtakes it.  `KeepsLine` was also run once on the instance of `shared_account`, where
a place freed in one pool serves a waiter of the other (416 thousand states, no
violation).  One process identity takes part twice: the sweep compares identities of
one row at a time.  In `WorkItems` two attempts are the old
claim and its replacement, and two clients are enough for every race between a check
and a write; with one item the clients always meet on it, and no step reads two items
except the reconcile, which visits its rows one by one.  Attempts are
interchangeable, so TLC takes their permutations as symmetries in the runs that check
no liveness property.  In `CommandInbox` two daemons are the leader and its successor
or rival, two envelopes of one key, one to enqueue and one refused, answer differently
if they are answered twice, and the call's enqueue goes on beside the daemons'; one death or failure is enough to
break into any pair of steps, and after it a restart replays the rest.  In
`SessionVerdict` two processes and two SessionEnds are a verdict that changes between
a look and a write, and one kill leaves a lock behind.  In `PytestAdapter` two
wrappers are two unrelated runs or a run and the one inside it.  In the workstation
two of a kind (lanes, checkouts, openers, dispatches, files) meet each other, and the
bound on what the world may do is one more than the number of looks it can fall
between, except where the state space forbids it: `SessionEvidence` has three shifts
here, and was also run alone with five (4.4 million states, no violation);
`CuratorPacket` has as many moves of the repository as its run can bear, and was also
run alone with one more (no violation).  One
installer run at a time is a restriction of `HandlersRecognised` itself.  `Seen`
(a VIEW) identifies states that differ only in what no later step reads: most columns
of finished rows, the priority of rows that do not wait, the slot in a pool of one, the
heartbeats of leases that cannot be renewed and the expiry of those nobody inherits,
whether such a lease is there at all if it names no process and its pool takes no
children, how a row of an UNKNOWN attempt was released, what a sweep read of rows it
has passed or has nothing left to do with, and which rows it has released.

**Fairness.**  `HostResources!FairSpec`: a transaction once begun ends (the process
runs or SQLite rolls it back); the daemon reconciles on every poll, strongly fair
because an admission may take the lock first; time passes.  No lease has to expire,
because its holder may renew it for ever, and no client owes a request.
`WorkItems!FairSpec`: the daemon continues its handlers and reconciles on every poll.
Strong fairness for the reconcile's own steps says that the daemon, though it may be
killed again and again, is restarted and some poll runs to its end.
`InboxFairness`: a started process runs on and a stopped daemon is started again; no
envelope has to be sent.  `PytestFairness`: a wrapper runs on, stops a suite at its
timeout, a lease nobody renews runs out, the daemon reconciles; no suite has to end
and nobody has to ask.  `PanelFairness`: both threads loop and minutes pass; the
operator owes nothing, and `PanelCatchesUp` supposes that the window stays open.
`ReaperFairness`: sessions keep being started, each running one pass; one that stops
for its budget is followed by another.
`SessionVerdict!FairSpec`: a process started goes on (until it is killed) and time
passes; no session has to start, so `LeftLockIsRemoved` supposes that processes keep
coming to the lock.  `MCWorkstation` checks safety only and states none.

**Mutants.**  For each property of a passing run `PROJECT.json` names a definition
and a slip in it (the `Faulty...` operators beside the definitions: a dropped guard,
an off-by-one, a forgotten promotion) under which TLC reports the property violated.

## Findings

Each is a run that TLC refutes, with the sentence of the repository it contradicts.

1. `attestation`: an operator's attestation frees a row whose recorded owner is
   alive, because `recover` looks only at the process on the lease row
   (`conductor_resources.py:1241`; SKILL.md: "Attestation is not an override").
2. `max_hold`: the "maximum admission age" of a CDP slot is not enforced by the
   daemon; its look before the lock does not see an over-held grant that is renewed
   (`conductor_resources.py:1143`).
3. `terminal`: a transition is checked in autocommit and written later without a
   guard, so an item that another process ended in between is moved on
   (`conductor_store.py:2513-2530`; "COMPLETED: set(),  # Terminal").
4. `replacement`: the work-item reconcile joins every lease of every attempt, so the
   first claim's expired lease fences the replacement's item at every poll
   (`conductor_commands.py:479`; the sweep's comment and its test say it must not be).

5. `verdict_steal`: two processes that have found the same lock stale both remove it,
   the slower the faster one's new lock; their cycles overlap and a stamp is taken off
   a verdict (`session_lifecycle.py:112`; the plan: "a stale `surfaced_at` write cannot
   erase a concurrent `consumed_at`").  One killed process is enough.

## What is proved

Every safety invariant and action property the passing runs check is a theorem as
well, for every value of the constants; so are the two refinements.  Nothing is
assumed but the named assumptions on constants, which TLC evaluates for the values of
each run.

| module | theorem | property | assumption |
| --- | --- | --- | --- |
| `HostResourcesProofs` | `TypeCorrect` | `TypeOK` | `ConstantsAssumption`: any pools, attempts, processes, slots, priorities, bounds |
| | `GrantsCorrect` | `GrantsWithinCapacity` | |
| | `SlotsCorrect` | `SlotsExclusive` | |
| | `RevokedCorrect` | `RevokedNeverGranted` | |
| | `ChildCorrect` | `ChildUnderHeldParent` | |
| | `RunningCorrect` | `RunningWithinAccount` | |
| | `FencedCorrect` | `FencedKeepTheirPlace` | |
| | `WaitersCorrect` | `NoStrandedWaiter` | |
| | `SweepCorrect` | `SweepSparesLiveOwners` | |
| | `VerdictCorrect` | `VerdictForetells` | |
| | `RecoveryCorrect` | `OfferedRecoveryWorks` | |
| | `LineIsKept` | `KeepsLine` | |
| | `LineBounds` | `LineFits` (of any behaviour with `KeepsLine`) | |
| `WorkItemsProofs` | `TypeCorrect` | `TypeOK` | `QueueAssumption`: any clients, items, guarded items, number of claims |
| | `ClaimCorrect` | `CurrentClaimIsNewest` | |
| | `ReplacedCorrect` | `ReplacedStaysOut` | |
| | `RevokedCorrect` | `RevokedStaysOut` | |
| | `GoCorrect` | `NoWorkWithoutGo` | |
| `CommandInboxProofs` | `InboxTypes` | `InboxTypeOK` | `InboxAssumption`: any daemons, calls, mishaps and envelopes, to enqueue, refused, unknown or malformed; one key names one item; a call builds its envelope itself, so it is well formed, its key is its own, and so is the item if it enqueues |
| | `LeaderCorrect` | `OneServer` | |
| | `KeysAnsweredOnce` | `OneReceiptPerKey` | |
| | `CommandsAreKept` | `NoLostCommand` | |
| | `SuccessIsTrue` | `SuccessIsAdmitted` | |
| | `PromiseIsKept` | `KeepsPromise` | |
| `SessionVerdictProofs` | `TypeCorrect` | `TypeOK` | `VerdictAssumption`: any processes, SessionEnds, kills |
| | `LockCorrect` | `OneInside` | |
| | `StampsCorrect` | `StampedOnce` | |
| | `RenderedCorrect` | `ConsumedWasRendered` | |
| `PytestAdapterProofs` | `PytestTypes` | `PytestTypeOK` | `PytestAssumption`: any wrappers, beats |
| | `RecordedRunsNeverOverlap` | `OverlapOnlyUnrecorded` | |
| `WorkplaceProofs` | `LaneCorrect` | `TreeUnderLock` | `LaneAssumption`: any lanes |
| | `TreeCorrect` | `LostOnlyUnseen` | none: any number of commits |
| | `CopyCorrect` | `CopyIsConsistent` | none: any number of writes and attempts |
| | `HistoryCorrect` | `PagesMissNothing` | none: any ids, seconds, page size |
| | `ReaperCorrect` | `ReapsOnlyAbandoned` | none |
| | `TeamCorrect` | `AnswersWhatWasAsked` | none: any dispatches and packets |
| `InstallerProofs` | `OwnedCorrect` | `InstalledIsWhole` | none: any number of versions and jobs |
| | `AdapterCorrect` | `OthersKept` | none: any number of edits |
| | `HookCorrect` | `HandlersRecognised` | `HookAssumption`: any checkouts, runs |
| | `SchemaCorrect` | `OpenedIsComplete` | `SchemaAssumption`: any items, openers, claims |
| `EvidenceProofs` | `SnapshotCorrect` | `PassIsOneHead` | `TruthAssumption`: any number of heads, any deadline and any time-to-live |
| | `PacketCorrect` | `PacketIsSound` | `CuratorAssumption`: any claims a sentence may make, any number of moves and so of commits, the session's and others' |
| | `EvidenceCorrect` | `VerdictIsEarned` | none: any files, any number of shifts |

The type invariants, `GrantsWithinCapacity`, `LineFits`, `OneServer`, `OneInside` and
`CurrentClaimIsNewest` are proved and not part of a run; the other theorems state properties the runs check as well.  Where a module
writes an action with overlapping CASE arms the proofs hold whichever arm is taken;
where the order of the tests matters (`decide_verdict`) the module has IF ... ELSE.

### The argument for HostResources

`TypeOK` is inductive by itself.  Three facts carry the rest.
`PromotableIsOne`: the waiter a commit promotes is unique, because two requests
cannot both be first of a queue ordered by priority and age.  `PromotableHasRoom`: it
is in a pool with room, in an account with room, and on a free slot, counted in the
journal the commit starts from.  `StepKinds`: every step is of one of a few kinds as
far as the journal goes -- it leaves the rows alone, commits a journal in which no
row gained a grant and promotes, inserts one row, or fences one.  The inductive
invariant `Journal` adds to `TypeOK` that a request under way has room in the journal
(`RoomForRow`: a transaction that began with room cannot lose it, for nothing inserts
a row while it holds the lock) and that whatever the open sweep counts as swept is
released (`SweptReleased`), without which a child disregarded because it is in
`swept` could still be live.  A bound on a cardinality is kept because the promoted
row is one and there was room for one (`CommitAddsOne`, `OneMoreRow`).

Three more invariants carry the rest.  `NoWaiterHasRoom` says of every waiter what
`NoStrandedWaiter` says between transactions, and says it inside them too: no waiter of
any pool is admissible (`NoneAdmissible`).  It is inductive because a row that leaves
makes room for one, and the commit promotes one (`OneForOne`); that there is one to
promote is that every nonempty queue has a first (`QueueHasHead`, from the least row
of the highest priority).  `PromotedIsYoung` is why a sweep spares a waiter it has just
promoted, although the pass's SELECT still shows it as waiting: such a row was
granted in this transaction, and its age is 0.  `WaitersStandAlone` -- a waiter's
attempt is not UNKNOWN, a waiter has no parent -- closes the gap between the panel's
verdict, which reads few columns, and `request`, which asks more; with
`NoWaiterHasRoom` and `FencedKeepTheirPlace` it gives `VerdictForetells`.
`OfferedRecoveryWorks` needs no ENABLED: `Recoverable` is the guard of `Recover`, and
the property compares it with what the panel offers.

The refinement `LineIsKept` takes each kind of step to a step of the line.  A row
fenced is `Hold` (`FencesHold`), a row inserted `Arrive` (`InsertsArrive`), a commit
that releases rows `Leave` (`CommitsLeave`); the pass of a sweep over a row already
released or quarantined is a stutter.  `NobodyFits`, which follows from
`NoWaiterHasRoom` and `WaitersStandAlone`, does most of the work.  Since nobody fits
after the commit, a promotion that grants nobody left nobody to serve, although it
looks at the *related* pools only; and the waiter it does grant is first in its pool of
those who fit, because none of them is a revoked attempt's, which promotion would
pass over (`PromotionServes`).  A newcomer is granted at once only where it passes
nobody, for the same reason.  That a row leaves only after those it shelters is
`ChildUnderHeldParent` before and after the step: a child still there would be under a
parent that is gone.  `LineBounds` is the other direction, that the line is worth
keeping: from its steps alone, which give at most one place each (`LineGivesOne`),
follow the bounds of pools and accounts and the exclusive slots.

### The argument for WorkItems

`TypeOK` is not inductive here: `SaveClaim` increments a generation, and nothing in
the type says that it stays below the bound.  `ClaimsInOrder` says why it does --
attempts are claimed in order, a generation is at most the number of its attempt --
and `CallsOK` says what a client in the middle of a claim knows: its attempt has a
claim, nobody else is claiming it, its claimant has not been answered.  From the last
it follows that `SaveLease` cannot give a lease back to a revoked attempt, since only
answered attempts are revoked (`WorkersOK`), and that a write is fenced by the newest
generation (`CurrentClaimIsNewest`).  `QueueInvariant` is their conjunction;
`ReplacedStaysOut` and `RevokedStaysOut` follow from it and from the fact that the
fenced writes are the only ones (`WriteSteps`).  `NoWorkWithoutGo` needs an invariant
of its own, `Authorized`: every state that an item enters only by way of a claim, and
every call that is about to put it into one, has a GO on record -- the check and the
write of a transition are two steps, so the call has to carry the fact across.

### The argument for SessionVerdict

`Inv` says three things of each process.  `Held`: until a lock expires, whoever is
inside owns the lock file and nobody is about to steal it, from which mutual exclusion
follows.  `Current`: what a process is about to write is the file as it stands with
one stamp added where there was none -- unless the session has ended again since, and
then it is a different verdict.  This needs `Held`, because another process's write
would break it.  `Payload`: what is about to be written bears the writer's own stamp on
the verdict it asked for; it holds with no lock at all, and so does
`ConsumedWasRendered`.

### The argument for CommandInbox

`Custody` says who may handle which envelope: a daemon those of the inbox, a call its
own; since a call's key is its own, two processes meet on a key only as daemons, and
since its item is its own too, on an item (`OneEnqueuer`), although calls enqueue
while a daemon does.  `OneServer` says that a daemon that serves at all is the leader.
So what a process has looked up cannot change before it acts on it, which is `Asked`:
from the look-up to the receipt its key is unanswered, from the receipt on it is
answered.  That gives `OneReceiptPerKey` and `NoLostCommand`.  `Enqueues` and `HalfDone` carry an enqueue
across its transactions: an item that is DISCOVERED, with no mishap yet, is under the
hands of the process that will queue it, hence `SuccessIsAdmitted`.  The refinement
needs nothing more: `SaveReceipt` of an unanswered key is `AnswerWith`, `InsertItem` is
`Perform`, every other step leaves `answer` and `work` alone.

### The argument for PytestAdapter

`OneLease`: all rows that occupy the gate share one lease.  It is kept because a
request is granted only when no row occupies the gate, and a nested one only under the
lease that does (`HeirsHaveLease`: an inherited row's lease is there, and not itself
inherited).  `RecordedOccupies`: a recorded suite at work keeps its row in the gate,
since the sweep releases a row only when its recorded process is gone.  `Standing`
ties the wrapper's place to its row.  Two recorded suites at work then share a lease.

### The arguments for the other programs

All have one shape: what the program remembers from a read was true then, and what
has become false since is admitted by the property's exception.

*Workplace.*  `LaneLock`: whoever stands between lock and unlock has the lock, and an
owned tree is tended (its wrapper waits for it or reaps it) except where nothing kills
it with its wrapper.  `WorktreeCustody`: a cleaner's head is one HEAD was at; if it
still is, and the cleaner is past its test of ancestry, it is merged.  `SnapshotRead`:
while no signature differs and no write hid itself, the pages copied are those the
files hold (`CopyFollows`), page after page.  `HistoryPages`: the cursor divides the
terminal rows (`CursorDivides`): what is listed is the cursor or newer, what is not
listed of the time of the reset is older; a release comes in front of every row
released before its second, so a row not counted then can fall on either side, which
is why the property speaks of those that were.  `StateReaper`: a file about to go is
done with, or its session was found dead; dead meant without binding or transcript.
`ModelTeam`: a run asks once, and the versions of the packet only grow.

*Installers.*  `OwnedInstall`: manifests, backups and the install under way each name
one version, if their install was calm; a target whose digest is due is then still what
was written.  `HostAdapters`: between the last comparison and the replacement the
file holds the edits the installer has read, or an edit is late; the same for a file
rolled back while its partner is.  `HookInstaller`: with one run at a time the sidecar
knows every handler left, *between* any two writes of a run too (`RunFits` says for
each place what the pending write will do to that).  `StoreSchema`: from version 9 on
live items are owned by their latest claim, before it none has an owner; a lock holder
has seen no newer database.

*Evidence.*  `TruthDeck`: every fact was true when collected, and reviews, green
checks, merges and builds stay part of the past; the last gap is closed by the age of
the facts, judged again when the snapshot is read.  `CuratorPacket`: a listing that finds
nothing leaves the change where the listings to come will look (`LeftToList`), so three
empty listings of a file that stayed as it was contradict each other.  A change has
somebody behind it, the session or those it pulled from (`Somebodys`); a commit the
session made and kept is in the range (`Kept`).
`SessionEvidence`: what nobody disturbed is as the session left it (`CalmIsKept`);
each git command adds a clause about it (`StatusSaid`, `DiffSaid`, `ReachedSaid`) that
later commits, pushes and switches keep, because history is linked: the past of an
ancestor is in one's own past (`Linked`).

## What is only model-checked

The properties under fairness -- `DeadFenceIsFreed`, `ExpiredLeaseIsNoticed`,
`LeftLockIsRemoved`, `GateIsFreed`, `PanelShowsStore`, `OldFilesReaped`,
`ReceiptsReachDisk`: liveness is out of TLAPS's reach, and so the runs `daemon`,
`work_queue`, `command_inbox` and `sessions` check them on small instances.  `GatePanel` promises
nothing but liveness, so it has no theorem.  The five findings are behaviours, shown by
TLC's counterexamples.  Induction over data and RECURSIVE operators are out of reach
too, so no module has a RECURSIVE operator.

## What is not modelled, and why

Everything with status `not_modelled` in `PROJECT.json`, and what the notes of the
partly modelled components name.  In short: pure I/O, formatting, parsing and prose
have no behaviour to check; SQLite, git, the file system and the providers are taken
at their word (transactions and `os.replace` are atomic; git refuses what it says it
refuses).  The scheduler is a sort over one listing that nothing but its tests calls.
Times are what the code derives from a clock: fresh or expired, young or old.
Of the modelled parts these are left out on purpose.  A request replayed under its
idempotency key changes nothing.  A pool's capacity, which the constructor may raise
(`conductor_resources.py:371`; it promotes nobody then), is a constant.  psutil is taken
at its word: that any exception of its, one that says nothing of the process included,
counts as a dead leader (`conductor_store.py:1853-1858`) is not a step.  So are the
providers: an answer that names the model is taken to be from it (`model_team.py:705`
and `726` look for the name as a substring).  The snapshot TruthDeck prints when it has
just captured it is not judged by age (`truthctl.py:135`); `PassIsOneHead` speaks of the
stored one as it is read.

## Plan

1. `HostResources`, `WorkItems`, `SessionVerdict`: runs and theorems -- done.
2. The rest of the Conductor: `CommandInbox` with its abstract specification,
   `PytestAdapter`, `GateVerdict`, `SnapshotRead`, `StoreSchema`, `GatePanel`,
   `HistoryPages` -- done.
3. The programs around it: `SessionEvidence`, `StateReaper`, `WorktreeCustody`,
   `LaneLock`, `CuratorPacket`, `TruthDeck`, `ModelTeam`, the installers -- done.
4. Proofs of every safety invariant and action property the runs check -- done.
5. Two abstract specifications, `IdempotentCommands` and `ResourceQueue`, with the
   proofs that `CommandInbox` and `HostResources` implement them -- done.
6. Open: shorter proofs of the lemmas the host resources rest on; facts that need no
   fairness and that the liveness properties rest on (which step is due in which
   state).
