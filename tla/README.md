# REST_OTM in TLA+

REST_OTM is a restaurant system: a local API (Express, Prisma, PostgreSQL) that
waiters' phones, the till and the kitchen use, a print agent that drives the
receipt printers, a cloud side with the same code under another profile, and a
Windows host that installs, supervises and updates it all. This directory models
the parts of it whose correctness depends on order, concurrency and failure.
Paths below are relative to the repository's root.

## 1. Inventory

| Part | State it keeps | Operations | What is hard |
|---|---|---|---|
| Print outbox, `apps/api/src/modules/printing/print-outbox.*` | `print_jobs` (status, attempts, lease, deadlines), `print_job_attempts` | enqueue, tick (sweep, claim, dispatch, purge), dead letter, acknowledge, reprint | leases that expire, late answers, a tick that fails or overlaps, a license that locks meanwhile |
| Print agent, `apps/print-agent/src` | `completed-print-jobs.json`, a socket, handlers in flight | receive an event, print, record, answer, reconnect | crash between paper, ledger and answer; overlapping handlers; a printer that times out after printing; a closed socket |
| Socket server, `apps/api/src/websocket` | sockets, tenant rooms | handshake, license gate, `order:create`, `sync:offline_orders`, `print:result` | events lost to whoever is not connected |
| Order creation, `apps/api/src/modules/orders` | `orders`, `order_commands`, `order_counters`, lines, stock | create with an idempotency key, append to the table's open order, replay | concurrent retries, rollbacks, effects after the commit |
| Order changes, `order.service.ts`, `cleanup.task.ts`, `tables` | totals, payments, item status, table status | updateStatus, item changes, recalculation, transfer, delete, hide, cleanup | read-then-write at READ COMMITTED, work outside the transaction |
| Menu projection and cloud menu sync, `menu-projection`, `cloud-menu-sync` | `MenuProjectionOutbox`, its sequence, `MenuPublication` | publish with every edit, push, retry, apply in the cloud | versions against contents, late and repeated publications |
| Authentication, `auth` | refresh tokens and families, MFA challenges | login, refresh, change and reset a password | rotation of one token by two requests |
| Local license, `local-license`, `packages/license` | `license.json`, `license-state.json`, `menu-sync-token.json`, one request at a time | activate, heartbeat, verify, lock | late answers, lost answers, a file that is lost, a wrong clock, days without a network |
| Cloud license, `license`, `license-admin` | a row per key: status, machine, expiry, grace | activate, heartbeat, sign; create, update, extend, suspend, resume, revoke, reset, rebind | calls in three statements between which operators decide, calls whose caller gave up |
| Backup, `local-backup`, `cloud-backup` | dumps with their manifests in three places, two queues of missing copies, a lock file | create, copy to the disk, upload, retain, restore drill | power loss between two renames, an export beside the tick, lost queue writes |
| Update, `local-update`, `runtime/windows-host/src/update.rs`, `runtime.rs` | stage directories, handoff, high-water mark, release directories, pointer, journal, database copy | check, stage, hand off; unpack, copy, switch, watch, commit, roll back | a loss of power between any two steps; the candidate's API stages while its own update is open |
| Supervisor, `runtime/windows-host/src/supervisor.rs` | worker threads, a stop flag, a channel, job objects | start in order, probe, kill, restart with back-off, give up, stop | crash loops, a process that is up and not healthy, a stop in the middle of a start |
| Inventory, `inventory` | stock levels, recipes | deduct after an order, alerts | twice or never after a retry or a crash |
| Others: menu, CMS, tenants, staff, customers, reservations, reports, invoices, public site, POS | rows | single-row CRUD and reads | little: no protocol of their own |
| Gateway, browser applications, shared packages, packaging | none, or a screen's | proxy, show, format | the waiter's client repeats a pending command (`apps/waiter/src/lib/api.ts`) |

How they interact: a client calls `order.service` (HTTP or socket) under an
idempotency key; its transaction writes the order, the receipt and the kitchen
tickets as rows of the print outbox; the outbox's dispatcher leases a row and
emits it to the tenant's room; the agent prints, records the job in its ledger
and answers `print:result`; `acknowledge` settles the row. The license runtime is
asked at each of these doors, and when it locks it disconnects every socket. Menu
edits write a row of the menu projection's outbox, which a runtime of the same
design pushes to the cloud under the token that came with the last heartbeat. The
Windows host starts PostgreSQL, the API and the others under its supervisor; the API
leaves a handoff for the host's next start when it has staged a release.

The behaviours that are hard to test, each at its line and with the properties
that cover it, are listed as hazards in `PROJECT.json`.

## 2. Modules

| Module | Models |
|---|---|
| `PrintJobLifecycle` | the abstract specification: what the outbox promises of one job |
| `PrintOutbox` | `PrintOutboxRuntime`, `enqueuePrintJob`, `acknowledge`, rows and audit rows; the agent is left open |
| `PrintPipeline` | extends `PrintOutbox` with wire, agents, ledger, printers and the license's disconnections |
| `PrintReprint` | `reprintDeadJob` against concurrent requests and the dispatcher |
| `OrderCommands` | `orderService.create`, its transaction and what follows it |
| `OrderLedger` | what happens to an order afterwards: payments, lines, totals, tables |
| `PublicationRegister`, `ReleaseRegister`, `BackupVault` | the abstract specifications of the published menu, of the running release and of the kept backups |
| `MenuPublication` | menu edits, their outbox and its runtime, the push, `cloud-menu-sync` |
| `HostUpdate` | staging by the local API, and the host's start, update, health gate, commit, rollback and recovery |
| `Supervisor` | the threads of the Windows host, their processes, the service control manager |
| `LocalBackup` | the backup runtime: creation, copies, both retentions, the drill, crash and start |
| `LicenseLease` | the license in the cloud and on the machines, the calls between them, the operators |
| `PrintProofs`, `OrderCommandsProofs`, `OrderLedgerProofs`, `MenuPublicationProofs`, `HostUpdateProofs`, `SupervisorProofs`, `LocalBackupProofs`, `LicenseLeaseProofs` | the theorems |
| `MC...` | the instances TLC runs |

`PrintJobLifecycle` is implemented by `PrintOutbox`, which is extended and implemented
by `PrintPipeline`; `MenuPublication` implements `PublicationRegister`, `HostUpdate`
`ReleaseRegister` and `LocalBackup` `BackupVault`. The other modules stand alone: they
meet in facts (a license is operational or not, a token is there or not) that the
module on the other side leaves open.

### PrintOutbox

`status`, `attempts` and `audit` are columns of `print_jobs` and
`print_job_attempts` (`apps/api/prisma/schema.prisma`); the values `ABSENT` and
`DELETED` stand for a row that is not there yet and no longer. Each row has one
deadline it is waiting for, and `due` says whether it has passed; `DeadlinePasses`
is time. A lease token is a fresh UUID of every claim, and every claim increments
`attempts`, so the attempt number alone identifies the pair that
`isCurrentPrintLease` compares. A tick is `TickStart`, `MarkExhaustedDead`, up to
`Batch` times `ClaimNext` followed by `Emit` or `DeadLetter` and
`DeadLetterAudit`, then `NothingToClaim` and `Purge`; each is one query or one
transaction, other steps come in between, and `TickFails` ends a tick at any of
them. `claimNext` is one action because `FOR UPDATE SKIP LOCKED` and its
transaction make it one. `acknowledge` is two (`AckRead`, then `Settle` or
`LeaseRaceLost`) because it reads first and writes conditionally. An
acknowledgement of any emitted attempt may come at any time, any number of times:
that is more than an agent can do, and `PrintPipeline` shows that it is enough.

### PrintPipeline

An event reaches the agents in the room at that moment, and may be lost. A handler
checks the ledger (`Receive`), may print (`Ink`), and then succeeds (`Succeed`: the
ledger is on disk before the answer is sent), fails (`Fail`, also after the paper
moved: the timeout of `sendToNetworkPrinter`) or dies (`Crash`,
`LedgerWriteFails`). Handlers of one agent overlap. The links of an agent are
`down` (no process), `retrying`, `connected` and `refused`: the last is the state
in which socket.io-client stays when the server closed or denied the connection.
Answers wait in the agent's send buffer while it is not connected and are lost
with its process. `Acknowledge` is the read of `acknowledge()` written down for a
message, from the row and the audit of the attempt that the message names and from
nothing else: it does not know which attempts were emitted. That no message names
another one is what `ImplementsOutbox` shows. The wire, the printers and the operating system are not code of
this repository; their actions are marked external or mapped to the code that
meets them.

### PrintReprint

The three queries of `reprintDeadJob` as three actions, with the dispatcher
settling and purging rows in between. `NewRow` writes what `enqueuePrintJob`
writes: `reprintOfId` is not among it.

### OrderCommands

A request goes through the places of `create`: insert the receipt, find the open
order, write, commit, effects, reply, or replay after a unique conflict. Writes
become visible at `Commit`; what a transaction holds before that is expressed by
three lock predicates: `ReceiptLocked` (the unique index makes a second insert wait),
`RowLocked` (the order's row) and `CounterLocked` (the row of `order_counters`).
`Dies` at any place is a crash, a timeout, an unknown menu item or a lost answer;
the client sends the command again, with the same or, by mistake, another payload.
Orders are meanwhile completed, deleted, shown again and purged (`OrderChanges`,
`PurgeDeleted`, which takes the receipts along by the foreign key's cascade).
The model assumes `printToKitchen` and that each command has a line for a station:
otherwise there is no ticket to speak of. Amounts, sub-checks and customers are
abstracted: an order's `lines` count how often each command's lines are on it.

### OrderLedger

The operations of `order.service.ts` on an order that is there, and
`cleanup.task.ts`, each as the statements of its method; a request's record holds
its parameters, what it has read (`row`, `old`) and, inside a transaction, what it
has written and not committed (`row`, `marks`), which `Commit` makes visible.
`RowLocked` and `TableLocked` are the row locks such writes hold; two transfers may
block each other, and `Dies` is also PostgreSQL ending that. `Reread`, `WriteTotal`,
`CountActive` and `MarkTable` are the recalculation, which runs outside of the
transaction that changed the line; `CountActive` and `MarkTable` inside one are
`syncTableStatus`. `ClearOrders` and `FreeAll` are the two statements of
`deleteAll`. `SetTable` is staff setting a table's status by hand, or the arrival of
a reservation's guests. A unit price is 1, a command has one line that goes to a
station, and every status that keeps an order active is `PENDING`; subtotals of
sub-checks, treats' tickets and the purge of deleted orders (see `OrderCommands`) are
left out.

Most invariants one would like are false when requests overlap, because the code
reads and writes at READ COMMITTED without locking what it read. The history
variable `torn` collects the orders and tables two requests worked on at once, or one
left half-done; `TotalsAgree` and `TablesAgree` speak of the others, and of them under
every order of operations. `PaidIsPayments` and `CancelledHasTicket` hold whatever
overlaps.

### MenuPublication

A transaction, of an edit or of a worker's initial projection, reads the payload
first (`Begin`) and takes the version last (`Commit`), or is rolled back; a menu is the
set of edits it shows. A worker's tick is `TickStart`, `Sweep`, up to `Batch` times `Claim`, `Push`
and `Settle`, and may end anywhere (`TickAborts`, `Timeout`); its lease may run out and be
taken over. A push is authenticated (`Authorise`) and applied (`Apply`) by the cloud
in two steps, whatever became of the worker that sent it. The cloud may hold a
publication of an earlier installation whose version is ahead (`Installations`), and
its operators delete and edit the tenant meanwhile. `reason` tells a row that is dead
because the cloud has another menu from one that is dead for other causes.

### HostUpdate

The API's side (`StageBegin` to `StageHandoff`) and the host's side meet in the
handoff file. The steps of the host are the writes a loss of power can separate: a
release is unpacked to a temporary directory and renamed, the database files are
copied, a journal is written, the pointer is moved, the journal is confirmed, the
processes are started, and commit or rollback report and clean up. `PowerLoss` may
come at any of them, and leaves the temporary files that each one leaves.
A clean stop and a start that fails are steps too. `installed` is the release a
restart must come back to. `operator` records what the code leaves to a person: a
power loss between the pointer and its confirmation, half-written temporaries that
make the next attempt refuse, and a refused pending update, which stops every start.
Only updates that do not migrate the database are modelled.

### Supervisor

`at[c]` is the place of the thread that looks after process `c`: the main thread
while it boots, then the worker. Setting the stop flag and sending the reason are two
steps (`owes`), receiving with a timeout and reading the flag are two more. Time is
left out: a pause, a timeout and a crash window end at any moment, and six failed
probes in a row are one step (`KillHung`). Faults are exits, hung endpoints, starts and
system calls that fail, and a health file that cannot be written. `stop_child` only
logs a termination that fails and then waits for the process without a limit
(`supervisor.rs:645-648`): at the end of a worker (`StopChild`) and in a start that is
given up (`NotReady`) the thread may come to `stopWait` or `startWait`, which it leaves
when the process ends by itself (`Waited`).

### LocalBackup

A step is what the code does between two awaits that the other actor or a crash can
tell apart. `export` is the owner's request, `tick` the maintenance: both may create
a backup (one at a time, `maker`), copy it, upload it, and run the retention of a
place, which chooses from a listing (`Retain`, `ExternalScan`) and then removes one file
after the other (`Drop`, `ExternalDrop`). `saved` is the queue file, written at best.
Both copies are configured; manifests of version 1, which are only read, are left out;
one class of periods stands for days, weeks and months; the clock does not go back.

### LicenseLease

`row[k]` is the license in the cloud, `file[m]` and `token[m]` what a machine has
stored. A call is `sent`, then the cloud reads (`Check`), writes conditionally
(`Write`), reads back and signs (`Answer`), and the machine stores or rejects
(`Store`, `Reject`). `GiveUp` is the timeout, a lost answer or a stop of the process:
an activation then goes on in the cloud without a caller. Every operation of
`license-admin` is one action, because each is one serializable transaction. Time is
counted in days left, of the membership and of a signed license. Storing is two
renames (`cut`). History: what operators last decided on a key, how many days a machine has
gone since it was entitled, and which answers and files are older than a decision.
`Operational` is what the file says under a right clock. A clock that is behind is
rejected when it is behind the newest time the machine has seen from the cloud; one
that stands still at that time makes the license last longer, and `LeaseBacked` does
not speak of it, although `SECURITY.md:26-27` calls a rollback fail-closed. Its bound is
`MaxGrace`, the most days an operator may grant, and not the days of the key itself.

`Follows` has three clauses, because the code treats the ends of a license differently.
While a machine is entitled it works again and again. Once no key entitles it any longer
it is locked for good, whatever the reason. The token is removed only for a key that
is still bound to the machine and is suspended, revoked or disabled with its account,
because only then does the cloud answer with a signed lock. After a move or a reset
the heartbeat gets 409 (`license.service.ts:323-329`) and the machine keeps its files
(`client.ts:249-255`); after an expiry a license without days is signed, and a token with
it (`license.service.ts:164`). In these cases the days that were signed run out and the
token stays on the disk.

## 3. What is checked

| Run | Module, configuration | Shows |
|---|---|---|
| `outbox` | `MCPrintOutbox`, `MCPrintOutbox.cfg` | types, `AttemptHasOneDispatcher`, `SupersededAttemptAudited`, `PrintedByCurrentAttempt`, and `EveryJobSettles` under fairness |
| `pipeline` | `MCPrintPipeline`, `MCPrintPipeline.cfg` | `PrintedMeansPaper`, `SuccessIsDurable`, `OnePaperPerAttempt`, `LedgerStopsPaper`, and the refinements `ImplementsOutbox` and `OutboxLifecycle` |
| `order_commands` | `MCOrderCommands`, `MCOrderCommands.cfg` | `CommandAppliedOnce`, `StockDeductedOnce`, `LinesHaveTicket`, `AnswersAgree`, `NumbersGrow` |
| `order_ledger` | `MCOrderLedger`, `MCOrderLedger.cfg` | `PaidIsPayments`, `CancelledHasTicket`, and for undisturbed orders and tables `TotalsAgree`, `TablesAgree` |
| `menu_publication` | `MCMenuPublication`, `MCMenuPublication.cfg` | `SettledRows`, `PublicationCarriesEdits`, `DisabledStaysHidden`, the refinement `ShowsPublished`, and `Delivered` under fairness |
| `host_update` | `MCHostUpdate`, `MCHostUpdate.cfg` | `RollbackReady`, `HandoffBacked`, the refinement `RunsInstalled`, and `ComesBack` under fairness |
| `supervisor` | `MCSupervisor`, `MCSupervisor.cfg` | `EndsInOrder`, and `Recovers` under fairness |
| `local_backup` | `MCLocalBackup`, `MCLocalBackup.cfg` | types, `CopiesTracked`, the refinement `KeepsPromise`, and `Copied` under fairness |
| `license_lease` | `MCLicenseLease`, `MCLicenseLease.cfg` | types, `LeaseBacked`, `DecisionsStand`, `NewestKept`, and `Follows` under fairness |
| `agent_reconnects` | `MCPrintPipeline`, `PrintPipelineReconnect.cfg` | violated: see finding 1 |
| `reprint_retry` | `PrintReprint`, `PrintReprintRetry.cfg` | violated: see finding 2 |
| `repeated_cancel` | `MCOrderLedger`, `OrderLedgerCancel.cfg` | violated: see finding 3 |

The type invariants of `PrintPipeline`, `OrderCommands`, `OrderLedger`,
`MenuPublication`, `HostUpdate` and `Supervisor` are proved, and not checked again by a run.

**Bounds.** `outbox`: one job, two dispatchers, two attempts. Jobs share only the
choice of the claim, and two attempts are the least with a takeover, a superseded
answer and an exhausted row; two dispatchers are the least that race. `pipeline`:
one dispatcher (as deployed), one agent, three attempts, so that a delivery, its
repetition and the repetition of that are on their way at once. A second agent
that prints the same job is possible in the code and allowed by the properties,
which are per agent; the theorems hold for any number of them. `order_commands`:
two keys, two requests at once, one table and takeaway, two orders; three requests
were explored while the invariant was developed.
`order_ledger`: two requests, two orders, lines
and tables, and four operations in a behaviour (`MaxStarts`): enough for an order with
two lines and two operations that overlap on it, for two orders on one table, and for
two transfers in opposite directions; quantities up to `MaxQuantity` = 2, payments up
to `MaxAmount` = 1. `MaxOrders` bounds the ids given out.

`menu_publication`: two edits, one worker, two versions, two attempts, one push to a
tick, and two kinds of start (`McInstallations`). In the first the menu is older than
its publication: one edit was made before, the other is made while pushes are under way,
an earlier installation has reached version 0 or 1, and the tenant may be changed once.
The worker's initial projection is the second writer, so two transactions overlap; two
attempts are the least with a retry whose predecessor is still on its way, and one change
of the tenant the least that hides a menu. In the second both edits are made, one after
the other or at once, and nothing is pushed, because the tenant is inactive and stays so:
what a publication contains does not depend on what becomes of it, and both edits with all
pushes are millions of states. Two workers that take leases over from each other are left
to the proof. `host_update`: three releases and two losses of power: a release that
replaces the installed one, one that its API stages while it is on trial, and one after
that; the second loss may hit the recovery from the first (four and three were run once). `local_backup`: two backups, one
period kept locally and two on the disk, two faults: the second backup supersedes the
first, and a crash may be followed by a file that cannot be removed. (Three backups
with one fault, 8 million states, were run once for safety.) `supervisor`: three
processes, two of them essential and two with an endpoint, two exits to a crash loop and
three faults: one process in a loop while another is hung or does not start.
`license_lease`: two machines, only one of them with a network, one key, one day of
grace, memberships of two days, two calls at once, and one counted event (a decision
that takes something away, a lost file, a clock that fails); decisions that give
something back are not counted, so a license is suspended and resumed, disabled and
enabled. Two events were run for safety (800,000 states).

Nothing else is bounded by hand, because attempts are bounded in the code and the
histories by the bounds above. Symmetry is used where a run checks no liveness.
Every run checks for deadlock (an idle system can always be asked for something)
except those that may stop: the two of `OrderLedger` when `MaxStarts` operations are
done, `menu_publication` when its versions are used up, and `supervisor`, where the host may
end without an error and stay down.

**Fairness.** `outbox`: the interval
timer of `start` makes ticks keep coming and time passes, hence weak fairness of
`DeadlinePasses` and strong fairness of `TickStart`, which a locked license
disables now and then. A tick may fail at any query, but not every tick at the same
query for ever: strong fairness of the sweep and the claim. A locked license is
renewed some time. Nothing is assumed of agents, acknowledgements or the wire: a
job that nobody answers settles as well. For `agent_reconnects`: the license unlocks,
and the client's retry timer and the agent's supervisor run.

`menu_publication`: transactions commit or roll back, ticks keep coming, a push is
answered or times out, deadlines pass (weak); not every tick is cut short before the
sweep, or before a claim (strong). Nothing is assumed of the cloud. `host_update`: the
service control manager starts the host again after an error
(`Install-RestOtmHost.ps1:73-82`), its steps are taken, and the installed release
gets healthy now and then (strong). `supervisor`: threads go on, a process that was started opens its
endpoint, six probes in a row come to an end, and the service control manager restarts.
That a process which could not be terminated ends by itself is not assumed: `Recovers`
is stated for behaviours in which no thread waits for one for ever (`Stuck`).
`local_backup`: the tick keeps coming, an export gets on, a stopped service is
started, and the disk is there and an upload goes through now and then (strong).
`license_lease`: days pass, the cloud ends what it has begun, a machine with a network
sends heartbeats (`runScheduledHeartbeat`) that do not all fail at the same place for ever
(strong), one of them is stored on the day it was signed and without a power loss
between two renames, and its clock is set right.

**Findings.**

1. An agent that the server disconnected does not come back (`agent.ts:354`), though
   it is configured and announces to retry for ever (`agent.ts:82`, `:363`).
2. A reprint command that is repeated is refused, because `reprintOfId` is never
   written (`print-outbox.service.ts:80`), though the comment at `:104-108` promises
   that it can be repeated.
3. Two cancellations of one line that overlap print two tickets
   (`order.service.ts:449`), though `print-triggers.ts:4-8` and
   `print-triggers.test.js:40` promise one.

**Also seen** while modelling, and part of the models as the code has it:

- The audit row of a print job's last attempt is not flagged when the sweep declares the
  job dead (`print-outbox.runtime.ts:289`); `schema.prisma:851-852` says that ambiguous
  recoveries are retained in the audit rows.
- A worker that gives up sets the stop flag before it sends the reason
  (`supervisor.rs:322`): a main thread that times out in between ends without an
  error, and the service stays down, where `runtime/windows-host/README.md:44` speaks of
  an end with an error. `EndsInOrder` says that this is the only such way. The other way
  round, a stop that is asked for during a restart may be reported as a failure.
- The API of a candidate may stage the next release while its own trial is open;
  commit and rollback then drop that handoff unread, and staging is blocked, because the
  high-water mark is above every release (`update.rs:581`). An update lock left by a stop
  blocks it too.
- After an unclean end of PostgreSQL, `postmaster.pid` makes the snapshot of an update
  refuse; the release directory is then there already and every later start is rejected.
- A license with no days of grace, which the validation admits, is never valid on the
  machine, so it cannot be activated.
- A process of the Windows host that neither ends nor can be terminated keeps its worker
  in `child.wait()` (`supervisor.rs:645-648`), and with it the join, the stop of the service
  and its restart.
- A machine whose license was moved, reset or has expired keeps its menu sync token; the
  cloud does not accept it any more (`cloud-menu-sync.auth.ts:29-82`).
- A ticket that cannot be built is a DEAD row under an `:unroutable` key
  (`print-payload.builder.ts:166`). `LinesHaveTicket` and `CancelledHasTicket` take it for a
  ticket: it is on record with its reason, and on no paper.
- After a reset of an activation, a call of the old machine that is still in the cloud may bind the
  license to it again; the code admits whoever comes first.
- Two edits of the menu that overlap may publish the newer version with the older
  contents (`menu-projection.service.ts:258`); the next edit corrects it.

## 4. What is proved

All theorems hold for every value of the constants that satisfies the `ASSUME`s of
the modules (positive bounds, finitely many lines, model values that are neither rows
nor statuses).

- `PrintProofs`, `PrintOutbox`. The inductive invariant adds to the types and the three
  properties: which step a dispatcher with a claim is at, that emitted attempts
  were claimed, that audit rows exist exactly for the claims made, and that an
  acknowledgement between its read and its write belongs to an emitted attempt.
  Theorems `TypeCorrect`, `OneDispatcher`, `NoSilentTakeover`,
  `PrintedUnderLease`. The last needs the audit: that only the holder of the lease
  may write `success`. `ImplementsLifecycle` assumes one dispatcher
  (`SoleDispatcher`); it is false for two, where a delayed dead letter overwrites a
  printed row.
- `PrintProofs`, `PrintPipeline`. `PipelineImplementsOutbox` maps each step of the
  composition to a step or a stutter of `PrintOutbox`, so all its theorems hold
  there. For an answer this needs an invariant: that every delivery, handler and message
  in flight names an attempt that was emitted (`EmittedInv`). `SheetsAreAttempts` counts,
  for an agent and a job, the sheets used and the attempts that may still cost one (on
  the wire to that agent, or in a handler that has not printed yet: `Owed`): together
  they are no more than the attempts emitted (`SheetInv`). `PipelineLifecycle` goes on to `PrintJobLifecycle`. `PrintedIsOnPaper`
  follows the evidence of paper backwards: a settled success was an answer, an
  answer is backed by the ledger (`SuccessIsInLedger`), the ledger by paper, and an
  answer read before a crash keeps its evidence because paper is never taken back.
  `LedgerStopsRepeats` is an action property of the same invariant.
- `OrderCommandsProofs`. `IInv` adds what the locks give between two statements: one
  transaction of a key, one holder of the counter, its number the next one, the
  receipt of a transaction under way not there yet (`LockInv`), what a request has
  found at each place (`FoundInv`), receipts that name existing orders
  (`ReceiptInv`) and tickets that name the receipt's order (`TicketInv`). `MoveIInv`
  covers every step that leaves the tables alone, `CommitRow` and `CommitIInv` the
  one that writes them. `StockInv` counts, for a key, the requests between their
  commit and the deduction (`Owing`): finitely many, and what they will deduct and what
  is deducted already never exceed the applications of the command. A loss of the
  process forgets some of them and deducts nothing, so only the commit and the deduction
  itself have to be looked at; it needs no bound on the number of requests. Theorems
  `OrdersTypeCorrect`, `AppliedOnce`, `TicketsComplete`, `StockOnce`, `AnswersCorrect`,
  `NumbersIncrease`.
- `OrderLedgerProofs`. `IInv` adds to the types what a request at each place may rely
  on (`Placed`: rows it works on are there and stay) and what it has read (`Known`: a
  row it will write back is one whose payments add up, a line it read as cancelled
  has its ticket). What is known only grows (`StaysSound`), so the steps of one
  request cannot spoil that of another; no lock is needed for it. `SumType` shows that
  a sum over finitely many lines is a number. Theorems `LedgerTypeCorrect`,
  `PaymentsAddUp`, `CancelsAreTold`.

  The totals and the tables do rest on locks and on who overlaps with whom, and neither
  property is inductive: between the write of a line and that of the total the order is
  wrong, and a table is between the count and the update. The proof goes in three parts.
  - `Base`: two requests that share an order or a table have torn it, and all of an
    operation whose order somebody else works on is torn (`Apart`); a row that a
    transaction has written stays as it was until the commit, and a line stays with its
    order (`Kept`). `TouchedIs` turns the sets of `Touched` into the predicates
    `Handles` and `Seats` that the steps can be followed by. Only `Commit` moves an
    order to another table, and has a proof of its own (`CommitBase`).
  - `TotalInv`: while an order is not torn, what an item's or a quantity's update has
    read is still there and the total about to be written is due (`Exact`); prices are
    right, and the total is right or somebody is about to write it (`Totalled`).
    `DueMore` shows that a new line adds one to the sum, `DueSame` that a step
    elsewhere adds nothing. Theorem `TotalsRight`.
  - `TableInv`: a transaction has marked, or still listed, the tables its row leaves and
    comes to, and a mark is what the table will be after the commit (`Marked`); what
    was counted outside a transaction still holds when it is written (`Followed`); a
    table agrees with its orders or somebody is about to write it. Each step leaves a
    table as it was or sees to it (`SeesTo`); `TablesStep` is that argument once for all
    steps. Theorem `TablesRight`.

  Before the proof TLC found these invariants to hold with two and with three
  concurrent requests.
- `MenuPublicationProofs`. Rows above the sequence are untouched, a push carries the
  payload of its row, and a worker waits for one push at a time; the cloud only goes
  forward, so what settled a row stays true. `DisabledStaysHidden` follows because
  `Shut(n)` is closed under steps. Theorems for all four safety properties, with any
  number of workers; `MenuShowsPublished` is the refinement of `PublicationRegister`.
- `HostUpdateProofs`. The step the host is at tells what journal, pointer and
  directories say, and no process runs while they move; a handoff left by a candidate
  names that candidate as current. Theorems `HostRollbackReady`, `HostHandoffBacked`,
  and `HostRunsInstalled`, the refinement of `ReleaseRegister`.
- `LocalBackupProofs`. What a retention chose before an await is still superseded
  after it: superseded backups may go in any order without another becoming needed
  (`SupersededDrop`). What is confirmed was there, so the queues are rebuilt from the
  files. Theorems `BackupCopiesTracked` and `BackupKeepsPromise`, the refinement of
  `BackupVault`.
- `SupervisorProofs`. A worker that does not watch a process has none (`GoneInv`), one first
  start at a time and only while the main thread boots (`BootInv`), after the end
  nobody acts (`EndInv`), and a stop nobody asked for has a reason that is owed, in the
  channel or taken (`FlagInv`). Theorem `SupervisorEndsInOrder`.
- `LicenseLeaseProofs`. The days since a machine was entitled and the days left of an
  active license, in its file or on its way to it, never exceed the grace together
  (`LeaseInv`), because a license is signed as active only for an entitled machine or for
  no time (`CountInv`). A machine waits for one call at a time, so no answer is older
  than the license it has stored of that key (`FreshInv`). Theorems
  `LicenseLeaseBacked`, `LicenseDecisionsStand`, `LicenseNewestKept`.

Only model-checked: the liveness properties `EveryJobSettles`, `Delivered`,
`ComesBack`, `Recovers`, `Copied` and `Follows`, which are out of the prover's reach, and
`PrintReprint`, whose one run is a counterexample. Every safety property and every
refinement that a passing run checks is a theorem; `OutboxLifecycle` for one dispatcher,
which is also what holds.

## 5. What is not modelled

- Sessions (`auth`): login, rotation of refresh tokens, MFA. A hazard names what is hard
  there (`auth.service.ts:321`).
- Updates that migrate the database, and the installer's provisioning: sequences of
  system calls. A restore of a backup into production is not in the code.
- The account of the first owner that the local API makes after an activation
  (`local-installation.service.ts`); hashing and rotation of license keys; counters of
  suspicious calls; lists.
- Formatting of receipts and tickets, printer settings, POS payments, discovery; reports and
  CRUD without a protocol; recipes and amounts of stock; packaging.
- The browser's screens. Most of the repository's lines are theirs, followed by
  reports, validation and formatting: the share of lines the modules stand for is small
  for that reason, while the parts with state that several actors change are covered.
- The ledger of the print agent prunes old entries: `LedgerStopsPaper` speaks of a job
  while its entry is kept.

## 6. Plan

1. `AuthSessions`: rotation and revocation of refresh tokens and of sockets that
   outlive them.
2. An abstract specification of an order, whose total, payments and table change
   together, that `OrderLedger` implements wherever requests do not overlap.
3. The database of an update that migrates it, added to `HostUpdate`.
4. Stock: recipes, waste and counts against the deductions of `OrderCommands`.
