# A TLA+ verification project for Maghz

Maghz keeps a knowledge base in PostgreSQL (`db/*.sql`), embeds its concepts
asynchronously inside the database, and is operated by one command line program
(`admin/*.py`) whose rails deploy the stack, apply the schema, copy dumps to cloud
remotes, run automation specs and execute commands on a remote host.  This project
models the embedding pipeline, the engine that runs concurrent work, every rail of the
command line and the small services beside them, wherever steps of several actors
interleave, faults are retried, work is cut short or one answer depends on many
earlier steps; TLC checks the models on small instances, and TLAPS proves what
matters most for every value of the constants.

Line numbers below are those of the repository; `rails.py` stands for
`admin/rails.py`, `routines.sql` for `db/routines.sql`, and so on.

## Inventory

| Part | State | Operations | What makes it correct |
|---|---|---|---|
| Embedding pipeline (`routines.sql`, `cron.sql`, `schema.sql`) | `concept`, `embed_request`, pg_net's queue and response table (unlogged) | `concept_maintain`, `embed_enqueue`, `embed_drain`, three pg_cron jobs | a vector is only replaced by the current content's; one request in flight per concept and enqueuing session; a lost reply never blocks a concept; the ledger stays bounded; every stale vector is refreshed |
| Lanes and drains (`runtime.py` 440-557) | a limiter per policy value; a bounded stream and a task group per drain | `LanePolicy.drain`, `Admit.of`, `Admit.guarded` | no lane waits for one that cannot go on; a receipt accounts for every unit; nothing outlives its drain; effects stay within the attempts; a drain returns |
| Automation engine (`automation.py`, `runtime.py` 560-596, 819-823) | a fire stream of 64, a lane task, skip tasks, a signal task, an append-only ledger file | `drive` and its manual, watch and schedule lanes, `_ledger_skip`, `_signal_lane` | each run or skip has one ledger line; fires in order; a slow action frees its lane; the outcome is the latest run's |
| Fault algebra (`runtime.py` 54-226) | none | `boundary`, `traversed`, `combine`, `lower`, CLASSIFY | a composite of faults is graded by its worst member; recoverable and terminal faults are told apart |
| Ledger client (`db.py`) | a connection per query under a shared limiter | `query` | a statement is committed again only for an answer that was lost; deterministic rejections are final |
| Schema rail (`rails.py` 475-588) | the database's catalog, files in the container | `schema apply`, `schema doctor` | exit 0 means that every step is applied |
| Cloud rail (`rails.py` 80-305) | dumps and content trees on remotes | `sync`, `restore` | a remote is listed only when its dump and its tree are up; restore before resync |
| Ledger, sync and health rails (`rails.py`) | none of their own; `sync generate` makes a Heptabase note | queries and probes | the doctor's exit says what the census says; every invocation ends |
| Stack rail (`infra.py`) | a Pulumi stack | `up`, `down`, `status` | an ok `up` has converged; the grade is of the attempt that returned |
| Remote rail (`remote.py`) | a working tree here and there | `exec`: list, push, run, pull | the command starts once, on files that have arrived; the receipt names what ran |
| Research jobs (`schema.sql`, `routines.sql` 205-220) | `job` rows with heartbeats | `jobs_mark_stale` | only silent jobs are marked |
| Search and views (`routines.sql`, `schema.sql`) | an incremental view | RRF search, ledger views | the views agree with the questions the rails ask; ranking |
| Webhook receiver (`hook/server.py`) | an append-only file | `do_POST` | an answered delivery is in the file |
| Extension profile (`profile.py`, `image/Dockerfile`) | three generated blocks | `regenerate`, `census_diff` | the blocks and the catalog agree |
| Settings (`settings.py`) | one immutable value, resolved once | the merge of the sources, the validators, the cache | a command reaches what the strongest source says |
| Envelope and CLI (`core.py`, `__main__.py`) | none | `Status.fold`, dispatch | the envelope's status is the worst of its parts |

How they interact.  The command line starts one rail per process.  Every rail that
does more than one thing at a time does so through `LanePolicy.drain`; every call
that leaves the process goes through `spawn`, `query` or an HTTP guard with a retry
class, and comes back as a value or as a `BoundaryFault`.  The automation engine
drives the other rails: its embed action runs `embed_enqueue` and `embed_drain` in one
transaction, beside the two pg_cron jobs that run them separately each minute.  The
database and the program share nothing but SQL; pg_net and Ollama see only requests.

What is hard here.  *Interleaving*: READ COMMITTED runs of the two embedding routines
against each other, against editors and against pg_net's reaper; drains that share
a limiter; skip tasks beside a lane.  *Failure*: unlogged tables emptied by a crash,
failing and malformed replies, exceptions out of a ledger append, steps that go on
after one failed.  *Time*: a deadline or a signal that lands between an effect and
its record, TTLs that race late replies, retries that repeat an effect.  *Bounds*: the
batch, the fire stream, the drain's stream.  `PROJECT.json` lists the hazards at
their lines with the properties that watch them.

## How the modules correspond to the code

| Module | Lines of the code | What it is |
|---|---|---|
| `EmbedStore` | what `schema.sql` promises of `concept.embedding` | abstract specification: a vector is absent or of a content the concept had; it is only replaced by the current content's, and a stale one eventually is |
| `EmbedPipeline` | `routines.sql` 29-190, `schema.sql` 153-171, `cron.sql` 24-41, `automation.py` 246-258 | the pipeline; implements `EmbedStore` |
| `EmbedProofs` | | its theorems |
| `LaneDrain` | `runtime.py` 374-557 | drains of policies, lanes, limiters, retries, deadlines |
| `LaneProofs` | | its theorems |
| `AtLeastOnce` | what drains, queries and webhooks promise of repeated work | abstract specification: a thing takes effect at most as often as it may be tried, contained work only until its caller has heard of it; who hears "done" can rely on it; implemented by `LaneDrain`, `LedgerClient` and `HookReceiver` |
| `Automation` | `automation.py` 175-446, `runtime.py` 560-596, 819-823 | one `automation run` |
| `AutomationProofs` | | its theorems |
| `CloudSync` | `rails.py` 117-305 | `cloud sync` and `cloud restore` |
| `CloudProofs` | | its theorems |
| `FaultAlgebra` | `runtime.py` 66-226, 427-437 | the exception hierarchies, CLASSIFY, the targets of the retry classes, `combine`, `traversed`: operators the rails below use |
| `FaultBlocks` | | a block of rails as it settles, to which the operators are applied |
| `FaultProofs` | | its theorems |
| `Envelope` | `core.py` 35-183, `__main__.py` 220-243 | status, fold and exit code; `main`; extended by each rail |
| `LedgerClient` | `db.py` 88-266, `runtime.py` 345-418 | concurrent queries under one limiter, their retries and lost answers; uses `FaultAlgebra` |
| `Profile` | `profile.py` 150-410 | the extension catalog and the census comparison |
| `DataRails` | `rails.py` 403-412, 522-812, `runtime.py` 219-227 | `ledger`, `schema doctor`, `sync diff`, `sync generate`, `health`; composes `LedgerClient`, `Envelope`, `Profile` |
| `SchemaRail` | `rails.py` 427-588 | `schema apply`, several times; composes `Envelope` |
| `StackRail` | `infra.py` 131-534 | `stack up`, `down`, `status`; composes `FaultAlgebra`, `Envelope` |
| `RemoteRail` | `remote.py` 174-550 | `remote exec` beside the edits of the tree; composes `FaultAlgebra`, `Envelope` |
| `Settings` | `settings.py` 59-478 | the merge of the sources, the validators, the cache and the docker endpoint |
| `HookReceiver` | `hook/server.py` 19-66 | the receiver's threads, its ledger and its sender |
| `ResearchJobs` | `routines.sql` 205-220, `schema.sql` 120-244, `cron.sql` 32-38 | the staleness sweep beside workers |
| `LedgerQuestions` | `rails.py` 360-388, `routines.sql` 351-398, `schema.sql` 132-188 | the tables under writes, the views and the questions |
| `LedgerProofs`, `RailProofs`, `ServiceProofs` | | the theorems of the modules from `LedgerClient` on |
| `MCEmbed`, `MCLane`, `MCAutomation`, `MCCloud`, `MCCommands` | | what TLC instantiates |

An operator whose comment begins "Faulty variant" is no part of the model: it is what a
plausible bug would make of the definition after it, and is kept to show that the
property beside it notices.

**EmbedPipeline.**  `content`, `embedding`, `updated_at` and `embedded_at` are columns of
`concept` (a text stands for its own `content_hash`, and a vector for the text it was
computed from), `receipts` is `embed_request`, `wire` and `responses` are pg_net's queue
and response table.  A run of the routines is two steps: `Begin` fixes `now()` and reads
the snapshot (the pending batch, the ready responses, the expired receipts), `Commit`
writes all of it.  Between the two any other session may commit.  What PostgreSQL
re-evaluates on a row that changed in between is modelled where the code depends on it:
`Applied` tests `content_hash = request_hash` on the row as it is at commit, whereas `closed`
and `expired` close what the snapshot had.  `Commit` of the automation session does both
routines, as the rail's one transaction does.  `ForeignKeyFails` is the roll-back of a
batch one of whose concepts has gone; `Poisoned` is the failing `content::jsonb`.  Time
has two grains: the order of `now()` (`clock`), which is all that `updated_at` and
`embedded_at` are compared by, and hours, which is all that the TTL and the retention
are compared by.

**LaneDrain.**  A unit of a drain has a `phase`: it waits for the policy's limiter, works,
backs off between attempts, is ready to send, has sent, or has ended unsent.  `Falter`
and `Retry` are `_graded` and stamina's loop, with attempts and the class timeout
(`spent`).  `effects` is not in the code: it counts how often the work has really
happened, which is what `completed` is compared with.  `policy` is the value each drain is
called on, its deadline and key included: `_limiter` is cached by that value, so `Holders` are
the lanes of all drains of an equal policy and of no other.  `Expire` is the policy's
deadline, `Interrupt` a cancellation from outside the drain, and `Cancel` lets a
cancelled lane's work have happened or not.  Work is what the program's own tasks and worker
threads do (`run_sync` waits for its thread before it gives way to a cancellation); what a server or a
child process goes on with afterwards is in `LedgerClient`, `SchemaRail` and `CloudSync`.

**Automation.**  `fate` and `lines` say of each fire what became of it and how many
ledger lines stand for it; `lane`, `current` and `outcome` are the lane task with its local
variables, `skips` the running `_ledger_skip` tasks, `stop` why the task group is
cancelled, `exit` how the process ends.  The three triggers share one lane, since what
they do differs in the places the actions name: a watch takes the whole batch, a
schedule one tick, a manual spec one fire and then returns.

**CloudSync.**  `tree`, `dumps` and `ledger` are the world: the content tree at each site,
the dumps on each remote, and whether a restore has left the database whole.  `stage` is
the statement of `_sync_detail` or `_restore_detail` the operation is in, `lane` is the
unit of each remote.  rclone's bisync is external and modelled by its documented
contract: it lists both sides (`List`), compares the listings with the baseline of its last good
run, moves the differences (`Bisync`), and leaves the baseline when it fails, with any
part of the moves done (`BisyncFails`).  All units work on one local tree.  `removed`,
`began` and `calm` are history that the properties speak of.

**FaultAlgebra.**  An exception is its name; a block's folds are recursive functions, as the proofs
need them; `Hierarchy` gives the classes it is an instance of, so that a row of `CLASSIFY` or a
retry target matches subclasses as `isinstance` does. A fault is the sequence of its leaf tags: a
leaf has one, an aggregate has those of its members in order.

**Envelope.**  `envelope` is the status of the one envelope of an invocation, `exit` the
process's exit code.  `completed` and `fault` are the two ways in which `lower` ends a
rail; `main` emits once and exits on `code`.  Several modules run more than one
invocation, each of which starts when the one before has exited.

**LedgerClient.**  `step` follows a query from the wait for a slot over the dial to its
release.  `applied`, `lost` and `orphans` are the server's side, which the code never sees:
how often the statement was committed, how many attempts lost its answer, and how many of those the
server still works on.  A client that times out or is cut off leaves its statement to the server
(`Drop`), which may commit it at any time later (`LateEnd`), while the client repeats it or after
`query` has returned; a fault therefore tells the caller nothing.
`Raise` is the retry of the whole unit; the back-off is outside the slot.

**DataRails.**  `Mine` is the query of the invocation, among other queries of the process, which
take slots of the same lane, back off and end as they like (`Wait`, `Elsewhere`).  What each command
does with the rows is a guard on `outcome[Mine]`; its data are chosen freely (`live`, any set of
extensions; `findings`, any sql files).  The client of Heptabase is external and is modelled by the
ways `_heptabase` distinguishes.

**SchemaRail.**  `grade` is the receipt's exit of each step, `effect` what the database
really has, which outlives the invocation.  A step that needs the work of an earlier one
fails without it; one cut at its deadline may have been done by the server.  Between two
invocations any part of `effect` may be gone: a file edited, a container or a database replaced.

**StackRail.**  `recorded` is Pulumi's state file and `present` the daemon: they differ when
a container is removed by hand.  `engine` is the attempt's own sink of diagnostics,
`emitted` all of them.  Resources, their dependences and the ingress of `prd` are those of
`_define`.

**RemoteRail.**  `tree` and `head` are the local files and the last commit, which `Change` may
alter between any two steps of the rail; `remote` is the workroot, which keeps what earlier
invocations left.  `quiet` is history: a clean tree at the listing, untouched since.

**Settings.**  `given` is what each source holds, `config` the cached result.  The fields kept
decide which host and docker daemon a command reaches; they belong to three groups, so that a merge by
groups and one by fields differ.  An empty value counts as absent.  The merge of nested dicts is
pydantic-settings' `deep_update`, weakest source first.

**HookReceiver.**  A request is an event and the number of its repetition, each with a `thread` of
its own.  The sender waits for one at a time (`listening`), but when it has given up on a request that
request's thread goes on (`GiveUp`), so a repetition may overlap it and an append may follow the
204 of the repetition.  `Fail` is a body that ends early, a full disk or a broken socket, in
one thread; `Stop` ends all.

**ResearchJobs.**  `txn`, `lock` and `snapshot` are PostgreSQL's side of the sweep: it reads from a
snapshot, waits for a locked row, and tests that row once more.  A worker's `Begin` fixes `now()` and
nothing else; `Take` gets the row later, perhaps after a transaction begun after it, so a beat can set
`heartbeat_at` back.  Two sessions work at one job.

**LedgerQuestions.**  `tally` is `maghz.concept_tally`, kept by increments.

## Runs and what they show

| Run | Instance | Shows |
|---|---|---|
| `embed_races` | one concept with two texts, three writes, an editor in a longer transaction, the cron drain beside the automation rail | the vector is only ever replaced by the current content's; replies meet their own receipts; a concept has at most one open receipt for each enqueuing session; every good reply is read before it is reaped |
| `embed_live` | two concepts, a batch of one, both cron jobs, one bad reply or crash or rolled back run or outage | fresh means current; late and repeated replies meet their own receipts; the pipeline implements `EmbedStore` with its liveness; every receipt closes; the ledger empties |
| `lane_drains` | two drains of equal policies, with a deadline or without; a retried and a bare unit each; capacity one | no lane is stuck; receipts add up; the drain implements `AtLeastOnce`; every drain returns |
| `automation_lanes` | all triggers, four fires, a stream of two, a signal and a failing disk anywhere | the ledger is exact; outcome and order; every fire is settled |
| `cloud` | two remotes, one file, two edits anywhere, two operations | what is listed is backed up; good runs converge; a resync follows its replay; operations end |
| `commands` | one subject in each behaviour: blocks of three rails; two queries on one slot; each data rail; two applies; three verbs of the stack; two `remote exec` over three files; five rows in the settings' sources; two webhook events with three requests each; two jobs and two worker sessions; two concepts | ssh faults have one partition and dispositions agree; commits follow lost answers; queries and the webhook implement `AtLeastOnce`; rails end; what exit 0, a receipt, an admitted setting and a 204 promise holds, and settings reach what the strongest source says; ended jobs stay ended and silent ones surface; questions and views agree |
| `embed_overlap`, `embed_double_post`, `embed_poison`, `automation_shutdown`, `cloud_restore`, `stack_down` | the smallest instance that has the case | the code does not do what a document says: see Findings |

Deadlock is not checked in any of them: writers, drains, fires, operations and invocations
are used up in the end, and then nothing is left to do.  The subjects of `commands` share
no state but the envelope, so their composition into one run is a disjoint sum and
loses no interleaving; those of one subject's actors are all there.

**Bounds.**  `MaxWrites`, `MaxFaults`, `MaxFires`, `MaxEdits` and `MaxRuns` bound the environment;
the system's own counters need no bound.  Three writes of one concept are an insert, an edit before
and an edit after a reply, or a delete and what comes back late.  Two concepts are what a batch of
one has to choose from, and what one bad reply can harm another by.  `Ttl` and `Retention` of 0 or 1
hour are the smallest horizons at which "before", "at" and "after" differ.  Two drains of two units
are two contenders for one permit across drains and within one.  Four fires are more than a stream
of two and a lane of one can hold.  In `CloudSync` no file influences another, so one file is every
file, and a move of one file is as fine a step as rclone makes; two remotes are two units racing on
the local tree, and two operations after an installation at rest or an empty one are a first and a
second run.  The safety properties of `cloud` were also checked with two files (4 million states).
In `lane_drains` at most one unit at a time is on a fault (`MaxFaulty`), which keeps the liveness
check small.

In `commands`, `MaxRails` 3 is the shortest block in which an aggregate takes a further member.
`DbAttempts`, `SshAttempts` and `StackAttempts` 2 (4, 5 and 3 in the code) are a first attempt and a
last one that repeats it; `LaneCapacity` 1 (8) with two queries is contention for the last slot.
`MaxApplies`, `MaxExecs` 2 are an invocation and one that starts from what it left; `MaxVerbs` 3 and
`MaxVanished` 1 allow up, a container removed by hand, up, down.  `MaxEdits` 2 is an edit and a
commit, or two edits, at any points of a push.  `MaxPuts` 5 rows are the four a valid `prd` needs
and one that overrides, and `MCDomain` gives `host` the two values and the empty one between which
sources can disagree.  `MaxSends` 3 is a request given up, its overlapping repetition and one after
both.  Both sessions of `JobOf` work at one job, the second job has none and falls silent.
`MaxClock` 2 and `MaxSilence` 1 are the smallest at which a job falls silent and may come back.
`MaxWrites` 7 reach two domains, two concepts, an embedding, a citation and a move.

`WithoutLosses` keeps lost answers out of the behaviours of the data rails, for which a lost answer is an
attempt that was refused; they are the subject of the client's own behaviours.

For safety hardly any of these bounds matters in the end: the theorems below hold for
every value of the constants.

**Fairness.**  Only `embed_live`, `lane_drains`, `automation_lanes`, `cloud` and `commands` use it.
The pipeline assumes that pg_cron starts each job again and again and a started run
commits or fails, that pg_net's worker answers what it holds, and that hours pass; a
reply that is good is assumed possible every time, and bad replies, crashes and aborted
runs are bounded by `MaxFaults`.  Lanes assume that the event loop runs tasks that are
ready, that back-offs and deadlines pass, and that work ends by itself only in a drain
without a deadline.  Automation assumes that of its tasks and of the policy's
deadline; an action need never end.  The cloud rail assumes that its deadline passes
and that what it cancels stops; `pg_dump`, `pg_restore` and `rclone` need never end.
The data rails assume that their own task runs, and that the driver and the clients answer or
reach their deadlines (`db.py` 262-266, `rails.py` 640-653); one of them moves at a time, so
a query that never left its slot would be noticed.  The jobs assume that pg_cron
starts the sweep, that a worker's open transaction ends, and, as strong fairness, that
the sweep gets a row it waits for again and again, since PostgreSQL queues those who wait.

## What is proved

All theorems are for any value of the constants, from the named assumptions beside the
CONSTANTS (finite sets of drains and remotes, positive capacity and attempts, natural
bounds), and by an inductive invariant that is stronger than the property.

*EmbedProofs.*  That a reply is applied only to the text it embeds is no fact about one step: it
needs that ids never meet.  `LedgerInv` says that every open run has its own `now()`, that what a
run has read names receipts of earlier runs, and that a request or reply with a receipt's id carries
that receipt's text.  From it follow `TypeCorrect`, `ResponsesMatch` and, with the test of the hash
at commit, `PipelineImplementsStore`: every step is a step of `EmbedStore` or leaves content and
vectors alone.  `FreshIsCurrent` holds if no client edits inside a longer transaction (`Editors =
{}`); run `embed_overlap` shows that this cannot be dropped.  `RequestsInFlightAreFew` is what the
anti-join of `pending` does keep when enqueues overlap: `QueueInv` counts the open receipts of a
concept together with the runs about to post it.  A run becomes one of those only when no receipt is
open, and then they are all of them enqueuing sessions; so there are at most as many as such
sessions, two in the code, which run `embed_double_post` reaches.

That a reply is drained before it is reaped
needs `DrainInv`: until the first outage or bad reply, a landed reply whose receipt is still open
landed within this hour (`DrainedUntilAFault`, for any sessions and editors).

*FaultProofs.*  What a fold computes for a block of any length is an induction, which the library
offers only as a theorem with an operator parameter.  `IntervalInduction` replaces it: a set of
numbers that fails the induction has a least member outside it, since `<` on `Nat` is well founded.
`RunsExist` then shows that the recursive function exists and `RunsStay` what is kept along it;
`ValuesUnfold`, `FaultsUnfold`, `AbortingUnfolds` and `CombinedUnfolds` give the folds their
recursion equations, `FoldsAgree` compares them rail by rail; hence `DispositionsAlwaysAgree`.
`SshFaultsArePartitioned` adds which row of CLASSIFY is the first to match each ssh fault.

*LaneProofs.*  `LaneInv` relates effects to attempts in every phase and the phases of lanes to
the state of their drain.  It gives `LaneTypes`; `ReceiptsAccount` adds the arithmetic of finite sets.
`DrainsImplementAtLeastOnce` maps each step: an attempt's effect is a `Happen`, a drain that returns is
one `Report` of all its units, everything else a stutter.  `LanesDoNotBlock` says that
no lane is stuck: one with a result finds room in the stream nobody reads yet, because the
buffer is as long as the block, and one that waits finds the limiter free or held by a lane that can
go on, in its own drain or in another of an equal policy.

*AutomationProofs.*  `AutoInv` says where a fire that has left the queue is: in the lane's
hand, with one skip task, in the ledger, or lost to a cancellation; and that the batch in
hand is later than every earlier run.  It gives `AutomationTypes`, `FiresStayInOrder`,
`LedgerIsExact` and `OutcomeIsLatest`.  `LostIsOneBatch` bounds the finding of
`automation_shutdown`: what is lost is the batch in hand, outside a watch a single run
(`ShutdownLosesOneRun`).  `FireBufferHolds` bounds a schedule's queue.

*CloudProofs.*  `Kept`: whatever a bisync takes away, some user has removed, because both
its baseline and its listing still have every other file, whatever the other unit does to the
local tree; hence `ListedRemotesAreBackedUp`.  `Quiet`: an undisturbed unit that ends well
leaves its remote equal to its baseline, so the next run that is no resync brings nothing
in, the local tree stands still, and each remote becomes equal to it; hence
`GoodRunsConverge`.  `CloudTypes` and `NoResyncOverHalfARestore` complete it.
`RestoresWhatIsHeld` is the positive half of finding 5: what is replayed is a dump the primary
holds, and the latest while all it holds are of one run.

*LedgerProofs.*  `CommitsInv` adds to `CommitsFollowLosses` that a query under way has no outcome:
only a loss leaves a statement to the server, and only the answer that arrived ends in a value;
hence `CommitsFollowLostAnswers`, for any number of queries, slots and attempts.  `AttemptsBound`
counts commits, and those the server may still make, against attempts and maps every step to
`AtLeastOnce`, a late commit to a `Happen` (`QueriesImplementAtLeastOnce`, `AttemptsAreBounded`); a
slot is taken only below the capacity (`SlotsAreBounded`).  `DoctorInv` ties the envelope to the
evidence it was graded by and the exit code to the envelope, whatever the query client does
meanwhile; hence `DoctorsAreRight`, for any catalog.

*RailProofs.*  `SchemaInv`: a step graded 0 is in place, an envelope of ok is a fold of grades 0
alone; hence `AppliedWhenOk`.  `StackInv`: after a refresh what is recorded is present, and
an attempt without an error has created all that is not recorded; every diagnostic in the sink is of the
running attempt and every one of that attempt is in the sink; hence `UpConverged` and `GradesAreOwn`.
`OnlyDownDeletes` is the positive half of finding 6: no `up` or `status` takes away what a volume holds.
Of the remote rail,
`LegInv` says what cannot have happened yet at each leg, `PushInv` that the receipt
counts exactly the arrived files of the directories whose unit has ended, `QuietInv` that
an untouched clean tree is the commit and what arrived is of it.  They give
`CommandsRunOnce` and, with the arithmetic of finite sets, `ReceiptsAreTrue`.

*ServiceProofs.*  A request whose reply is due has its receipt in the ledger, and only an admitted
event is appended, once by each thread (`EventsAreDelivered`, a refinement of `AtLeastOnce`); a row
the sweep holds is of a running job (`EndedJobsStayEnded`) that its second test has found silent
(`SweptJobsWereSilent`), although the heartbeat itself may go back; three merges of nested rows are
the choice of the strongest source, field by field (`ResolvedIsAsGiven`), and nothing is put or
resolved again once a configuration is admitted (`SettingsReachWhatIsGiven`); the tally counts its
domain (`QuestionsAndViewsAgree`, from finite `Concepts` and null values that are no domain or uri).

Only model-checked: every liveness property (`ImplementsStore` with its fairness, `ReceiptsClose`,
`LedgerEmpties`, `DrainsReturn`, `FiresSettle`, `OperationsEnd`, `RailsExit`, `SilentJobsSurface`),
since the prover has neither ENABLED nor fairness.  Of `DrainsReturn` its safety half is proved,
that no lane is stuck.  `RepliesAreDrained` is model-checked too; what is proved of it is
`DrainedUntilAFault`.  Every other property of the passing runs is a theorem, `FreshMeansCurrent`
under an assumption that the theorem names and a run shows to be needed.  `LaneTypes`,
`AttemptsAreBounded`, `SlotsAreBounded` and the other theorems without a run's property are
invariants of their own modules.

## Findings

Each names the line that is contradicted; the run is its counterexample.

1. `embed_overlap`: `updated_at` is the editing transaction's `now()`.  A drain between that
   BEGIN and the UPDATE makes the old vector look fresh for ever (`routines.sql` 45-48).
2. `embed_double_post`: the guard against double posting is a snapshot read, and there is
   no unique index behind it (`routines.sql` 83-97).
3. `embed_poison`: one response that is not JSON stops every drain until it is reaped,
   and another concept's good reply is reaped with its receipt still open (`routines.sql` 133-134, 144).
   The property speaks of good replies only: the malformed one is never counted.
4. `automation_shutdown`: a signal cuts an accepted fire without a ledger line
   (`ops-doctrine.md` 153, `automation.py` 402-407).
5. `cloud_restore`: the dump replayed is the first the directory yields, not the latest
   (`__main__.py` 172, `rails.py` 274-279).
6. `stack_down`: a down deletes the data volumes with the rest of the stack, although
   it is said to preserve them (`__main__.py` 94, `infra.py` 495).

Noticed beside them, without a run: after a signal `drive` has assigned no `outcome` and its `match`
raises `UnboundLocalError`, so that an orderly stop is reported as a fault (`automation.py` 438; the
model's exit "unbound").  Faulted and timed out runs append no ledger line, although
`admin/README.md` 50 speaks of a line per run. `GateReason.SATURATED` cannot occur in `drive`.
`docs/.api/rclone.md` calls exits 5 and 7 of rclone retriable; `_cloud_graded` makes every bad exit
terminal, as the model has it. `docker_host` drops the port, so the daemon's address and the ssh
target differ when `MAGHZ_REMOTE_PORT` is not 22, although the docstring says that they "can never
drift apart" (`settings.py` 428-435); host and user may come from different sources, since the merge
is by fields.  According to `db.py` 5 "a second `LanePolicy(capacity=8)` anywhere borrows the one
bound"; it does not, since the limiter is cached by key and deadline as well.  A tick dropped at a
full stream has no skip receipt, which `ops-doctrine.md` 138-139 asks for (`runtime.py` 565).  NEXT
counts a concept once for each of its citations (`rails.py` 383).  The receipt of `remote exec`
names HEAD and calls it the commit of the pushed working tree, which it is only when the tree is
clean (`remote.py` 403-413; `ReceiptIsTrue` says so by `quiet`), and files that left the manifest
stay in the workroot.

## Not modelled

*Ranking*: the search functions, the text search dictionaries and the similarity views are
pure queries over texts and vectors; nothing in them changes state.  *Generation*:
`profile regenerate` rewrites three committed files from constants, and an operator runs it
by hand.  *Parsing of the command line* is cyclopts.  The trees `docs/`, `docs/.api` and the
standards are text.  Inside the parts that are modelled: the content of texts,
vectors, dumps and messages; log output, statistics and telemetry; the environment
handed to tools; the attributes of Pulumi's resources; real durations (only the order of
horizons counts); bisync's conflict renaming (two users adding the same name at two
sites); thread switches inside `asyncio` and anyio (a tick put into the stream from a
foreign thread is one step); the cards that Heptabase keeps.

## Plan

What would add most next, in this order.

1. A run of the pipeline in which one concept always fails, for the starvation behind the
   batch (`routines.sql` 101): it needs a fault that is not used up.
2. The front of `SchemaRail`, the fan-out of `CloudSync` and the push of `RemoteRail` shown to
   implement `AtLeastOnce` too, as `LaneDrain` does, so that the four lanes rest on one promise.
3. `CloudSync` with conflicting edits at two sites, and what `--resync` keeps of them.
4. The type correctness of `SchemaRail`, `StackRail`, `RemoteRail`, `DataRails` and `LedgerQuestions` as
   theorems of their own; so far their proofs carry the types they need.
5. The dictionaries and functions that `schema apply` replaces while the jobs of the
   pipeline run on them: `SchemaRail` composed with `EmbedPipeline`.
