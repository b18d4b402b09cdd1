# AlphaMill in TLA+

AlphaMill is a research and trading platform on one host with one 8 GB GPU. By
day a resident service (Kronos) infers trading signals on that GPU; by night
mining runs train factor generators on it; their candidates are evaluated in
cohorts, and a data lake feeds everything. This directory specifies the parts of
it whose correctness depends on the order in which threads, processes, requests
and crashes meet. Every definition is taken from the source; `PROJECT.json`
gives its file and lines. Paths below are relative to `src/src/alphamill/` unless
they start with `docs/` (which is `src/docs/`).

Run a check with `tlc -config KronosLifecycle.cfg MCKronosLifecycle` and a proof
with `tlapm KronosLifecycleProofs.tla`.

## 1. Inventory

### Kronos service (`kronos_service/`)
- **LifecycleController** (`lifecycle.py`, routes in `lifecycle_api.py`).
  State: `_desired`, `_operation`, `_timed_out`, the work queue and single worker
  of an executor, a log line per landed action. Operations: `stop`, `restore`,
  `status`, `allow_load`. A control call is admitted under `_meta_lock`, submits
  the body to the worker and waits with a deadline; after `E_TIMEOUT` the body
  goes on and lands late.
- **KronosRealSignal** (`kronos_real.py`). State: the predictor (loaded or not)
  under `_lock`. Operations: `generate_signal` (loads lazily), `unload`,
  `eager_load`.
- Hard: two callers, the worker and any number of inference threads share two
  locks; deadlines fire while actions land; loads and unloads fail half way.
- Correct when: one action at a time; every failure lands where the design's
  table says; a stop lands under endless traffic; a late landing is logged;
  stopped means unloaded.

### GPU slot (`factor_factory/generators/gpu_slot.py`)
- State: the append-only file `gpu.queue`, the `flock` on `gpu.slot`, the
  descriptor a process holds. Operations: `acquire` (enqueue, loop: cancelled?
  window open and head? try the lock, probe the VRAM, back off, time out) and
  `release`.
- Hard: the head is computed without the slot's lock; back-off takes three
  steps; a process may be killed anywhere and its record stays.
- Correct when: one holder; first come first served; the file is true; nobody
  waits for ever.

### Mining run (`factor_factory/cli.py`, `mine_config.py`, `generators/kronos_offload.py`)
- State: whether this run owes Kronos a restore, where it is between offload,
  queue, training and its `finally` block. It talks HTTP to the service and
  shares the slot's files with other runs.
- Hard: answers are lost, broken off or late; the other run has stopped or
  restored the service meanwhile; the order of release and restore.
- Correct when: runs never train together; a stop that left is followed by a
  restore; the model is not beside a training; the morning finds Kronos serving.

### Canonical evaluation (`evaluation/`, `experiment_store/`)
- **Claim** (`evaluation/claim.py`): a file per experiment, created exclusively
  under a lock file, with a lease. Operations: `recover`, `release`.
- **Execution, publication, registration** (`canonical.py`,
  `canonical_execute.py`, `publisher.py`, `canonical_registration.py`,
  `rejection.py`, `events.py`): artifacts appear by rename, a member's
  registration is a file named by an event id.
- **Cohort** (`experiment_store/population.py`, `canonical_ops.py`): frozen
  commitments, registrations, `abandon`, `finalize_cohort`, the write-back.
- Hard: runners of one experiment race and crash; a member may be registered by
  several paths; finalizing is repeated after a crash.
- Correct when: one writer; no stolen claim; registrations of a candidate agree;
  the verdict covers the whole population and finalizing again repairs.

### Data bridge (`data_bridge/`)
- An export (`exporter.py`) chooses a baseline, takes a snapshot of the source,
  writes each changed cell to staging and renames it into the lake
  (`partitions.py`), reads its files back (`reconcile.py`), guards against
  shrinking (`export_policy.py`) and publishes a manifest by hard link
  (`manifest.py`); a full export then collects what no manifest names, an
  incremental one inherits from its baseline. State: partition files, staging
  files, manifests.
- Hard: nothing keeps two exports apart; a process dies between any two steps;
  files are damaged or lost later; a manifest is half written where there are no
  hard links.
- Correct when: a published version never changes and keeps its files; what it
  serves is what the source held; an incremental export loses nothing; readers
  get the newest export.

### Universe and collectors (`data_bridge/universe/`, `data_bridge/collector/`)
- **Backfill** (`scripts/f008-backfill-chunks.sh`, `backfill_runner.py`,
  `backfill_orchestrator.py`, `historical_backfill.py`, `backfill_progress.py`).
  State: the rows, a resume cursor per pair, a run record, events, the script's
  counters. Operations: a chunk of pairs with a time slice, and the fetch loop.
- **Gate** (`quality_gate.py`, `admission.py`, `membership.py`, `artifact.py`,
  `verdicts.py`). State: the ledger of members with its triggers, published
  artifacts, the last verdict of each pair, events. Operations: judge, append,
  publish, record.
- Hard: rows and cursor are committed by different calls; chunks are killed and
  resumed; the exchange repeats old bars; gates overlap with each other and with
  the backfill and die half way; a judgement is recorded much later.
- Correct when: no bar is skipped; what is reported is so; what the export admits
  is backed by ledger, artifact, cursor and rows; the script comes to an end.

### The rest
Mining engine (training, expression compiler, guards), factor registry and run
store, evaluation statistics, risk guards, signal fusion and strategies,
validation scripts, database schema, deployment, vendored code. They are
sequential, numeric or declarative; `PROJECT.json` lists each with the reason it
is not modelled.

### How they interact
Mining runs call the service over HTTP (status, stop, restore) and each other
only through the slot's files. The trading bot calls `/predict`. Evaluation
runners meet through claim files, artifact directories and the cohort's event
directory. Exporters and readers meet through manifests. The backfill and the
gates meet in the database: rows, cursors, ledger; the export reads the gates'
verdicts.

## 2. Modules

| Module | What it is |
|---|---|
| `KronosLifecycle` | the control plane with its caller threads, executor and worker, and the inference threads: every lock section is one action |
| `LifecycleContract` | what the control plane promises its clients: no threads, no locks |
| `SlotContract` | what the GPU slot promises the mining runs: a line and one user |
| `ClaimContract` | what the claims promise who writes experiments: one client at a time, no take-over from one that works |
| `GpuSlot` | the queue file, the flock and the processes in `acquire` and `release` |
| `NightSlot` | mining runs, composed of `GpuSlot` and `LifecycleContract` (INSTANCE), with the requests between them |
| `Claim` | the claim file, its lock and lease, and the runners of one experiment |
| `Cohort` | runs, abandons and finalizes of one cohort: publication, registrations, verdict, the registry's evaluation face |
| `Lake` | exporters of datasets, what they leave on disk, and what a reader of the newest version meets |
| `Backfill` | the chunk script, the runner of a chunk, the fetch loop of a pair, the resume cursor |
| `Universe` | extends `Backfill` by the gates: ledger, artifact, verdicts, events |
| `*Proofs` | the theorems about each, for all values of the constants; `ContractProofs` about the three contracts |
| `MC*` | what TLC needs besides the module: symmetry, and why the bounds are enough |

### KronosLifecycle
A control call `c` is a thread of `_run_action`; its name is also its operation
id. `Refuse` and `Accept` are the critical section of `_meta_lock`; `Submit` is
`executor.submit` after the VRAM probe; `Expire` and `RegisterTimeout` are the
deadline and the critical section that registers it: two steps, because the
action may land in between. `WorkerStart` takes any queued call. `WorkerUnload`,
`WorkerLoad` are the bodies under the model lock and `WorkerRevert` the separate
`_meta_lock` section in which a failing body puts `desired` back; `WorkerFinally`
clears the operation and tests `_timed_out`; `WorkerReturn` resolves the future.
`Admit`, `Infer`, `LoadFails`, `InferDone` are `generate_signal`: `allow_load` is
read *before* the model lock, as in the code. A loaded model is a Boolean;
numbers, devices and log wording are left out.

### LifecycleContract and the refinement
`KronosLifecycle` implements it under a mapping in which a call is admitted when
it was accepted, and an outcome is landing from the worker's `finally` until the
future resolves. The contract deliberately lets a model be loaded at any time,
since the code does (see `KronosStopped`).

### The other two contracts
`SlotContract` has a set of waiting runs, the relation "came before" between them
and the set of users: `GpuSlot` implements it with the pairs ordered by the
numbers of their latest records, and so does a night, since its steps are steps
of the slot or none. `ClaimContract` has the holder of each experiment and the
clients at work and over: `Claim` implements it for its one experiment, and
`Cohort` for all candidates at once, which is what its abstraction of the claim
file has to answer for. Neither promises that somebody gets on: a killed run
keeps its place, a dead client its claim.

### GpuSlot
The file is read in two ways only: the number of its last record and the latest
record of each run, so the model keeps `tailSeq` and `latest`. Appending is one
exclusive section in the code and one action here. `SeeHead` and `TryFlock` are
two steps; a short probe goes through `ProbeShort`, `BackOff`, `Rejoin` as in the
code. `Kill` drops the flock and leaves the file.

### NightSlot
A run walks through `_generate`: status, stop, confirmation, budget, VRAM check,
queue, training, release, unlock, restore. `posted` are the requests that left a
run; the service may receive one late or never. `heard` are answers that
reached their run. `duty` is `restore_required`. Two switches name assumptions
of the composition: `LateInference` lets an inference admitted before a stop load
the model after it, and `BrokenAnswers` lets an answer break off inside its body.
The confirming status shares the `try` of the stop (`kronos_offload.py:133`), so a
broken answer to either takes the duty with it.
The card holds the model or one training.

### Claim
A runner is one call of `run_canonical` in its own process; a retry is another
runner. `Enter`/`EnterBusy` are the non-blocking lock of `_critical`; judging,
creating and writing the claim are separate steps inside it, at each of which
the process may die; `WriteFails` is a full disk. `is_process_alive` may take a
dead owner for alive when its process id was reused, so `JudgeBusy` may refuse
any named claim. `ReleaseBusy` is the suppressed `ClaimBusyError`.

### Cohort
A job is one `canonical`, `abandon` or `finalize-cohort` command in its own
process; `Crash` may end it at any step, and what it wrote stays. Of the claim
the module uses what `ClaimContract` promises: `TakeClaim` finds nobody or an
owner that has ended. `Look` reads `is_published` before the claim, and nothing reads it again,
so that `PublishConflict` is reached; `Register` is a step after `Publish`, so
that `Reuse` may come in between. What an evaluation comes to is settled at
`CohortInit`, since it is a function of the experiment's identity. A publication
is two steps: `WriteDraft` fills the temporary directory (`drafts`), `Publish`
renames it; a killed run leaves it. `abandon` looks for a manifest anywhere under
`bench` (`canonical_ops.py:63`) and so finds such a directory too: `found` names
it, and the registration points into it. `publisher.py:12` says that a consumer
acknowledges complete, registered directories only; `EvidenceFirst` therefore
excepts an abandon of an unpublished batch by name, and nothing else. A
registration is its candidate, the path that wrote it (`Kinds`) and that
directory, if any: the paths differ in the event id and in fields, and two of one
candidate make `registrations` raise (`Readable`). `StartFinalize` is the
computation up to the call of `population.finalize_cohort`; `NoVerdict` and
`ReplaceVerdict` are its test for a verdict on file and its `os.replace`, two steps
without a lock; `ReadFace` and `AppendRow` are the write-back, row by row. The face
is a set: a row that two overlapping finalizes append twice is there once.

A verdict on file is compared *whole* with the one a later finalize comes to
(`population.py:227-235`), so a verdict is what the document says of each member.
For a member that its own evaluation rejected this is settled. Of the others the
document holds the dedup: a correlation, the factor it is with, what follows from
it, computed over every row another cohort has left and whose evidence can be read
(`dedup.py:121-151`). These are `Payloads`, without structure: `nearest` is what the
dedup of a candidate comes to at the moment, and `DedupChanges` gives it another
value while jobs run, as a new row of another cohort does, however little it
correlates, or the loss of one. A member whose evidence cannot be read is `"unread"`:
that of an abandon which points into a temporary directory, since the directory may
be incomplete, renamed or removed. A payload may be one that rejects; in the document
such a duplicate has the promotion verdict `rejected` too and is counted as such,
here its payload tells it apart from one that was `"rejected"` by its evaluation.
Not told apart: that a member that cannot be read is missing from the comparisons of
those behind it, and that a temporary directory's name may come back with a process
number.

### Lake
An exporter walks through `_export_one`: `Begin` is `usable_baseline`,
`TakeSnapshot` the REPEATABLE READ transaction with window and next version,
`Stage`, `Hash`, `Land` are `write_partition` cut at the two places where another
exporter's files matter, `Finish` is what follows the last cell up to the
manifest in hand, `PublishLink` or `PublishCreate` and `PublishFill` are the two
ways of `publish_manifest`, `Tidy`, `Collect`, `Sweep` what comes after it.
`MayStepOver` is the rule by which a baseline is found, `IsNextVersion` the one
for the version. A cell's rows are one value; a row digest tells the rows of the
snapshot, a sha256 the bytes of the file, and `Garbled` bytes are the difference.
The source and the date change only when a snapshot is about to be taken, since
nothing else reads them; `LoseFile` damages a file at any time.

The code has no lock around an export, and the design (`docs/` F011
`design.md:146`) calls it a single-process batch. The model lets exports overlap
all the same. `alone` says that an export had the lake to itself, and the
properties say of such exports what the code can promise, *through* whatever
overlaps before and after. What the model reaches with overlapping exports and no
property forbids: an incremental export publishes a newer version without what
one that overtook it added (`exporter.py:165`, `:221`); two exports number a
revision from the same files and share a staging name, so that one replaces bytes
the other has hashed (`partitions.py:178-186`); the cleanup of a full export
deletes partitions another has not published yet (`partitions.py:337`). Two more
states it reaches alone: a full export whose content equals that of an older
baseline changes nothing, and the damaged newest version stays, although
`manifest.py:41` advises `--mode full`; and a manifest left half written makes
every later cleanup raise after its export has published (`manifest.py:306`,
`partitions.py:330`).

### Backfill and Universe
`StartChunk` is one call of the runner, with the run record resumed when the
script knows its id; a pair is skipped, deferred, unavailable or entered, and
then fetches in a loop of three steps that may be cut: the answer (`FetchGets`),
`Upsert` with its commit, and `Advance`, the cursor with its own commit. A statement that fails is `DbError` or, before
the pair is under way, `EnterFails`. `Report`
and `Tell` are the two steps of `on_outcome`. `Abort` kills a chunk anywhere,
`Close` ends it, `Count` is the script's arithmetic with the record. The rate
limiter either answers or fails the pair.

A gate refreshes the aggregates, judges all pairs (`Ruling`), then takes them one
by one: `ReadLedger`, `Append` under the triggers, `Commit`, `Announce`, `Publish`,
`Record`, `TellVerdict`. Gates overlap, and the backfill goes on beside them. A
seeded pair makes `AppendRefused` happen: a gate ends at such a pair, and the
pairs behind it wait for another way.

## 3. Runs

| Run | Instance | Shows |
|---|---|---|
| `KronosLifecycle` | 2 calls, 2 inferences | one action at a time, an idle service serves, a stop lands under endless traffic, a late one is logged, and the contract with its failure landings is implemented |
| `KronosStopped` | 2 calls, 1 inference | **violated**: a stopped service can hold the model |
| `GpuSlot` | 3 runs, probes rejoin up to record 4 | one holder, first come first served, truth of the file, nobody hangs, `SlotContract` is implemented |
| `NightSlot` | 2 runs | no two trainings, a restore follows every stop, what may share the card, the morning |
| `NightContention` | 2 runs | **violated**: training beside the restored model |
| `NightLateStop` | 1 run | **violated**: a late stop is not caught by the restore |
| `NightBrokenAnswer` | 1 run, broken answers | **violated**: a stop without restore |
| `Claim` | 3 runners | one writer, no theft, half-written claims are reclaimed, `ClaimContract` is implemented |
| `Cohort` | 2 candidates, 4 jobs, 2 payloads, 1 change of a dedup | evidence first, one registration of a complete member, a verdict on everybody, finalizing that can be repeated while nothing has moved, the face is the verdict |
| `Lake` | 2 exporters, 1 dataset, 1 pair, 2 days, 3 exports, 3 events | versions never change and keep their files, serve what the source held, lose nothing and are read next |
| `Universe` | 2 pairs, 3 minutes, 3 chunks, 2 gates, 1 fault | cursors never pass rows, reports are true, what is exported is backed, the script ends |
| `CohortAbandon` | 2 candidates, 2 jobs, as above | **violated**: abandoning a registered member makes the cohort unreadable |

The five violated runs each check one statement the repository makes:

1. `StoppedIsUnloaded` (`kronos_service/lifecycle.py:8`). An inference passes
   `allow_load`, waits for the model lock behind a stop's unload, and loads the
   model again; with nothing under way the service is stopped and loaded.
2. `TrainingHasTheCard` (`docs/alphamill-architecture.md:586`). The run that
   stopped Kronos releases the slot before it restores; another run, which found
   it stopped, trains while the model comes back.
3. `LateStopIsCaught` (`docs/alphamill-architecture.md:664`). The one restore is
   refused with `E_BUSY` while the timed-out stop is still under way; the stop
   lands and nobody restores.
4. `StopOwesRestore` with broken answers (`generators/kronos_offload.py:24`).
   `IncompleteRead` is no `OSError`; the outcome that holds the duty is lost, with
   the answer to the stop or with that to the status behind it.
5. `AbandonUnblocks` (`evaluation/canonical_ops.py:3-7`). A run registers its
   INCOMPLETE member; `abandon` accepts that member and registers it again, with
   other fields; from then on `registrations` raises.

What holds all the same is stated beside them: `OnlyARestoreIntrudes` says that
only another run's restore can put the model beside a training,
`RestoredInTheMorning` that a night whose requests were all answered, its
restores with success, ends with Kronos serving, and that a stop is followed by a
restore is `StopOwesRestore`: both when answers are whole or absent. With a broken
answer neither holds.

### Bounds
Two control calls suffice for one to race with the other's admission, deadline
and landing; two inferences for one to hold the model lock and one to wait.
Three runs are a holder, a head and one behind it; `MaxRecords` only stops
`ProbeShort` from sending a run back to the tail for ever, and leaves room for at
least one back-off while others wait. Two mining runs are one that stops and one
that finds it stopped; `MaxRecords = 2` there lets the first back off before the
second has queued. With three runners one has died with its claim, one is inside,
one tries. Every call, request and run is made once: a repetition is another call.

In `Cohort` four jobs are the two runs that complete the population and two
finalizes, one of which dies or overlaps with the other; or two runs of one
candidate, of which one reuses, and more. Two candidates are the least for one to
be missing while the other is registered. Two payloads and one change are what makes
two finalizes differ; the values of different candidates are never compared, so
`MCCohortInit` lets all begin with the same one. About 830 000 states.
`FinalizeIsRepeatable` asks for two things (`Settled`): that no dedup has changed, and
that all evidence stands in published batches. Without the first TLC violates it in
this instance. Without the second it is violated by one candidate with four jobs (a
run, an abandon that points into its temporary directory, a finalize before the
rename and one after)
but not here, where a second candidate needs a job; the property itself was also
checked there (one candidate, four jobs, 2.4 million states) and holds, and the
theorem is for any number of both.

In `Lake` two exporters are one that works and one that overlaps, with one to
follow; two days are one below the window and one in it; revisions are bounded by
the files two exports of one cell can leave. `MaxEvents` counts what the
environment does: three allow a damaged file, an overlap and a crash in one
behaviour. The run has 1.5 million states. More datasets only add files that
exports do not share.

In `Universe` one pair has a gap the gate accepts, or misses its last or its first
bar, and one is unavailable. One request returns one bar, so that a pair takes
several pages; three chunks are one that is killed, one that resumes and one that
stalls; two gates overlap; one fault is a kill, a failing statement or a time
slice that ends. About 690 000 states.

Deadlock is not checked: all of these systems may come to rest when their calls
are answered, their runs over, their processes dead.

### Fairness
- `KronosLifecycle`: threads that hold work run on (weak fairness of submitting,
  of the worker, and of an admitted inference). Nobody has to call, to be
  admitted or to time out, and neither lock promises an order: `StopCompletes`
  rests on `desired` turning new requests away, not on a fair lock.
- `GpuSlot`: a live process keeps looping and a holder ends its run. The timeout
  is a test every round makes against a clock that only grows, so a process that
  passes there for ever takes it: strong fairness of `TimeOut` alone. A killed
  process gets none; its record at the head blocks the others until they time
  out, which is what `NobodyHangs` allows.
- `Claim`: a live process inside the critical section goes on.
- `Universe`: the script and the runner it waits for go on while they live; a
  chunk that is killed returns to the script. Nothing is assumed of the clock, of
  the gates or of the exchange, which may answer with old bars for ever:
  `ScriptEnds` rests on the cursor's refusal to stand still
  (`historical_backfill.py:205`) and on the script's two limits.
- `NightSlot`, `Cohort`, `Lake`: none; their properties are safety.

## 4. Proofs

All theorems hold for every set of calls, runs, runners and every value of the
bounds, from the named assumption of the module (the markers such as `NoOne` are
not members of the sets; the switches are Booleans).

- `KronosLifecycleProofs`. The safety invariants are not inductive: that an
  action is in one place only (`OneOwner`), that `desired` is the target of the
  action under way until its `finally` (`HoldsTarget`), and what a failing worker
  knows before it puts `desired` back (`RevertGround`) are added. From it follow
  `TypeOK`, `SingleFlight`, `ServingWhenIdle`, `FailureLanding`; with
  `AnsweredOnce` (what a caller was told, by where it stands) it carries
  `Refinement`, the proof that every step is a step or a stutter of the contract.
  Two theorems are what `StopCompletes` rests on, short of fairness. `NeverStuck`:
  at every moment of an action the thread that has to go on can, since the lock
  is never left behind (`LockInv`). `StopComesCloser`, for finitely many
  inferences: the stage of the stop, the worker's return and the two numbers of
  inferences that wait for the lock or hold it fall in lexicographic order with
  every step of those that work on it, and no other step raises them.
  `LogTellsLateness`: what the timed-out set knows (`LateInv`) makes the log line
  say `late_complete` exactly when the caller had been told `E_TIMEOUT`, which is
  what `LateStopIsLogged` rests on besides the stop's landing.
- `GpuSlotProofs`. `SeqOrder` (distinct numbers, none above the tail) is what
  makes another process's append land behind the head, so the unlocked head
  check stays true; `AppendKeepsHeads` is that lemma. Types, `OneHolder`,
  `HeadStaysHead`, `QueueFileIsTruthful` and `FirstComeFirstServed` follow, and
  `SlotRefinement`: a grant takes the run that is before all others because of
  `HeadStaysHead`, an append joins behind all because of `SeqOrder`.
- `NightSlotProofs`. Each step of a night is a step of the slot or leaves it
  alone, so the slot's invariant is carried over by citing its lemmas under the
  instance; `InStep` ties the two program counters together. `OneTraining`
  follows; `StopOwesRestore` is proved under the assumption that answers do not
  break off, with `Owed` as its invariant. `MorningInv` is about answers: a run's
  restore is admitted only after the stop it heard of is over (`StopsFirst`), so
  that whenever the model is missing some stop has no restore behind it or some
  restore has not succeeded (`Blamed`); a night in which all succeeded has
  neither, which is `RestoredInTheMorning`. That every admitted stop has a restore
  behind it is `StopOwesRestore`, so this theorem too is under the assumption that
  answers do not break off; `MorningInv` is not. `Stilled`: a service seen stopped stays
  so until a restore is admitted; the run that trains has not sent its own, so
  `OnlyARestoreIntrudes` follows. `NightImplementsSlot` states the carrying over as
  a refinement, from which `NightKeepsTheQueue` needs one line, and
  `NightImplementsKronos` says that the runs drive the control plane within
  `LifecycleContract`.
- `ClaimProofs`. The lock's owner is the runner inside it (`InsideOwnsMutex`), a
  holder is the one the file names (`HolderIsNamed`), and who creates saw an
  empty place (`CreatorSees`). Types, `OneWriter` and `NoTheft` follow.
  `ClaimRefinement`: whatever the lock file, leases and deaths do, a claim passes on
  only when its holder gave it back or has ended.
- `CohortProofs`. Three invariants, one on top of the other: the types; `RunInv`,
  what each place in a run has left on file and which path writes for which
  outcome (`KindFits`; only an abandon points outside the published batches), from
  which follow `EvidenceFirst`, `DoneMeansRegistered` and `ReadyMembersAgree`;
  `FinalInv`, that every verdict, judged or on file, is sound (`SoundVerdict`): it
  covers everybody, agrees with the evaluations, and while nothing has moved
  (`Settled`) says what the dedups say now; and that every row comes from a
  judged verdict. Registrations only grow and what has moved once stays moved
  (`Onward`), so a sound verdict stays sound (`SoundStays`), and two sound ones are
  equal as long as nothing has moved (`SoundVerdictsAgree`): that is why finalizing
  again, and two finalizes at a time, do no harm till then. `VerdictIsPopulation`,
  `FinalizeIsRepeatable` and `FaceIsVerdict` follow, and `VerdictIsFinal`: a verdict
  on file is never withdrawn, its replacement keeps the same candidates out for their
  evaluation, and it is the same while nothing has moved. `ClaimKept` (a job
  at work is the one its candidate's claim names) carries `CohortKeepsClaims` and
  `OneEvaluation`.
- `LakeProofs`. `LakeInv` has five parts on top of the types. `JobInv`: what an
  exporter has in hand at each place. `SoloInv`: an exporter that is alone is the
  only one at work (`Solitude`), the files it has landed are those it hashed
  (`HandsInv`), the place it is about to write is free (`SpotIsFree`), and a sweep
  under way spares what any version names that was exported alone
  (`SweepSpares`); without them `SoloVersionsStayIntact` is not inductive.
  `VersionInv`: one manifest to a version, and the half-written one belongs to the
  exporter filling it, from which `PublishedNeverChanges` follows. `ServedInv`:
  a clean version, a clean baseline and a clean draft hold what their digests were
  taken of. `NewestInv`: there is no version of a day to come, an exporter that is
  alone has above it no version it did not see, and its baseline is still the
  newest it may use: `IncrementalLosesNothing` and `SoloExportIsReadNext` follow.
- `UniverseProofs`. The cursor in hand, the saved one and those in events have
  their bars in the table, whatever place the runner is at; the ledger only grows,
  and what a gate has pending, published or recorded is measured against it; what
  a gate has ruled stays true since rows and completed cursors do not go back.
  `CursorNeverPassesRows`, `ReportsAreTrue` and `ExportedPairsAreBacked` follow.
  `WorkIsKept`: rows, ledger, artifacts and events only grow, a saved cursor and a
  settled pair stay. `PageHasALastBar` is why the fetch loop may take the last bar
  of a page. `ScriptComesCloser` is what `ScriptEnds` rests on, short of fairness:
  six natural numbers (`Distance`: chunks to start, the phase of this one, pairs
  to take, the stage of the pair in hand, minutes left to it, the step of its page)
  fall in lexicographic order with every step of the script and its runner.
- `ContractProofs`. What the contracts say by themselves, so that it holds of all
  that implement them: a worker has its claim (`WorkersHold`), the slot is one
  line with one user (`OneUser`, `FirstComeFirst`), an action's outcome is told
  once (`OutcomeOnce`).

The refinements that a run checks as well are the three `ImplementsContract`. No
run states those of `NightSlot` and `Cohort`, nor `FailureLanding` (the contract's
`MayLand` says the same of a landing action), `HeadStaysHead` (it is part of
what `SlotContract` asks of a grant), `NeverStuck`, `StopComesCloser`,
`LogTellsLateness`, `OneEvaluation`, `VerdictIsFinal`, `WorkIsKept`,
`ScriptComesCloser`, `PageHasALastBar` and the contracts' own: for them the
theorem is the evidence.

Only model-checked: liveness (`StopCompletes`, `LateStopIsLogged`, `NobodyHangs`,
`HalfWrittenIsReclaimed`, `ScriptEnds`), which the prover does not reach. For
`StopCompletes` and `ScriptEnds` the variant is proved, and what is left to TLC is
that fairness and enabledness make somebody take the steps that lower it.

## 5. What is not modelled

In the modelled parts: the service's token and version checks (they answer
before any state is touched), the numbers of signals, VRAM readings beyond
"enough or not", quotas and records of a run, failures of `writer.close` and
`slot.release` in the `finally` block, the content of a claim. The leak of an id
in `_timed_out` (`lifecycle.py:207` asks whether *some* operation is under way)
is in the model, but no reader of the set ever meets the id again. The parts left
out altogether are listed in `PROJECT.json`.

In `Lake`: the admission filter and its manifest fields, as-of reads, the contents
of symbol map and quality flags (whether they changed is a choice), the SQL and
the Parquet encoding. In `Backfill` and `Universe`: how a universe is discovered
and seeded, the capacity check, the number and spacing of the limiter's retries,
the bars' values. Left out altogether because they are sequential and numeric or
declarative: the trading strategies and their guards, the validation scripts, the
statistics of an evaluation, the mining engine with its run record.

In `Cohort`: several experiments of one candidate (reading a cohort refuses them
on purpose), an abandon that names a candidate its experiment does not belong to,
the event log of a batch (an abandon that appends to the temporary one of a living
run makes its validation fail, which is `EvaluateFails`), damage to a published batch
(it would change the verdict as `DedupChanges` does), a manifest cut short in a
leftover directory (every abandon then raises, `canonical_ops.py:64`), a row cut
short by a crash, and a publication that finds the same bytes already there
(`publisher.py:170-174`): the bytes hold the time of the run, which no command
hands over. Two more states the model
reaches that no document excludes by a line of its own: a *rejected* batch whose
registration is under way is registered by a reuse with another event and without
its reason, which makes the cohort unreadable like an abandon does
(`ReadyMembersAgree` therefore speaks of complete evidence); and two overlapping finalizes whose dedups differ replace
one another's verdict (`FaceIsVerdict` names that case). The design gives
finalize a claim of its own (F007 `design.md:297-298`); the code has none.

The same lines promise that a cohort can be finalized again under its id after a
failure. The code keeps that promise while nothing has moved, and that is what
`FinalizeIsRepeatable` says. Once it has, it does not: when a finalize dies between
its verdict and the write-back and another cohort then writes back a row that changes
the highest correlation of one member, even from none to 0.3, or the evidence of an
abandoned member is lost, every later finalize meets a verdict that differs from its
own and raises (`population.py:272-276`), and the rows of the cohort are never
written. The model reaches that state (`OtherVerdict`); `Settled` is there to name it.

## 6. Plan

Done: `KronosLifecycle` with `LifecycleContract`, `GpuSlot` with `SlotContract`,
`NightSlot`, `Claim` with `ClaimContract`, `Cohort`, `Lake`, `Backfill` with
`Universe`, and the proofs of each.

Next:
1. `GpuSlot` and `NightSlot`: a failing append in `release` and what the `finally`
   block then skips.
2. `Cohort`: a row of the face that a crash cuts short, and several experiments of
   one candidate.
3. The mining run's record and event log (`registry/run_store.py`), whose two
   writes a crash may part.
4. `Lake`: the log of versions as a contract, and what it promises of exports that
   overlap.
