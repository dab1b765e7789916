# TLA+ models of the project-governance runtime

Specifications, model-checking configurations and proofs for the parts of
project-governance (`src/src/project_governance_runtime/`) in which several
processes meet over files and locks. Paths below are relative to that package
unless they start with `src/docs`.

1. [Inventory](#1-inventory)
2. [What is modelled](#2-what-is-modelled)
3. [Runs](#3-runs)
4. [Fairness](#4-fairness)
5. [Proofs](#5-proofs)
6. [Disagreements between code and documentation](#6-disagreements-between-code-and-documentation)
7. [What is not modelled](#7-what-is-not-modelled)
8. [Plan](#8-plan)

## 1. Inventory

project-governance installs a validation runtime, hooks and skills into a
repository. There is no server: every operation is a short or detached process,
and what outlives a process is in files of the worktree, of the user's state
directory or of git. What can go wrong is therefore the order in which
processes read and write those files, and where one of them dies.

| component | state it keeps | operations | talks to | hard behaviour | what makes it correct |
|---|---|---|---|---|---|
| Job registry and supervision (`provider_agents/jobs.py`, `worker.py`, `guardian.py`, `launcher.py`, `storage.py`, `process_identity.py`) | one directory per job: `request`, `status`, `result`, `cancel`, `worker`, `guardian`, `provider` (.json); `registry.lock`, a `completion.lock` per job, an environment-use lock in inherited descriptors | start, acquire, status, cancel, recover, finish_cleanup, heartbeat | callers, detached workers, guardians and native programs, through files and signals | any process dies anywhere; only part of the writes are under the lock; what was read is used later | conflicting jobs never run together; terminal states stay; result and status agree; queues move; cancellation ends |
| Startup runtime updates (`startup.py`, `startup_transaction.py`, `startup_git.py`, `startup_state.py`, `runtime_access.py`) | runtime pointer, `runtime.lock.yaml`, branch, `transaction.json`, a receipt per task, `update.lock`, `runtime-use.lock` | native events (start, prompt, end), apply, recover, finish; ordinary commands | hooks and commands of several tasks, git, other writers | four files change one by one; locks are non-blocking; receipts are rewritten from old readings; git outlives its parent | nobody runs a half-activated runtime; HEAD, lock file and pointer agree when commands are admitted; a reserved runtime is not replaced; recovery converges |
| Test batches (`provider_agents/test_batches.py`) | `batch-progress.json`, `resource-cleanup.json`, batch part of `result.json` | execute cases, verify inputs, close a batch from the worker, the guardian or a poller | project runner, supervision, completion | receipts of earlier cases, inputs that change, a worker that dies between any two files | the batch ends only when clean; it attests only what was verified |
| Completion delivery (`provider_agents/completion.py`) | `notification.json`, `notification-cleanup.json`, `notification.lock` | deliver, attempt | worker, guardian and callers, the host's message command | an uncertain send; three possible senders | each notice at most once per request; the final one names the final result |
| Descendant tracking (`provider_agents/processes.py`) | the owned process group and its recorded descendants | collect, terminate_owned | worker, guardian, callers | children forked between collection and signal | terminate_owned is True only when nothing owned is left |
| Startup enabling, releases, installation (`startup_integration.py`, `startup_releases.py`, `startup_installation.py`) | `enable.json`, the runtime directory or pointer, generations, a cached discovery | enable, recover_enable, prepare, activate, discover | runtime updates, hooks, bootstrap | the live runtime directory is moved away and becomes a pointer; a release may be unreachable, incomplete or unauthorized | after every crash one command restores one usable runtime; nothing is adopted without authorization |
| Bootstrap launchers (`assets/tools/governance-bootstrap.py`, `governance-startup.py`) | installed copies | verify and start the runtime | enabling | run against whatever a crash left | never start an unverified runtime |
| Validation planning (`planning.py`, `execution_commands.py`, `checkers.py`, `configuration.py`) | none | select, replace, close over dependencies, order packs | execution | the rules interact | the plan holds every impacted pack or its replacement, and its dependencies, once, in order |
| Validation execution (`runner.py`, `execution_flow.py`, `processes.py`, `evidence_manifest.py`) | plan packet, evidence directories, active-run markers | run packs, verify packet, prune, publish evidence | child commands, concurrent runs, telemetry | packet or worktree changes under the run; pruning beside other runs; kills | no verdict on anything but the planned packet; passing needs proof from every planned pack; no run loses evidence |
| Change scope and subjects (`changed_paths.py`, `validation_subject.py`) | none | resolve base, changed paths, subject digest | git | the worktree moves between two queries | planned and executed subject agree |
| Telemetry (`telemetry.py`, `skill_telemetry.py`, `state_io.py`) | a bounded record file under a lock with a deadline | append, upsert, review, prune | validation execution, agents | eviction by count and bytes, unreadable files, killed runs | an upsert never duplicates nor evicts; eviction is oldest first; the summary agrees with what happened |
| Context delivery and materialization (`context.py`, `context_delivery.py`, `context_storage.py`, `context_options.py`) | session receipts with allowances, published packets | deliver, reserve, publish, prune, end session | scoring service, hooks | allowance reserved before egress; ties, byte budgets; sources edited while they are scored | allowances are never exceeded; a packet that passes is complete and of one version |
| Semantic selection (`semantic_context.py`, `jev.py`) | none | score, select | a remote service | the service fails, sources change meanwhile | an optional source is used only as the version that was scored |
| Skills (`skill_catalog.py`, `skill_selection.py`) | none | read manifests, select | context delivery | conditions, conflicts and budgets interact | every required skill is there, as published, and no two that exclude each other |
| Documentation module (`documentation.py`) | catalog, index, the module's section of the profile | docs init, docs route, checker, selection paths | validation planning | two inits and people in one tree; four readers of one catalog | init overwrites nobody and enables last; what can be routed to is watched |
| Installation and host integration (`installation.py`, `harness_integration.py`, `structured_documents.py`, `format_preservation.py`, `cli.py`, `runtime_entry.py`) | project files | one-shot writers | enabling, hooks | a crash between two writes | what was not managed is preserved |
| KMP surface validation (`kmp_surface_*.py`) | none | compose, audit, doctor | planning | inheritance of shared and projected parts | a target that passes has every obligation met by a part of its own |
| Checker scripts (`checker_scripts/`) | the registry of maintainability decisions | text analysis, transitions of decisions | validation execution | decisions pass through many commits, moves and expiries | a decision that stands is not lost |
| Repository scripts (`src/scripts`, `src/tools`) | pull requests and releases of this repository | maintenance | GitHub | none at run time | - |
| Provider streams (`provider_agents/protocol.py`, `stream.py`, `codex.py`, `claude.py`, `gemini.py`) | cursors into a program's output | parse frames | worker | partial frames | the worker learns how the stream ended |
| Agent command line (`provider_agents/cli.py`, `entry.py`, `runtime.py`, `config.py`) | none | parse, validate | registry | none | - |

## 2. What is modelled

| module | lines of the system | role |
|---|---|---|
| `WorkspaceClaims` | the conflict rules of `jobs.py` and `worker.py` (modes, overlapping roots, sessions, ancestors) | operators over requests |
| `ClaimLedger` | what the registry promises: ask, grant, release | abstract specification |
| `AgentJobs` | `jobs.py`, `worker.py`, `guardian.py`, `launcher.py` | detailed specification, extends `WorkspaceClaims`, implements `ClaimLedger` |
| `RuntimeGate` | what an update promises its readers: one version, or closed | abstract specification |
| `RuntimeUpdates` | `startup.py`, `startup_transaction.py`, `startup_git.py`, `runtime_access.py` | detailed specification, implements `RuntimeGate` |
| `TestBatches` | `test_batches.py`, `completion.py`, the batch parts of `worker.py`, `guardian.py`, `jobs.py` | detailed specification |
| `ChangeScope` | `changed_paths.py`, the scope a checker asks of a packet | files being edited, and operators over them |
| `PackPlanning` | `configuration.py` (packs), `planning.py` | operators over packs |
| `PackExecution` | `cli.py` (check), `runner.py`, `execution_flow.py`, `processes.py`, `evidence_manifest.py` | several runs; extends the two above |
| `TelemetryLog` | `telemetry.py`, `skill_telemetry.py`, `state_io.py` | the file, its writers, and its summary |
| `ContextDelivery` | `context_delivery.py`, the steps of `context.py`, `semantic_context.py`, `jev.py`, `context_storage.py` | hooks of several sessions |
| `ContextRouting` | `context.py` (resolve_context), `skill_selection.py`, `skill_catalog.py` | operators over a task and a catalog |
| `SurfaceAudit` | `kmp_surface_validation.py`, `_composition.py`, `_authorities.py`, `_doctor.py` | operators over a graph |
| `RuntimeEnable` | `startup_integration.py`, `startup_installation.py`, `installation.py`, `governance-bootstrap.py` | operators of one repository beside its users |
| `ReleaseDiscovery` | `startup_releases.py` | operators over a listing |
| `DocumentationCorpus` | `documentation.py` | docs init beside people, and the readers of the catalog |
| `DispositionRegistry` | `maintainability_dispositions.py`, `maintainability_source_units.py`, `check-code-smells.py` | commits and days |
| `*_proofs` | | theorems about the module of that name; `Checkout_proofs` holds those about the modules of one checkout that have none of their own |
| `MC*` | | small instances; `MCCheckout` puts the modules of one checkout side by side, with the inputs of `MCInputs` and `MCPackExecution` |

In every module an action is the stretch of a function between two points at
which another process can see or change something it uses: a lock taken, a file
read that is used later, a file written, a process started or signalled. A
process's local variables that survive such a point are variables of the
module, so that a value can be stale when it is used. Definitions commented as
faulty, each right before the definition it varies, state plausible mistakes; no
action uses them. They document what each property is able to detect.

Algorithms that keep no state (planning, routing, audit, discovery) are
operators; their properties compare a result with what it has to guarantee,
on families of inputs.

### AgentJobs

*Processes.* Callers share one program counter, because start, cancel and
status all work under `registry.lock`: `holder` is `Caller`, `op` and `subject`
say which call it is. Each job has a worker, a guardian and a native root, whose
positions are `worker[j]`, `guardian[j]`, `root[j]`.

*Files.* `status`, `result`, `cancelFile`, `stamp` (created_at), `launchFile`
(the record that names the worker), `guardianFile`, `rootFile` (provider.json).
A job directory without `status.json` is `"unpublished"`. Locks are `holder`
and `completion`. A kill is an action of its own (`KillCaller`, `KillWorker`,
`KillGuardian`) and releases what the kernel releases; files stay.

| code | actions |
|---|---|
| `jobs.start` | `Submit`, `PublishQueued`, `SpawnWorker`, `RecordWorker`, `OpenGate`; `LaunchError`, `LaunchErrorPublish`, `WorkerGateCloses` when it fails or the caller dies |
| `jobs.recover`, `finish_cleanup` | `RecoverRead`, `RecoverYoung`, `RecoverProbe`, `RecoverStop`, `RecoverStopRefused`, `RecoverFinish`, `RecoverPublish`, used by a poll, a cancellation and a scan |
| `jobs.status`, `jobs.cancel` | `Poll`, `PollReturns`, `CancelRequest`, `CancelReturns` |
| `Worker.run`, `acquire`, `_blockers` | `WorkerBegins`, `StartupFails`, `WorkerReady`, `Heartbeat`, `Interrupt`, `Asks`, `ScanBegins`, `ScanPicks`, `ScanRefuses`, `ScanJudges`, `ScanBlocked`, `Acquire`, `PreparationFails`, `Prepared` |
| `Worker` around the native program, `launcher.py` | `SpawnRoot`, `RecordRoot`, `ReleaseRoot`, `LaunchFails`, `RootGateCloses`, `RootExits`, `Completes`, `StopRoot`, `StopRootRefused` |
| `Worker.finish` | `LeavePending`, `WriteResult`, `PublishTerminal` |
| `guardian.main` | `GuardianReports`, `GuardianLooks`, `GuardianJudges`, `GuardianStops`, `GuardianStopRefused`, `GuardianFinishes`, `GuardianPublishes` |

The registry's own promise is `ClaimLedger`: `ClaimOf` maps what `status.json`
says (queued, running, terminal) to waiting, held and released, and the registry
refines the ledger under it.

`StaleViews` says whether a root may be recorded between the guardian's reading
of `provider.json` and its look at the worker. The code allows it (section 6);
with FALSE the properties that depend on it are checked and proved for the
rest of the protocol. `Cancellable`, `Failing` and `Polled` select the jobs for
which callers cancel, launches fail and callers poll.

*Abstractions.* A root and its descendants are one program; `terminate_owned`
either ends it or is refused. Directories are model values with a given
ancestry. Wall-clock stamps are any numbers in `Stamps`. Output, event cursors,
redaction and path checks are left out.

### RuntimeUpdates

*Processes.* A task has a host process (`host`, `hosts`), at most one native
hook (`hook`, `kind`, `draft`) and at most one startup command (`pc`, `mode`,
`left`, `target`, `copy`, `before`, `answer`). Readers are ordinary processes of
the installed runtime. Git is a process of its own (`git`).

*Files.* `pointer`, `lockFile`, `commits` (the branch, HEAD last), `authority`
and `work` (revisions of what a snapshot compares), `journal`, `receipts`; locks
`updateLock`, `exclusive`, `shared`.

| code | actions |
|---|---|
| `apply`: first look, candidate, second look | `ApplyBegins`, `Looks`, `Disowns`, `Assesses`, `Prepares`, `Claims`, `Reassesses` |
| `apply`: the transaction | `WritesJournal`, `Activates`, `WritesLock`, `Marks`, `DoctorPasses`, `StartsCommit`, `CommitReturns`, `Verifies`, `Checks`, `Fails` |
| `_restore` | `RestoresLock`, `RestoresPointer`, `Confirms` |
| `_complete_receipt` and the end of apply and recover | `Revalidates`, `ReadsReceipt`, `RewritesReceipt`, `Unlinks`, `Releases` |
| `recover` | `RecoverBegins`, `Adopts`, `Judges` |
| `finish` | `FinishBegins`, `Releases` |
| `event` (hooks) | `Event`, `HookEnters`, `HookRegisters`, `DiscoveryStarts`, `DiscoveryEnds`, `HookPublishes`, `HookRefused`, `EndReads`, `EndCloses` |
| `runtime_access` | `Admitted`, `ReaderStarts`, `ReaderEnters`, `ReaderEnds` |
| environment | `HostStarts`, `HostExits`, `GitEnds`, `OthersWrite`, `Killed`, `HookKilled` |

`uses[t]` is history: the version a task was told to work with. `Orphans` says
whether `git commit` may outlive its updater and `Overlap` whether a task's hook
may run beside the task's own command.

`RuntimeGate` is the promise: users enter with the version that is served; the
version changes only while the gate is closed, and it closes only when nobody
is inside. `GateServing` is the pointer while there is neither an exclusive
holder nor a journal; `GateUsers` are the shared holders.

*Abstractions.* There are two versions; release metadata, policy checks that
only refuse, installation of the candidate and children that join the
transaction by token are left out or are one step. An update that was refused
may be refused for any of its reasons.

### TestBatches

The worker executes the cases in order; a case is taken, launched behind a gate,
recorded, run and stopped; then inputs are looked at again and the project's
runner acknowledges that devices are free. The batch is closed by the worker, by
the guardian, or, when both are gone, by a caller's recover; a notice is sent by
any of them.

| code | actions |
|---|---|
| `execute`, `_run_case` | `ExecuteBegins`, `SkipsCase`, `TakesCase`, `StopsBetweenCases`, `AllCasesDone`, `VerifiesInputs`, `UnlinksAck`, `SpawnsCase`, `RecordsCase`, `ReleasesCase`, `CaseEnds`, `CaseStopped`, `CaseStopRefused`, `ChecksInputs`, `CleansUp` |
| `finish` (`Worker.finish` of a batch) | `WritesResult`, `Publishes` |
| `guardian.main`, `finish_cleanup`, `recover_result` | `GuardianStops`, `CallerStops`, `Judges`, `ClosesResult`, `ClosesStatus` |
| `completion.deliver`, `attempt` | `Reads`, `Locks`, `SendEnds` |
| environment | `ProgramEnds`, `RunnerReleases`, `RunnerAcknowledges`, `InputsChange`, `Cancels`, `WorkerKilled`, `GuardianKilled`, `CallerKilled` |

`sent`, `retries`, `told` and `vouched` are history: messages the host has
accepted, explicit retries that sent again, the result the last completion
notice named, and the cases that ran between two successful looks at the
inputs. A send may be accepted although its caller sees an error, or dies.

*Abstractions.* Queueing and claims are those of `AgentJobs`; the guardian's
view of `provider.json` is current here; a case's program is one program; the
recover part of a cancellation is `CallerStops` before it; the worker's SIGTERM
flag is the same decision as `cancel.json`. Request validation, telemetry and
the protocol version of the request are left out.

### Checks: ChangeScope, PackPlanning, PackExecution

Two runs share `.governance/runtime/runs`, while files are edited. A run reads
a snapshot of the change (`Look`), binds each record to the bytes it has then
(`Bind`), reads the snapshot again (`Confirm`) and plans; all three are separate
steps, between which somebody may edit or stage. It then claims a directory
under `.runs-state.lock`, sweeps empty directories of inactive runs, writes the
packet, and executes pack after pack.

| code | actions |
|---|---|
| `resolve_change_scope`, `build_plan` | `Refuse`, `Look`, `Bind`, `Confirm`; operators `Snapshot`, `Supplement`, `BuildPlan` |
| `execution_environment`, markers, `_prune_empty_evidence_scaffolding` | `Claim`, `Mark`, `Unmark`, `SweepLook`, `SweepRemove` |
| `_wire_packet`, `_materialize_source`, `_resolved_source_bytes` | `Materialize` |
| `execute_packs`, `execute_pack`, `execute_command`, `processes.py` | `LeaveOut`, `OpenPack`, `AllPacks`, `StartCommand`, `EndCommand`, `CannotStart`, `ClosePack` |
| `normalized_command`, `inspect_evidence_manifest` | operators `Normalized`, `Inspected`, `PackEvidence`, `Overall` |
| environment | `Edit`, `Tamper`, `WriteManifest`, `Kill` |

A file is a number, a pattern the set of paths it matches. A command ends with
any of `Results`; it may spoil the shared packet and may leave a manifest that
names its own subject, another one, or is malformed. Line ranges are the content
they were read from. Telemetry receipts of a check are in `TelemetryLog`, and a
check never depends on them.

### TelemetryLog

Writers offer a record (`Offer`), take the lock and read the file (`Acquire`; a
file that cannot be read counts as empty), and replace it (`Write`); a writer
gives up when the lock is taken (`GiveUp`) or is killed (`Die`). `said` is
history: every record written, the latest form of each observation last; `first`
is when each observation was first made. `Summary` is the whole of `status`: runs and
outcomes, reviews, runs that never ended, repetitions and their examples.
Identifiers, redaction of fields and rendering are left out.

### ContextDelivery and ContextRouting

A hook resolves a packet for its session while sources are edited: it waits for
its bucket's lock (`TakeLock`, `LockTimeout`), declines or reserves the scoring
allowance in the receipt (`Decline`, `Reserve`), reads the required source,
scans, scores, rereads and assembles (`Resolve`, `Scan`, `Score`, `Recheck`,
`Assemble`, `Reread`), publishes under the directory's lock (`Stage`, `Publish`),
corrects the reservation (`Correct`), rereads every source as it renders
(`RenderItem`, `Incomplete`) and submits (`Submit`, `Emit`). `EndSession`, `Refresh`,
`Replay` after a compaction, and a `command` without a session are the other
entries. `sent` and `submitted` are history. The service is external: it answers,
fails, or answers something unusable. The session count is read before the lock
is taken, as in the code.

`ContextRouting` is what `resolve_context` computes: scores and ties of routes,
sources by group within byte budgets, declared and composed skills, and what
blocks the result.

### RuntimeEnable and ReleaseDiscovery

Operators enable, bootstrap, recover with the installed runtime (`RecoverEnable`)
or without one (`Restore`); users run from the environment they found. The two
locks of the code are held together and taken at once, so `exclusiveUse` stands
for both.

| code | actions |
|---|---|
| `enable`, `recover_enable`, `governance-bootstrap.py main` up to their locks | `Begin` |
| `install_locked` | `Create`, `Fill`, `Bootstrapped` |
| `enable`: integration files, journal, move, `activate` | `Integrate`, `Integrated`, `Move`, `ActivateCandidate`, `Close` |
| both recoveries | `RecoverEnable`, `Restore`, `Restored` |
| `runtime_access`, `update --to`, kills | `Use`, `EndUse`, `PinAnother`, `KillOperator` |

`ReleaseDiscovery` is the choice of a release from a listing, with what its
metadata declares, and the reuse of a cached answer. The network is external: a
release is reachable or it is not.

### SurfaceAudit

A graph of areas, each with shared, projected and routed parts; `ComposedParts`,
`ComposedRoles` and `ComposedClaims` are what a target inherits, `Audit` with the declared gaps (the pack) and without (doctor),
and the wiring that makes the pack run. Whether a document has its V1 shape, and
whether a reference resolves, are one flag each.

### DocumentationCorpus

`docs init` by two installers: `Plan`, `MakeDirectory`, `LookFor`, `OpenNew`,
`WriteNew`, `Enable`, `DieInstalling`; people edit profile, index, catalog and
documents (`EditProfile`, `EditCorpus`). A file an init has created and not yet
written is `"empty"`. People do not save a file while an init has it open for
writing. `SelectionPaths`, `Issues` and `RouteAnswer` are the catalog's readers.

### DispositionRegistry

A commit is an edit, a removal or a move of a unit together with any change of
the registry, committed only if the checker finds nothing that blocks
(`Passes`); days pass (`DayPasses`). A unit is one declaration at one path; how
a file is parsed into units is left out. `owed` is history: the responsibilities
once required to be refactored and not accepted since.

## 3. Runs

`tlc -config X.cfg M` in this directory. States and times are of two workers on
an ordinary machine.

| run | module, cfg | distinct states | question |
|---|---|---|---|
| `pair` | MCAgentJobs, AgentJobsPair | 571,000 | two exclusive jobs, one directory inside the other: exclusion, ownership, agreement of files, monotonicity |
| `session` | MCAgentJobs, AgentJobsSession | 115,000 | sessions and idempotency keys; refinement of the ledger |
| `queue_moves` | MCAgentJobs, AgentJobsQueueMoves | 38,000 | does a waiting worker get past a job that lost both supervisors, with nobody polling? |
| `cancel_converges` | MCAgentJobs, AgentJobsCancelConverges | 15,000 | does a cancelled, polled job always end? |
| `stale_view` | MCAgentJobs, AgentJobsStaleView | violation | NativeExclusive when the guardian's reading is older than the root |
| `nested_wait` | MCAgentJobs, AgentJobsNested | violation | can a nested job wait behind its own parent? |
| `update_alone` | MCRuntimeUpdates, RuntimeUpdatesAlone | 514,000 | one task beside a reader and other writers, killed twice: agreement, gate, recovery |
| `update_pair` | MCRuntimeUpdates, RuntimeUpdatesPair | 566,000 | two tasks compete: reservations |
| `update_reopen` | MCRuntimeUpdates, RuntimeUpdatesReopen | violation | reservations when a closed host comes back |
| `update_orphan` | MCRuntimeUpdates, RuntimeUpdatesOrphan | violation | agreement when git outlives the updater |
| `batch` | MCTestBatches, TestBatches | 1,305,000 | a batch of two dependent cases with a device |
| `checkout` | MCCheckout, Checkout | 1,192,000 | everything else in one checkout: see below |

`checkout` looks at one part of a checkout at a time: the variable `part` says
which module moves in a behaviour, or that `input` is one input of an algorithm
(`task`, `graph`, `release`). The parts write different files and meet only
through results that each module already takes as arbitrary (a check does not
depend on telemetry, planning takes any set of changed paths), so that their product
would add states and no behaviour. Checks have 120,000 of the states, telemetry
250,000, context 583,000, enabling 55,000, documentation 52,000, the registry
6,300 (of 657,000 commits tried), and the algorithms 126,000 inputs.

### What the properties say

Registry. `RunningExclusive`: conflicting jobs are never both recorded as
running. `NativeExclusive`: their native programs never execute together,
whoever dies. `RootsOwned`: a native program executes only under a running
record that names it, so that whoever cleans up can find it. `ResultAgrees`: the
terminal state of `status.json` is the one of `result.json`, although four
writers write the two one after the other. `EnvironmentHeld`: one supervisor's
death does not free the environment while the root runs. `TerminalFinal`: none of
the writers of `status.json` changes a terminal state, with or without the lock.
`LiveJobsKept`: a job whose worker is alive is ended by nobody else.
`CancelledNeverLaunches`: a job cancelled while it is queued never starts its
program, although the cancellation may arrive while its claim is being granted. `OneJobPerKey`: an idempotency key names one job, also when the
caller died and repeated the request. `LedgerRefined`: the refinement.
`QueueMoves` and `CancelConverges` are liveness.

Updates. `NoPartialActivation`: pointer and lock file name one version whenever
ordinary commands are admitted. `SettledAgrees`: so does HEAD, once
no git commit of an update is left. `GateRefined`: the refinement. `ReservationKept`: the runtime
under a task that was told to work with it is not replaced by another task's
update. `RecoveryConverges`:
repeated recover resolves what was interrupted, as long as some task's host is
there to call it and nobody else changes the worktree.

Batches. `TerminalClean`: a batch ends only when its programs and devices are
released. `PublishedEvidence`: it attests no more than was verified. `NoticesTrue`:
each notice at most once per request, the final one about the result that stays.
`AttentionTrue`: a notice that asks for attention is sent only while there is a
reason. `NoticesArrive`, `BatchSettles`: liveness.

Checks. `PlanSound`: a ready plan looks after every concern of a request, replaced
packs through their replacements only, in an order that can be run. `EvidenceSafe`: sweeps
of other runs never take a directory that is in use or has a manifest, and leave
nothing empty behind. `PassedProven`: exit code 0 only when every planned pack
ran after all it needs and every command succeeded on an intact packet. `OneSubject`:
what commands are given, and what manifests attest, are the bytes the plan was
made for. `EveryCheckEnds`: a check that is not killed comes to a verdict.

Telemetry. `LogFaithful`: what is kept is the newest of what was written, within
both bounds, one record per observation with the time it was first made; no ended
check is reported as never ending. `ReRecordingFree`: recording an observation
again evicts nothing.

Context. `Charged`: however hooks overlap or die, a receipt is charged for at
least what left, and no allowance is passed. `ScoresFit`: no text leaves without its
required source, and the optional one only as the version that was scored, beside
the required version read with it. `PacketsComplete`: a packet that passes
is all its task needs, within every budget, for the one best route.

The rest. `EnableRecovers`: wherever enabling, a bootstrap or a recovery is
killed, the runtime is whole or a recovery makes it so, and an environment in use stays
where it is. `AdoptionsAuthorized`: only a release its owner authorized from
the version in use is adopted, and none is passed over because it could not be read.
`GraphsProven`: a target without a finding has every role and claim covered by
parts that apply to it. `RoutesGoverned`: what the documentation checker accepts can be
routed to, and every path an answer names selects the checker when it changes.
`StructureFirst`: docs init overwrites nobody and enables the module over a
complete structure. `DecisionsKept`: no sequence of commits that pass loses a
decision that stands.

### Bounds

* `MaxFaults` counts kills and refused signals together. Two are enough to lose
  worker and guardian of one job in either order, or to lose one of each and
  refuse the cleanup; three in `cancel_converges` also kill the caller that
  recovers.
* Two jobs are enough for a conflict; three jobs for a session, a key and a
  third party, or a parent, a sibling and a child. All stamps are equal in
  every run (`Stamps = {1}`), so that the order of the queue rests on
  the tie-break; a job that is created later is still scanned earlier or later,
  because the scan takes directories in any order.
* `MaxHosts` is how often a task is resumed, `MaxForeign` how many commits or
  edits others make, `MaxCrashes` how many commands or hooks are killed. Two
  crashes interrupt the update and then its recovery. With `Overlap` TRUE,
  one and two crashes with one host and one foreign write pass the same
  properties as `update_alone`; that larger instance is not kept as a run. With
  `Orphans` FALSE the invariant behind `HeadAgreesWhenOpen` was checked on up to
  3.8 million states.
* A batch needs two cases for a dependency and for an acknowledgment of an
  earlier case to be stale; one kill of each kind is a lost worker, a lost
  guardian or a lost caller. The safety properties were also checked once with
  two kills, and liveness with two kills and no input changes; those instances
  are too slow to keep.
* Two checks meet in their directories; `MaxKills` 1 leaves one marker behind
  for the other to meet, and `MaxEdits` 1 falls between any two readings. A file
  that is changed, bound and changed back before the second snapshot passes with
  ranges of other bytes; that takes more than two edits, and `OneSubject` asks for
  agreement up to two. The invariant of its proof was also checked with three.
  The packs are a chain of three with a replacement, twins, and every target
  pack of `PlanConfigs`. A command passes, reports a failure as text, or times out
  without output; with five kinds of results the part passes the same properties.
* `MaxRecords` 3, `MaxBytes` 4 and records of size 1 or 2 let either bound
  evict; `MaxOffers` 4 fills the file and goes on.
* Two hooks of one session meet at its lock and at the packet directory, which
  holds `MaxPackets` 2; `MaxCalls` 3 fills the allowances (two events, one
  request, three bytes). One edit falls between any two readings.
* `MaxEnvironments` 4 is a bootstrap, a candidate, and one more of each after a
  kill; nothing else bounds kills of operators.
* Two units, thirteen decisions, two in the registry at once and two days: a
  waiver may expire, be superseded or be resolved, and a unit move to the other
  place and back.
* `PageSize` and `MaxPages` 2, `MaxCandidates` 2: listings of up to four
  releases reach both limits.
* Wherever the bounded environment (kills, edits, hosts, retries, requests) is
  used up and every process has returned, the system really stops, and so does
  one whose owner refuses cleanup for ever: hence `CHECK_DEADLOCK FALSE`. That
  processes do not wait for each other for ever is stated by the liveness
  properties and by `NestedNeverWaits`.

No symmetry is used: job ranks, request functions and liveness break it.

## 4. Fairness

`AgentJobs!Fairness` is weak fairness of each process's own steps (a process
that is not killed goes on): recovery by the lock holder, callers, workers,
guardians, gates that close when their parent is gone, the worker noticing a
cancellation or the end of its program. Strong fairness is assumed of taking
`registry.lock` (`ScanBegins`), because `flock` with a waiting queue eventually
serves a waiter that retries. Likewise a recovery that keeps being started gets past
its first reading (`RecoverRead`): a job does not stay younger than the five
seconds during which `recover` leaves it alone. Native programs need not end: `CancelConverges` holds
without `RootExits`. `PolledSpec` adds that callers poll again and again, for the
properties about jobs whose supervisors are all dead, where only a caller can
act; `FinishingSpec` adds that programs end, for the queue.

`RuntimeUpdates!Fairness` is weak fairness of commands and hooks that have
started, and of git, whose deadlines are in the code. Strong fairness of
`RecoverBegins` says that a user who repeats recover finds the non-blocking
locks free some time; strong fairness of a passing doctor that its environment
recovers. Nothing is assumed of hosts, readers or new events.

`TestBatches!Fairness` is weak fairness of the worker and the guardian while
they live, with a stop that eventually succeeds, and of a caller's send, which
ends within its ten seconds (`completion.py`). Nothing is assumed of the
project's runner, of its programs, of the host or of callers' polling; the
liveness properties name the states where both supervisors are lost, in which
nobody is left to act.

`MCCheckout!MCSpec` is strong fairness of each check's own steps: a check that is
not killed goes on, a command it starts ends (callers may set a deadline), and
`.runs-state.lock`, a blocking `flock` held for a sweep, is not withheld for ever
from a run that waits for it. The other parts have safety properties only; their
hooks, operators and people may stop anywhere.

## 5. Proofs

TLAPS proves these for every value of the constants that satisfies the
assumptions named in the modules (`RequestAssumption`, `RegistryAssumption`,
`UpdateAssumption`, `BatchAssumption`, `ScopeAssumption`, `ExecutionAssumption`,
`ContextAssumption`, `EnableAssumption`, `CatalogAssumption`,
`DispositionAssumption`, `TelemetryAssumption`, `DiscoveryAssumption`,
`RoutingAssumption`): any number
of jobs, claims, tasks, readers, cases, callers, checks, paths, hooks, sessions,
operators, inits, units, decisions and appends, any graph, listing and task, any
stamps, any number of faults. The assumptions say what kind of thing each
constant is (paths are numbers, a configuration has finitely many packs, a
catalog is a numbered sequence of records, no caller is called like a
supervisor), and one fact about the packs of the wheel: those that always run own
no path (`packs/*.yaml`). TLC evaluates them in the runs. Where a theorem needs
one of the constants of a run to be FALSE, the table says so.

| module | theorem | says |
|---|---|---|
| AgentJobs_proofs | `TypeCorrect` | `TypeOK` |
| | `Exclusive` | `RunningExclusive`, with current or stale guardian views |
| | `TerminalIsFinal`, `LiveJobsAreKept` | action properties `TerminalFinal`, `LiveJobsKept` |
| | `LedgerRefinement` | `Spec => LedgerRefined` |
| | `RootsAreOwned`, `NativeSafe` | `RootsOwned` and `NativeExclusive` if `StaleViews = FALSE` |
| | `ResultsAgree` | `ResultAgrees`, whoever dies |
| | `EnvironmentIsHeld` | `EnvironmentHeld` if `StaleViews = FALSE` |
| | `CancelledStays` | action property `CancelledNeverLaunches` |
| | `KeysAreUnique` | `OneJobPerKey` |
| RuntimeUpdates_proofs | `TypeCorrect` | `TypeOK` |
| | `AgreementWhenOpen` | `NoPartialActivation`, with orphans and overlap |
| | `GateRefinement` | `Spec => GateRefined`, likewise |
| | `HeadAgreesWhenOpen` | `SettledAgrees` if `Orphans = FALSE` |
| | `ReservationsKept` | `Spec /\ [][Undisturbed]_vars => ReservationKept` |
| | `ReservationsKeptOnce` | action property `ReservationKept` if `MaxHosts <= 1` |
| TestBatches_proofs | `TerminalIsClean`, `EvidenceIsPublished` | `TerminalClean`, `PublishedEvidence` |
| | `NoticesAreTrue`, `AttentionIsTrue` | `NoticesTrue` and the action property `AttentionTrue` |
| PackExecution_proofs | `EvidenceIsSafe` | `EvidenceSafe` |
| | `PlansAreSound` | `PlanSound`, for every configuration and request |
| | `PassingIsProven`, `SubjectIsOne` | `PassedProven`, `OneSubject` |
| ContextDelivery_proofs | `ChargesCover` | `Charged` |
| | `TextFitsItsScore` | action property `ScoresFit` |
| RuntimeEnable_proofs | `EnablingRecovers` | `EnableRecovers` |
| TelemetryLog_proofs | `LogIsFaithful` | `LogFaithful` |
| | `ReRecordingIsFree` | action property `ReRecordingFree` |
| Checkout_proofs | `InitKeepsAndEnablesLast` | action property `StructureFirst` |
| | `RoutesAreGoverned` | `RoutesGoverned` |
| | `DecisionsAreKept` | action property `DecisionsKept` |
| | `SurfacesAreProven` | `SurfacesProven`, for every graph |
| | `EveryGraphIsProven` | `GraphsProven`: the same for the graphs of the run |
| | `AdoptionIsAuthorized` | `AdoptsAuthorized`, for every listing and kept answer |
| | `EveryAdoptionIsAuthorized` | `AdoptionsAuthorized`: the same for those of the run |
| | `PacketIsComplete` | `PacketComplete`, for every profile, catalog and checkout |
| | `EveryPacketIsComplete` | `PacketsComplete`: the same for the tasks of the run |

*Registry.* `RunningExclusive` is not inductive: a worker that scans uses an
answer it collected directory by directory. The invariant `IInv` adds what makes
the answer valid when it is used: who holds `registry.lock` and for what
(`LockInv`); what a worker at each point may assume of its own `status.json`
(`StatusInv`); that a job which is still being started has no other process
(`StartInv`); that whoever publishes an end holds `completion.lock` over a
record that is still open (`RecoverInv`); and that every conflicting running job
among those already scanned has been noticed (`ScanInv`). `ScanInv` survives the
writes made without the lock because, while a worker holds it, nobody else turns
a job to running: lemma `StatusMoves` lists, step by step, how `status.json`
can change, and the terminal, live-job and refinement theorems are read off it.
`RootInv` says where native programs can be at each point of worker, guardian
and recovery; it needs the guardian's view to be current, and the run
`stale_view` shows that it must.

Four more invariants stand on `IInv`. For `ResultAgrees`, what a process is
about to write to `status.json` is what `result.json` says, and it holds
`completion.lock` from the one write to the other; a process killed between the
two leaves a record that is open, and the next publisher keeps the result it
finds. For `EnvironmentHeld`, every lost supervisor has cost a fault of its own:
one that is gone without a fault has stopped the root first (`FaultInv`). A
cancellation is never taken back, and a worker reads it once more between the
grant and the launch. The step that publishes a job has looked its key up under
the same `registry.lock`.

*Updates.* `IInv` is `TypeOK`, `LockInv` (who holds the two locks at which point
of apply, recover, finish and of a hook), `JournalInv` (without a journal pointer
and lock file agree; what they say at each point of an update and of its
restoration) and `UserInv` (a shared holder runs the active version, and there
is no journal). Every kill leaves `IInv` because locks are given back and the
journal stays. The refinement has one lemma for what is served and one for the
users, and then one case per action.

`AgreeInv` adds HEAD, which others move as well. `OfferInv`: only the version
that was there is offered for restoration. `BasisInv`: what the journal calls its
base, and when HEAD still is that base. `GitInv`: a commit that git is making
belongs to an updater that waits for it, on the HEAD of the journal; this
conjunct needs that git dies with its updater, and the run `update_orphan` shows
what happens when it does not. `HeadInv`: whether the commit of the update is in
HEAD (`OwnCommit`), which decides what recovery makes of pointer and lock file,
and that its judgement stays true until it acts on it.

`ReservationKept` is false of the code (`update_reopen`), and `ReservationsKept`
says why: it holds, for any number of hosts, kills and overlapping turns, of the
behaviours in which no receipt changes between the first reading of it in
`other_tasks` and its closing (`Undisturbed`). Everything else is in order:
whoever works with the old version has its receipt open under its own host
(`UseInv`), a host that is recorded and not there never comes back under the
same number, so what is closed belongs to nobody who works (`DisownInv`), from the
rescan on nobody can be told to work, because runtime-use.lock is held
(`UsesSettle`), and the rescan ends with nobody else working (`ClearInv`). The run
`update_pair` checks the case of one host per task, in which nothing disturbs:
`ReservationsKeptOnce`.

*Enabling.* `EnableInv` adds to `EnableRecovers` who holds the locks, and that
nobody uses the environment meanwhile (`LockInv`), and what each operator has
brought about at each place it can be killed (`PlaceInv`: without a journal an
enabling operator stands over a runnable directory; with one the journal names
that directory and the candidate, before, between and after the two renames). An
operator that works is alone, so a step only has to re-establish its own place;
one that leaves, or is killed, leaves nothing to establish. `InPlace` reduces
the remaining steps to what they do with runtime and journal.

*Documentation.* `CorpusInv` says that what an init has passed stays there
(`BuiltSoFar`) and that a file about to be written is the empty one that this
init created by its exclusive open, and nobody else's (`OneWriter`).
`RoutesGoverned` is about the catalog's readers: a catalog without a finding has
no name twice, so the answer to a name is the one record that has it
(`OneMatch`), the files that record names exist (`CleanCorpus`), and every path
of an answer is among the selection paths (`AnswersAreSelected`).

*Decisions.* Every commit is put in one normal form (`Respects`: a file that is
looked into has new bytes, and one that is not has neither a new nor a larger
unit); `ObservedHasItsDecision` and `StandingIsObserved` then turn what the checker accepts into
what a decision that stands is about. `RegistryInv` carries that every responsibility owed is on
record.

*Batches.* `BatchInvariant` is the conjunction of the types, of who is alive at
each phase and which of them may still act (`LifeInv`), of what has been
released by the time each of them publishes (`CleanInv`), of the results of
cases and what the worker has looked at (`CasesInv`), of `result.json` against
the result about to be published (`ResultInv`), and of the notices sent against
those requested (`NoticeInv`). `TerminalClean` fails to be inductive by itself
because three processes can end a batch after any of the others died; `CleanInv`
says what each of them has already done at the point where it may take over.

*Checks.* `EvidenceInv`: a directory that a sweep has chosen is not in use, and
it stays so because a run opens and closes under `.runs-state.lock`, which
the sweep holds; a killed run's directory has no user any more. `VerdictInv`:
which packs of the plan's order are behind a run (`ProgressOf`), what is kept of
their failures and commands, and that a packet once changed is found with the
next command at the latest (`IntactOf`). `SubjectInv` follows the bytes from the
first snapshot through the binding to packet and manifests; while the scope is bound
it counts the edits it takes for a file to differ from its snapshot and to be as
before again (`DriftOf`), because the second snapshot only notices a difference.

*Plans.* `PlanSound` is about `Dependencies` and `ExecutionOrder`, which are
recursive functions. That such a function exists, and what it yields, is
shown without an induction theorem: of the numbers for which it fails there would
be a least one (`Smallest`). The closure is closed because each step short of
it adds a pack, and there are as many steps as packs (`DependenciesClosed`);
without a cycle some pack is ready in every wave (`SomeReady`), so the order has
each pack once after all it depends on (`OrderPlaces`). `NoneReplaced` and
`ReadyCovers` then need what loading has checked of replacements.

*Context.* A receipt's lock is held from the reading of its state to its
writing, so a hook writes back what it read and what it adds (`PathInv`,
`LockInv`, `ReceiptInv`); what has left is charged before it leaves
(`ReceiptsCharged`), so a hook killed in between is charged for too much and
never for too little; a choice is of versions that were scored or read again
(`ChoiceInv`), and the packet directory is counted under its own lock
(`DirectoryInv`).

*Telemetry.* `LogInv` has who holds the lock and what it has read (`OneHolder`:
the file, or nothing if it could not be read; nobody else changes the file
meanwhile), that the file ends what was said (`EndsWith`), one record per
observation with its first time (`OnceEach`), and that a run's end is offered
once, when its start is no longer on the way (`RunsInOrder`). The last one is what
makes the summary right: eviction is from the front, so a start that is still on
record has not lost its end. The operators of the model that walk through the
file (`Keeping`, `Total`) are recursive functions; what they compute is shown
step by step from the first record on (`UpToN`, by the least number that would
fail), for a function that is first shown to exist. `Bounded` keeps an end of
what it is given within both bounds, and keeps all of it if it fits
(`ReRecordingFree`: an upsert that has not grown gives back at least what it takes).

*Surfaces and releases.* These are operators without steps. `SurfacesAreProven`
turns the findings that are missing into what has to be there: a structure
without a finding has one route per target (`OnlyRoute`), a target without one is
complete (`RouteIsComplete`), and the areas are told apart by their identifiers.
`AdoptionIsAuthorized` needs that any of the versions listed have a highest
(`ListingOrders`) and that what is looked into is closed upwards (`LooksAtNewest`),
so that a newer release which is passed over was looked at and needs approval.

*Packets.* `PacketIsComplete` follows the two walks of the resolution. What has
been taken of the first n declared sources (`SourcesSoFar`), and of the first n
wanted skills (`SkillsSoFar`), is kept by a step that takes and by one that leaves
out: nothing is there twice because only the first declaration of a path and the
first place where a skill is wanted are looked at, the accounts are the sums of
what was taken (`BytesAppend`), and what was looked at is taken or recorded as
omitted. A packet without a blocker has omitted nothing that is required
(`NothingBlocks`); the required sources are declared before the expansion
(`DeclaredIs`) and the declared skills before the catalog (`WantedIs`), so a
source or a skill that is both is required at the place that counts. That a leaf
is the entry of its name needs the check of the catalog (`EntryIs`). The best
route is ahead of every other (`BestIs`), and a tie it does not report would be
of a secondary route (`SelectionIs`).

These theorems quantify over all inputs of a shape (`GraphShapes`, `Inquiries`,
`Tasks`). `InputAssumption`, which TLC evaluates, says that the inputs of the run
are of those shapes, and this gives the invariants of the run.

*Only model-checked.* Liveness under fairness, which the prover does not
support, and with it `QueueMoves`, `CancelConverges`, `RecoveryConverges`,
`NoticesArrive`, `BatchSettles` and `EveryCheckEnds`. Every invariant and every
action property of a passing run is stated by a theorem.

## 6. Disagreements between code and documentation

The runs whose outcome is a violation check a sentence of the documentation
against what the code does; `PROJECT.json` quotes the sentences and lines.

* `stale_view`: the guardian uses a `provider.json` it read before it found the
  worker dead. A root recorded and released in between is not stopped, the job is
  published as ended, and a conflicting job runs beside the root.
* `nested_wait`: a shared child of a shared parent is accepted although an
  exclusive sibling before it in the queue waits for the parent.
* `update_reopen`: `other_tasks` writes back as closed a receipt that its task,
  resumed under a new host, has renewed meanwhile; the update then replaces the
  runtime under that task.
* `update_orphan`: `git commit` runs in a session of its own and can land after
  the recovery that decided there was no commit.

These were met while modelling and are recorded without a run of their own.

* A prior receipt keeps the digest of the lock it was made under, so after another
  task's update a registered task is answered `approval-required` at every prompt
  (`startup.py:119-127`; `src/docs/specs/startup-runtime-updates.md:113`).
* `check --stage pre-commit --changed-path P --base-ref R` makes an "explicit"
  packet (`cli.py:205-211`, `changed_paths.py:398-399`), but its checkers are
  started with `--staged` (`execution_commands.py:127-128`), which
  `governance_changed_paths.py:184-190` refuses; every such check fails
  (`src/docs/specs/governance-kernel.md:147-149` calls stage and change scope independent).
* With `max_secondary_routes` 0 a tie of two routes is "matched" by the order of
  identifiers; `PacketsComplete` therefore asks for the single best route only otherwise.
* A review of a run may be recorded although appending it evicts the run.
* While enabling, a candidate is built from the lock file before its digest is
  read for the journal, so a lock changed in between makes a journal that no
  longer matches the candidate.
* docs init writes back the text of the profile it read at the beginning, and
  with it loses what a person wrote meanwhile; and one that is killed between
  creating the catalog and writing it leaves an empty file that every later init
  calls unchanged and only the checker reports.
* Two active decisions with the same finding and responsibility make every later
  change of the registry ambiguous until one is deleted; one new decision may
  stand for two old ones; a deletion-only edit is never looked into, so a unit may
  be split by deletions alone without a finding; a waiver may be resolved by an
  edit elsewhere in its file while the unit stays large; an active waiver may be
  replaced by one that has expired, for any bytes. `DecisionsKept` is what
  remains true.

## 7. What is not modelled

Components without a model, with the reason, are listed in `PROJECT.json`: the
maintenance scripts of this repository, the parsing of three providers' output
frames, and the argument parsing of the agent command line. Of the checker
scripts only the registry of decisions and the change scope are modelled: the
others read one text and print findings. Within modelled
components: data (paths, redaction, messages, digests of several files), policy
checks that only refuse, a child that joins an update by its token, the V1 shapes
of documents, and the writers of a project's first files. A
descendant that escapes collection (`processes.py:88`) is outside the present
models; `terminate_owned` is taken at its word.

Hazards without a property, beside those in `PROJECT.json`:
`provider_agents/storage.py:137` (a job directory without `status.json` makes
every later start refuse), `startup.py:138`, `:37` and `:119` (receipts written
from old readings, never abandoned, and stale digests), `startup_transaction.py:100` (recover does not
change the token of a dead updater), `context_delivery.py:165` and `:168`
(sessions are counted outside the lock, and an unreadable receipt is a fresh
one).

Two behaviours were met and left out of the properties on purpose. An explicit
delivery that waits for `notification.lock` while another caller closes the
batch can still send "ownership remains held": `AttentionTrue` speaks about the
two supervisors only. And a receipt reopened by a discovery that began before
`finish` only delays other tasks' updates.

## 8. Plan

What is left, in this order.

1. `DescendantTracking`, refining the one-step `terminate_owned`.
2. The composition of `RuntimeEnable` with `RuntimeUpdates`: generations and
   the journal that only one of the two may find.
3. `validation_subject.py` beside `ChangeScope`, and token accounting in
   `ContextDelivery`.
