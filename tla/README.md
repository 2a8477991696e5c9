# Specification of nxr

nxr runs the apps and tasks of a Nix flake. It discovers what the flake
offers, plans a graph of tasks, schedules and supervises their processes,
restores outputs from a local store, restarts work when files change, sends
leaves of a workflow to a remote worker, and can hand a command to a local
daemon that owns it after the client has gone. These modules model the parts
whose correctness depends on the order in which things happen, and the
algorithms whose result is hard to see from their code.

`PROJECT.json` lists the components, the runs, the source lines of every
definition, the hazards, the findings and the theorems.

## The system

| Component | State | Operations | Talks to |
|---|---|---|---|
| Scheduler (`nxr-task/src/scheduler.rs`, `resources.rs`) | node states, dependency counters, ready and running sets, locks, tokens, memory | `new`, `schedule_ready`, `on_exit`, `complete` | run loop, workflow executor |
| Run loop (`nxr-cli/src/commands/task.rs`) | queues of nodes to start, deadlines, start times, first failure, events | `run_plan`, one iteration after another | scheduler, supervisor, pipes, output store, watch control |
| Workflow executor (`nxr-task/src/execute.rs`) | the batch, the order, the first failure | `run_operation_plan_callbacks` | scheduler, executors of operations |
| Supervisor, pipes, deadlines (`nxr-process`) | children, table of registered pipes, coalesced output, a heap of deadlines | `spawn`, `try_wait_any`, `shutdown_*`, `poll`, `push`, `flush_*` | operating system, run loop |
| Session supervisor (`nxr-core/src/execution_owner.rs`) | one JSON record per run, one lock file, a thread per child | `start`, `cancel`, `list`, `inspect`, `reconcile` | daemon threads, durable run |
| Durable run record (`durable_run.rs`) | journal and snapshot of a run, a lock per run | `sync_supervisor_started`, `sync_supervisor_terminal`, `load_durable_run` | session supervisor, readers in other processes |
| Execution of a spec (`execution_spec.rs`, `run_journal.rs`) | two pipes, two readers, a bounded channel, a journal of events and log chunks | `execute_spec_locally`, `record_chunk`, replay | the leaf process, later attempts |
| Dirty source (`execution_spec.rs`) | inventory of changed paths, captured files, staged tree | `dirty_entries`, `capture`, `materialize` | git, the user, a remote checkout |
| Daemon (`nxr-core/src/daemon.rs`, `commands/daemon.rs`) | socket and pid file, cache maps, log broker, eval worker | a request per connection thread; start, stop | every other command |
| Log broker (`log_broker.rs`) | streams with retained tails, a bounded channel per subscriber | `open`, `append`, `subscribe`, `close` | followers over sockets |
| Eval worker (`eval_worker.rs` in `nxr-core` and `nxr-nix`) | the bound session, a capped map of results | `prepare`, `get_eval`, `put_eval` | discovery of several clients |
| Worker registry (`worker_schedule.rs`) | workers, reservations with a lease | `select_worker`, `reserve_worker`, `select_and_reserve`, `release` | attempts |
| Watch mode (`nxr-watch`, `commands/watch.rs`) | pending batch, snapshot, plan, prepared nodes, digest memo, generation | quiet window, coalescing, classification, restart | file events, run loop |
| Process stacks (`process_cmd.rs`) | a state file of processes per project | `up`, `down` | processes that outlive the command |
| Planner (`planner.rs`, `graph.rs`, `matrix.rs`, `plan_exec.rs`) | the declarations | expansion, subgraph, serial order, cycle search | scheduler |
| Affected analysis (`nxr-affected`) | a status per app and task, a queue | classification, two passes of propagation | git, continuous integration |
| Action keys and digests (`action_key.rs`, `digest_cache.rs`, `incremental_digest.rs`) | the memo of a run, the git snapshot, the durable index | keys, hits, saves | run loop, output store |
| Workspace output store (`cas.rs`, `workspace_cache.rs`) | entries of outputs by action key | lookup, restore, save, clear | run loop |
| Artifact catalog (`artifact.rs`, `catalog.rs`) | records and objects in the checkout and on the host, pins, quarantine | materialize, publish, fetch, retain | workflow executor |
| Caches on disk and warm paths (`plan_cache.rs`, `dev_env_cache.rs`, `store_exe_cache.rs`, `nxr-completion`) | one file per entry; the daemon's maps | lookup, validation, store, prune | every command |
| Fingerprints (`nxr-completion/src/fingerprint.rs`) | an index of file metadata and hashes | analysis of `flake.nix`, walk, replacement of the index | discovery |
| Nix capabilities (`capabilities.rs`, `capability_cache.rs`) | a cache of what a Nix can do | identity, probes, store | every call of Nix |
| Environment of a child (`env_policy.rs`, `context.rs`, `secrets.rs`) | policies, secrets and their files | merge, trust, resolve, deliver, clean up | run loop |
| Remote leaves (`remote.rs`) | pointers, receipts, journal cursor, `run.json` | submit, follow, fetch, reattach, cancel | an external worker |

What is hard here:

* **Interleaving.** Exits, ends of pipes, deadlines, interrupts and restarts
  reach the run loop at different points of one iteration. Request threads,
  wait threads and a restarted daemon meet over files and one lock. Commands
  of several checkouts share a catalog, a store and the caches.
* **Failure half way.** A journal line, a receipt, an object or a tree is
  written in several steps, any of which may be the last one. The next
  attempt takes over what it finds.
* **Stale state.** Almost everything is cached under a fingerprint that was
  taken before or after the thing itself, while the user edits.
* **Bounded things.** Slots, tokens, locks, pipes, channels, the daemon's maps
  and the events of one poll all have an end.

What makes each part correct is stated with its run below.

## The modules

| Module | Models | Notes |
|---|---|---|
| `TaskDag` | the contract of running a task graph | abstract: waiting, running, succeeded, failed, dropped |
| `Scheduler` | `scheduler.rs`, `resources.rs` | implements `TaskDag`; variables are the struct's fields |
| `TaskRun` | `run_plan` with supervisor, ends of pipes, deadlines | extends `Scheduler`; `at` is the loop's program counter |
| `OperationRun` | the workflow executor | extends `Scheduler`; a second driver of it |
| `PipeMultiplexer` | the table of pipes, the poll and the coalescer | the run loop reduced to what touches output |
| `DurableRun` | `durable_run.rs` | one run; one writer at a time, crashes, readers |
| `SessionOwner` | `execution_owner.rs`, `run.*` of `daemon.rs` | threads, processes, pids, daemon crashes |
| `SpecRun` | `execute_spec_locally`, the run journal | leaf, readers, receiver; attempts follow each other |
| `SourceSnapshot` | the dirty checkout | the user is an actor of its own |
| `LogBroker` | `log_broker.rs`, `log.*` | an append keeps the daemon's one lock while it fans out |
| `EvalWorker`, `WorkerRegistry` | eval results, leases | clients and attempts with their own program counters; a release may come at any time |
| `DaemonLifecycle` | socket and pid file, start, stop, serve | several daemons at one path |
| `Watch` | `nxr watch` | edits are numbered; prepared state is the number of edits it has seen |
| `ProcessStack` | `nxr up`, `nxr down` | instances are never reused, pids are |
| `Planner`, `Affected` | graph algorithms, step by step | checked against reference definitions |
| `ActionCache` | keys, digests, hits and saves | extends nothing; the store is a function from keys |
| `WorkspaceCas` | one entry of the output store | entries and outputs, copied one at a time in the mode the output declares |
| `ArtifactCatalog` | catalog, retention, delivery | two names, two digests, one host |
| `WarmCaches`, `DiskCache` | the warm paths; one file of a cache | results are named by the tree they came from |
| `TreeFingerprint`, `Capabilities` | two fingerprints with their caches | equal hashes stand for equal contents |
| `NodePreparer` | tickets, shell wrapping, re-preparation of nodes | a prepared node is how it was wrapped and what it runs in |
| `SpawnEnv` | environment and secrets of a child | values are named by where they come from |
| `RemoteLeaf` | a leaf against an external worker | killed and run again at any point |
| `SchedulerProofs` | theorems about `Scheduler` | and the lemmas that its two drivers cite |
| `RunProofs` | theorems about `TaskRun`, `OperationRun`, `PipeMultiplexer`, `NodePreparer`, `Watch`, `SpawnEnv` | |
| `DecisionProofs` | theorems about `Affected`, `Planner`, `ActionCache` | |
| `DaemonProofs` | theorems about `SessionOwner`, `LogBroker`, `WorkerRegistry`, `EvalWorker`, `DaemonLifecycle` | |
| `RecordProofs` | theorems about `ProcessStack`, `RemoteLeaf`, `DurableRun`, `SpecRun` | |
| `StoreProofs` | theorems about `WarmCaches`, `WorkspaceCas`, `DiskCache`, `Capabilities`, `TreeFingerprint` | |
| `ArtifactProofs` | theorems about `ArtifactCatalog`, `SourceSnapshot` | |
| `Totals` | lemmas about sums, least numbers and sequences | used for pools, the budget and arguments by a least counterexample |
| `MCScheduler`, `MCTaskRun`, `MCSessionOwner`, `MCActionCache`, `MCSourceSnapshot`, `MCCapabilities` | | values for one module |
| `MCDecisions`, `MCOperations`, `MCServices`, `MCStores` | | values for several modules |

How state and actions correspond to the code, where it is not plain:

* **Scheduler.** The loop of `schedule_ready` takes one iteration per step and
  `pc` keeps `on_exit` out until it has returned. Node ids are numbers; their
  order stands for that of the id strings. The constructor's refusal of plans
  that can never be scheduled is in `Init`. Counters saturate at `MaxU32` and
  `MaxU64`; TLC uses 7 so that saturation is reached. `on_exit` of a node that
  does not run returns an error and changes nothing; it is not a step.
* **TaskRun.** `complete` is `on_exit` followed by the steps of
  `schedule_ready`; `owed` says whether the caller extends `to_start` or
  assigns it. Processes, the clock, pipes and the user are the environment.
  Errors of preparation, spawning, polling, waiting and saving end the loop
  with `Err` (`Fail`).
* **PipeMultiplexer.** A write or a hang-up arms an event, a poll takes it, and
  only another write or hang-up arms it again, as with edge-triggered epoll and
  kqueue. A registered pipe is a token in `sources`. The unit of data is what
  one read takes. That a pipe holds less than `READ_FAIRNESS_BUDGET` is an
  assumption: 64 KiB against 1 MiB in the code. With a pipe that holds exactly
  the budget the hang-up would be left unread for good.
* **NodePreparer.** A prepared node is the stage it has reached with its
  environment; a ticket is the worker thread that runs the second stage beside
  the cache lookup. A loop over nodes prepares one of them in a step. A generation of a watch session drops what an edit touched
  and prepares it again with the hints that are left.
* **DurableRun.** A journal is a sequence of physical lines and one flag for
  the final newline. A line that is not JSON is a fragment or garbled.
* **SessionOwner.** A body under `with_lock` is several steps where the process
  may die or a write may fail, and no other body begins until it has ended. A
  zombie answers `kill(pid, 0)`, so a child counts as alive until it is reaped.
* **LogBroker.** The n-th chunk is the number n. A subscriber's thread takes
  the lock only to subscribe; a client that has stopped reading is ended by the
  write timeout.
* **DiskCache.** A file is an inode with the bytes of whoever wrote them; names
  point to inodes. Opening truncates before the lock is taken.
* **WarmCaches, ActionCache, TreeFingerprint, Capabilities.** A hash is what it
  was taken of. What the real hash ignores (a metadata field, an included file)
  is left out of what the model's takes.
* **Capabilities.** `nix.conf` is a list of versions, told apart by what the
  digest covers (`capability_cache.rs:461-478`). An edit appends one, because
  its times are new, even if it undoes another. Putting a file back (`mv`,
  `cp -p` where the times survive, a link into the Nix store) returns to an
  earlier one; two edits within one tick of the clock are such a return too.
* **WorkspaceCas.** What is at an output's path is a set of layers, each named
  by the entry it was copied from: `Replace`, and `Merge` of a file, put one
  layer in place of what was there; `Merge` of a directory adds one. Outputs
  with `VerifyOnly` and `Report` are checked by the lookup and never written;
  if all are, the hit follows at once.
* **WorkerRegistry.** Nothing under `src/` but tests calls the registry, so an
  attempt is any caller: it may release its worker within its lease, after it,
  or never. The ghost `robbed` marks an attempt whose worker such a late
  release has let go.

### Composition

`MCOperations`, `MCServices` and `MCStores` put several modules in one run.
Their parts share no variable, so a behaviour of all of them is an interleaving
of one behaviour of each, and every property speaks of one part. It is therefore
enough to run one part at a time: `driver`, `service` and `store` choose it in
the initial state and the others stay where they are. Parts that do share state
are composed properly: `TaskRun` and `OperationRun` with `Scheduler`, and
`SessionOwner` with the durable record at the grain of its calls.

## The runs

| Run | Part | Instance | States |
|---|---|---|---|
| `scheduler` | scheduler | all acyclic graphs on 4 nodes and 216 mixes of tokens, memory, 2 locks and interactive nodes, both policies, 3 slots | 260 k with the next |
| | workflow executor | the 216 mixes, nodes for another host, a node that cannot run | |
| | action keys | 2 nodes in a chain, 3 files, 2 runs, 2 edits | 201 k |
| | affected | all acyclic graphs on 1 app and 3 tasks, 4 kinds of roots | 152 k |
| | plan | all graphs on 3 tasks with a missing one, matrices, 2 sets of roots | 40 k |
| | environment | every pair of policies with two fields each, 5 lists of secrets | 57 k |
| | Nix | 2 executables, 2 commands by 2 clients, 2 changes, of which any may put `nix.conf` back | 133 k |
| | fingerprint | 3 files, 3 modes, 2 computations, 2 edits | 193 k |
| | pipes | 2 children with 2 pipes each, a grandchild, 3 writes | 125 k |
| `task_run` | run loop | 3 nodes, 2 slots: 6 plans with interrupt, restart and stop; 2 plans with limits, nodes restored from the store and children that may never exit | 600 k |
| `owner_crash` | session supervisor | 2 runs, budget for 1, 1 crash, recycled pids, all faults | 645 k |
| `services` | log broker | 2 streams, room for 1, one subscriber with a channel of 1, 3 chunks | 32 k |
| | watch | 7 files in 3 directories, 2 nodes, 2 edits | 49 k |
| | session supervisor | 2 runs, no faults | 7 k |
| | spec run | 2 chunks, pipe and channel of 1, 2 attempts, 1 fault | 22 k |
| | preparation | 3 nodes, 2 requests, plain, shell-wrapped and environment-carrying contexts | 36 k |
| `stores` | artifacts | 2 commands, 2 names, 2 digests, 1 damage or crash | 430 k |
| | outputs | 3 runs, 2 outputs, one optional, one a directory, every mix of `Replace`, `Merge` and `VerifyOnly`, 1 fault | 606 k |
| | answers | 2 clients with 2 commands, 2 trees, 2 edits, maps of 1 entry | 179 k |
| | files | 2 writers, 4 kinds of cache, a crash or a removal | 7 k |
| | run record | 2 attempts, all faults, 2 readers | 161 k |
| | socket | 3 daemons, 2 clients, 3 commands, 1 crash | 31 k |
| | leaves | 2 leaves, 2 tries, 1 fault | 249 k |
| | snapshot | 2 paths, 2 texts, modes and links, 2 edits | 117 k |
| | eval worker | 2 clients, 2 roots, 2 fingerprints, map of 1 | 51 k |
| | worker registry | 2 workers, 2 attempts, leases of 0 to 2, releases at any time | 24 k |
| | process stack | 2 processes, 3 graphs, 2 commands at a time, 3 in all | 60 k |

What they show:

* `scheduler`: skips are exact under keep-going (`SkippedExactly`), nothing
  starts after a failure under fail-fast (`NoStartAfterFailure`), locks exclude
  (`ExclusiveLocks`), nothing that was given back is lost (`NoResourceStall`),
  and the scheduler implements `TaskDag`, all of it under both drivers; a
  workflow run that returns has settled and reported every node
  (`OperationsSettled`). Before a run: a hit of a node that binds the producers
  of what it reads restores what the node would have written (`BoundHitIsPure`); the affected
  lists hold what a change can reach and no more (`AffectedExact`); there is a
  serial order or a reason why not (`PlanOrReason`); a child gets what the
  documents promise and its secrets live as long as it (`SpawnGoverned`); the
  capabilities are those of the Nix at hand, whatever was edited during the
  probes, unless the file was put back with its times (`CapabilitiesAgree`); equal
  fingerprints mean equal files (`FingerprintHonest`). During it: no output is
  stranded in a pipe and none is lost at the end, an interrupt included
  (`OutputDelivered`).
* `task_run`: each node is reported once and the exit code
  tells the truth (`OutcomeReported`), no process is left behind (`NoOrphans`),
  the run ends (`RunEnds`), limits are enforced (`TimeoutEnforced`).
* `owner_crash`: `AdmissionBudget` and `StatusFinal` through crashes, failing
  writes and recycled pids.
* `services`: followers see every chunk once and in order
  (`FollowIsContiguous`) and cannot hold the daemon's lock for good
  (`AppendReleasesLock`); every edit that counts is followed by a generation
  (`EditServed`) that runs what was edited (`GenerationCurrent`); journal and
  record agree (`JournalMatchesRecord`), the budget is released
  (`BudgetReleased`); the journal of a spec run tells all that the leaf wrote
  (`JournalTellsOutput`) and the run is over some day (`SpecRunEnds`); a node is
  prepared as its definition says, however it got there (`PreparationSound`).
* `stores`: a delivered tree has the record's digest, a failure leaves the
  destination alone and recorded objects verify (`ArtifactsVerify`), a hit's
  outputs that are to be written are whole and of one run, and the others are
  left alone (`UndisturbedHit`), warm answers are answers of the sources
  (`AnswerAgrees`) and hold no secret (`NoSecretRetained`), a quiet entry parses (`QuietEntryWhole`), the journal
  and snapshot of a run are sound (`JournalSound`), one daemon is reachable
  (`DaemonReachable`), a successful leaf was verified (`LeafTruthful`), a
  verified transfer is what the identity names (`SnapshotFaithful`), eval
  answers match their question (`EvalAnswerMatches`), nothing but a release that
  came too late gives a worker two holders (`WorkerExclusive`), no process of a
  stack is forgotten (`NoneForgotten`).

### Bounds

Three nodes are the fewest that have a node running, one in a queue and one
unlocked by an exit at the same time; four give diamonds and two chains. Two
runs and one crash are enough for a start to race a start, a cancel a wait
thread, and a restart any of them. Everywhere else there are two actors, which
is enough for each pair of steps to be interleaved in every order, and two
attempts or edits, the fewest for one that makes the other stale. Caps of the
code (channels, maps, the events of a poll, the fairness budget) are 1 or 2,
so that they are reached.

Restrictions that are made in the MC modules only: interchangeable commands and
children begin in a fixed order (`ArtFirst`, `MuxFirst`); one artifact is
pinned; one fault happens in a behaviour of the catalog, as damage or a crash; an
output that is a file is not merged, which would be the same as replacing it;
the global change of `Affected` is combined with roots that miss; the events of
one poll are read in the order of their tokens, which no other step can tell.

### Fairness

* `TaskRun`, `RunFairness`: weak fairness of the loop, which never blocks for
  longer than its poll timeout; of the exits, unless the conditions of the run
  let children run for ever (`Lasting`); and of the end of a pipe once its
  child has exited. The last does not hold if a grandchild keeps the pipe open;
  the loop then waits for it, and `RunEnds` says nothing about such runs, nor
  about lasting children. `TimeoutEnforced` needs the loop's fairness only.
* `OwnerFairness`: the daemon's threads go on. No request has to arrive and no
  child has to exit. Each lock body is finite, and the lock is released at its
  end.
* `LogFairness`: an append that has begun goes on when it can, and so does each
  subscriber's thread; its write ends by the write timeout at the latest. No
  client has to read.
* `WatchFairness`: the loop goes on, and the quiet window closes if nothing
  happens in it. No edit has to happen.
* `SpecRunFairness`: the process, its reader threads and the leaf go on and the
  leaf exits; an attempt that has ended need not be repeated.

The scheduler has no thread of its own and no fairness. Every other part is
checked for safety only. Deadlock is checked in `scheduler` and the task runs;
in `services`, `stores` and the runs of single modules a behaviour ends when
its bounds are used up.

## Findings

Seven runs (`expect: violation`) each show a place where the code does something
else than a comment, a document or a test of the repository says. The findings
of `PROJECT.json` quote the lines.

| Run | Shows |
|---|---|
| `task_run_lost_start` | a node unlocked by a cache hit is overwritten by the next exit and never spawned |
| `durable_torn` | a crash before a line's newline makes the journal unreadable after the next append |
| `prewarm_secret` | a node with secrets that is prepared again after a source edit of a watch session loses its secrets and becomes cacheable |
| `action_key` | a tracked file that an earlier node wrote counts as clean, and a hit restores the output of other contents |
| `remote_reattach` | a reattach to a leaf that has finished submits it again |
| `source_rename` | a renamed file enters the inventory as two deletions |
| `capability_putback` | `nix.conf` is put back with its times while a command probes, and what was probed under the edit is a hit for the file that is back |

### Where the properties stop

Some properties hold in their run and not in every instance of the module, or
name an exception. The reasons:

| Property | Does not cover | Because |
|---|---|---|
| `OutcomeReported` | exit codes of runs in which a limit passed | a stopped child may exit with 0, which hides another node's failure (`task.rs:940`) |
| `RunningAccounted` | nodes restored from the store with dependents, two slots | the finding of `task_run_lost_start` |
| `TimeoutEnforced` | a node without open pipes | `cleanup_closed_pipes` cancels its deadline (`task.rs:1475`) |
| `NoOrphans` | error returns | `Err` leaves the children that run; a signal that interrupts the poll takes this way, because the kind of its error is replaced (`pipe_multiplex.rs:302`) before `task.rs:1499` looks for it |
| `OutputDelivered` | more than 64 ready pipes at an interrupt; a grandchild's later output | one poll precedes `remove_node` |
| `StatusFinal` | runs that exited but were seen by a new daemon first | they are recorded as lost (`execution_owner.rs:350`) |
| `JournalMatchesRecord` | failing durable writes, crashes | the error is ignored, and a reconcile that records a run as lost makes no durable call (`:365`) |
| `JournalSound` | lines that a concurrent reader repairs away; a second attempt after a failed start snapshot | the reader writes back what it parsed before it had the lock (`durable_run.rs:446-458`); the attempt is completed under the first one's id (`:538`) |
| `AnswerAgrees` | discovery from the daemon's map; results stored under a later fingerprint | the map is not checked against the sources |
| `ArtifactsVerify` | retention beside publication; a crash between two renames | an object without its record is an orphan to `retain` |
| `UndisturbedHit` | an entry replaced or cleared while it is copied | the lock is not held during the copy |
| `UndisturbedHit` | what is in the workspace at the paths of `VerifyOnly` and `Report` outputs, and old files of a merged directory | a hit leaves them as they are, stale or not (`cas.rs:467-472`, `:490`; the test at `:922-943` expects so) |
| `WorkerExclusive` | attempts of which one lost its worker to a late release | `release_worker` checks neither owner nor time (`worker_schedule.rs:110`): a release after the lease has expired removes the reservation of the next holder, which may be within its lease, and a third attempt gets the worker |
| `DaemonReachable` | overlapping starts, a hello of more than two seconds | a second daemon unlinks the first one's socket; the late cleanup of a stopping one removes the new one's |
| `NoneForgotten` | overlapping commands; a crash between spawn and save | the state file is read before and replaced after the work |
| `AffectedExact` | globs that do not compile | a node that is raised from unknown to affected after it was queued is not queued again |
| `GenerationCurrent` | directory inputs, files that are ignored on purpose, bursts | the memo of a directory is not cleared by a file below it (`digest_cache.rs:111`); three events of one directory become the directory, which hides a metadata file among them (`coalesce.rs:245`) |
| `PreparationSound` | values of `--set` in a node that is prepared again; which of the two one-shell paths a plan takes | the partly prepared node carries no parameter environment; the lazy path counts a node without a shell as eligible, the eager one does not |
| `EditServed` | continuous writing, an edit before a shutdown that coalescing drops | each event postpones the restart (`restart.rs:23`) |
| `CapabilitiesAgree` | an executable exchanged and restored during the probes; included files; a `nix.conf` put back with its times whose entry was probed under another one | only `nix.conf` itself is in the digest, and of its times only those of modification and birth: the finding of `capability_putback` |
| `FingerprintHonest` | files named after the first expression that cannot be resolved | the analysis stops there |
| `SnapshotFaithful` | `git status` that fails | it counts as a clean checkout (`execution_spec.rs:703-709`) |
| `JournalTellsOutput` | a crash that leaves part of a log chunk | the chunk's name is taken, and every retry fails |
| `LeafTruthful` | a cancel at the deadline that gets lost | the leaf returns 124 and clears the pointer |

Smaller observations, with no document that says otherwise: a keep-going
speculation keys successors before their dependency has run
(`common.rs:1680`); under fail-fast the rest of a workflow batch still runs
after a failure; a node skipped for its host counts as a success to its
consumers; `attempt_pointers` creates `run.json` without its lock; two ids may
map to one state file of `nxr up`; a zombie looks alive to a readiness probe;
`materialize` refuses any path with a symbolic link at the destination; when
nxr runs a program in the foreground and a grandchild keeps stderr open, nxr
waits for it with signals no longer forwarded; `cancel` and `nxr daemon stop`
signal a pid that may have been recycled.

## What is proved

Every theorem speaks of all values of the constants, under the named
assumptions of the modules; TLC evaluates those assumptions in the runs. They
are what the code relies on: finitely many nodes ordered by their ids, at least
one job, acyclic plans (which the planner ensures), positive capacities. Three
say a little more. `DiskAssumption` wants at least one writer, without which
there is no entry to speak of. `TfAssumption` gives all files of the initial
tree the same times, which only an edit moves forward. `EnvAssumption` says
what shape a request has, so that a value of one origin is never taken for
another's.

None of the properties below is inductive alone. Each proof has an invariant
that is, a lemma for every action or group of actions, and a last step from the
invariant to the property.

### The scheduler (`SchedulerProofs`)

Type correctness, `DependenciesFirst`, `ExclusiveLocks`, `InteractiveAlone`,
`FinishedIsComplete`, `SkippedExactly`, `NoResourceStall`,
`NoStartAfterFailure`, `TerminalIsFinal`, and that `Scheduler` implements
`TaskDag`.

The invariant is `IInv`. `CountersExact` ties each counter to the set of unmet
dependencies, which is what makes a decrement to zero mean that all of them
have succeeded; it needs `SetsMatchStates`, because an exit is accepted by
membership in `running`. `LocksMatchRunning` ties every held lock to a running
node that names it, so that releasing the locks of one node frees no other's.
`LoopGuard` carries the checks made before the loop into it. `PolicyRespected`
says when fail-fast has tripped and that nothing waits afterwards.
`FinishedIsComplete` follows from these by taking a dependency-minimal node
among the pending ones; `SkippedExactly` is itself part of `IInv`, since the
walk over dependents is right only if earlier walks were complete. The
refinement maps Pending and Ready to waiting and Cancelled and Skipped to
dropped; its core is that the walk reaches exactly the descendants that have
not been dropped before (`WalkIsDescendants`).

`NoResourceStall` needs a sum: `PoolsCovered` says that what is counted as in
use is at most the sum of what the nodes in flight asked for. It is not equal,
because the arithmetic saturates. That a sum over a finite set gains what an
added element weighs is proved in `Totals` by an argument about a smallest
counterexample, since the induction theorems of the library cannot be used.

### The run: its drivers, preparation, output and sessions (`RunProofs`)

* `RunImplementsScheduler`, `OperationsImplementScheduler`: every step of the
  run loop and of the workflow executor is a step of `Scheduler` or leaves it
  alone. So all of the above holds in every run, and `RunImplementsTaskDag`.
* `OutcomesReported`: `OutcomeReported` under every condition of the loop, with
  restored nodes, limits, interrupts, restarts and stopped children.
  `NodesOwned`: `NoOrphans` in runs that restore nothing from the store; the
  finding of `task_run_lost_start` is why that is a condition. `ChildrenOwned`:
  what remains true with restored nodes. The invariant `RunInv` says where each
  queue can hold something (`QueuesPlaced`), that what the loop holds is running
  in the scheduler and in one queue only (`Owned`), so that no exit it reports
  is refused, that nothing gets lost on the way (`Accounted`), and what the
  reports and the first failure say about the states (`Reported`,
  `FailureReported`).
* `OperationsAreSettled`: `OperationsSettled`. The loop ends when a call starts
  nothing; `NothingStarted` turns this, by `NoResourceStall`, into "nothing is
  ready", and `BatchInFlight` into "nothing is in flight".
* `GenerationsCurrent`: `GenerationCurrent`. A suppressed batch leaves the loop
  idle with what it had, so the invariant speaks of everything that is kept
  between generations (`MetadataSeen`, `InputsSeen`), the memo included. That a
  coalesced batch without a directory still names every file that counts is
  `KeptSays`.
* `OutputsDelivered`: `OutputDelivered`, for any number of writes. A token has
  at most one pipe and a pipe one token (`TableOK`); what was written has been
  read or is in the pipe, and a pipe that is no longer registered was read to
  its end or as far as its child's exit (`Accounts`). `BudgetOK` is why nothing
  is stranded: a pipe holds less than the budget of one visit, so an event that
  uses its budget up has seen a write, which has armed another. `ForcedDrain`
  says how far the drain after an interrupt is.
* `SpawnedAsPlanned`: `PreparationSound`, for every plan, set of contexts and
  number of generations. Whatever has been prepared of a node, and whatever a
  session keeps of it, is about the node's own shell and context (`NodesOK`,
  `HintsOK`); the shared shell is that of every node that needs one, and none
  of these is cached (`SharedOK`), whether it was found from the definitions or
  from prepared nodes; and where the loop relies on a spawn plan there is one
  (`PlannedOK`).
* `SpawnsGoverned`: `SpawnGoverned`. The merge of two policies is done once for
  all variables (`MergedPolicy`); the invariant says what the slots resolved so
  far have set (`SlotsBefore`).

### What is decided before a run (`DecisionProofs`)

* `AffectedSetExact`: `AffectedExact`. No status comes from nowhere
  (`Justified`), what owns a changed path stays affected (`Kept`), and a node
  that has left the queue has marked everything that depends on it (`Spread`).
  What is reached is the least set that is closed (`ClosureFacts`), so no
  induction over paths is needed. `Forced` is the part for globs that compile.
* `PlansAreSerial`: `PlanOrReason`. `GraphInv` says that the traversal reaches
  what the roots need and nothing else, `SortInv` that the counts are those of
  the nodes that are left, so that a node is taken after what it depends on,
  and `SearchInv` that the stack is a path in which every node waits for the
  next. The search therefore ends with a cycle, never with the fallback of
  `find_cycle_path`.
* `HitsPure`: `BoundHitIsPure`, for any number of nodes. `IndexesOK` and
  `ReadsOK` say that an entry of the index never has a later stat than the file
  and that what the run has read of an untouched file is still so; `KeysOK`
  that the keys are those the memo gives. `StoreOK` explains each stored output
  by the digests in its key, or by the entry of the node that wrote the file
  under the key to which the bindings lead, and `RunOK` gives the same
  explanation for the files of the run. Two things with the same explanation
  are equal. The property asks that a node binds *all* producers of what it
  reads (`BindsProducers`): with three nodes in a chain, binding only the one
  directly before is not enough if that one does not bind the first.

### The daemon (`DaemonProofs`)

For the session supervisor: type correctness with mutual exclusion of the lock
bodies, `StatusFinal` and `AdmissionBudget`, through crashes and all faults.
The invariant is `OwnerInv`;
its part `HeldRecords` says that a thread inside a body still finds the running
record it saw, which is what keeps `RecordCancel` and `StoreRunning` from
rewriting a final status. For the budget, `TakenWithin` also counts a run whose
child exists and whose record is about to be stored. Without crashes and
faults: `JournalMatchesRecord`, by the invariant `JournalFollows`, which says
through which points of the bodies the journal lags behind the record. With a
failing durable write the property is false, because the code ignores that
error.

`FollowContiguous`: `FollowIsContiguous`. `InFlight` adds up what a follower
got, what is pending and what is in its channel, and says that the next chunk
on its way is the next number; it needs that a sender is in one list once
(`OneSender`) and that the append holding the lock sends the last chunk
(`SendingCurrent`).

Also `WorkerExclusive` (a lease in force has its reservation in the map unless
its holder was robbed, and a release that takes a reservation of others marks
them),
`EvalAnswerMatches` (every entry was put under the Nix and configuration that
the worker is bound to now, because binding another one clears the map) and
`DaemonReachable` (while it is quiet there is one daemon, and how far it is
decides what is in the files).

### What is recorded (`RecordProofs`)

* `NothingForgotten`: `NoneForgotten`. A command between two steps knows, as
  the file does, all that runs except the process it is starting
  (`CommandKnows`); what an `up` has yet to start has no cycle, so there is
  always a next target.
* `LeavesTruthful`: `LeafTruthful`. A leaf may be killed anywhere and taken
  over, so the invariant says what a receipt in memory and one on disk each
  know about the attempt and its journal (`ReceiptSound`), and what a process
  has in memory at each place (`PlaceSound`).
* `JournalsSound`: `JournalSound`, with crashes, torn lines, failing writes and
  repairing readers. `JournalInv` says what is on disk at each step of an
  append: whole lines, or whole lines and a fragment, or a line without its
  newline. For a first attempt, `FirstInv` adds the order of journal and
  snapshot.
* `SpecJournalTells`: `JournalTellsOutput`. `FlowOf` follows the chunks of a
  stream on their way: those in the journal, the one in the leaf's hand, those
  in the channel, the one a reader holds and those in the pipe are, in this
  order, what the process wrote. `EndsClean` says that a reader which has ended
  left nothing behind.

### What is stored (`StoreProofs`, `ArtifactProofs`)

* `AnswersAgree`, `SecretsNotRetained`: a running command has seen the tree
  there is, and a fingerprint it took is of a tree it has seen.
* `HitsUndisturbed`: the entry that is copied is of a run that has saved it, so
  that its manifest is settled and the second reading of it finds what the
  lookup saw; what is not on the list any more has been copied, or merged, and
  what was never on it is as before.
* `EntriesWhole`: bytes below a writer's position are its own unless another
  writer has truncated the file since, and that one is still to write; a writer
  that is done leaves a name for what it wrote.
* `CapabilitiesAgreed`: an entry that nobody doubts says what its Nix told
  under the version of `nix.conf` that was in place when it was asked. A digest
  that names the version in place comes with what was probed under that version,
  unless it is one that was put back (`Named`): an edit never leads to a version
  there was before, so an entry of an undone edit is not found again.
* `FingerprintsHonest`: an entry says what the file held when its change time
  was the entry's, however old the index is.
* `ArtifactsVerified`: `DestOK` says what is at the destination at each step of
  a command; `CatalogSound` says that an object is missing only while a command
  replaces it or died there. The second part is claimed as long as nothing was
  damaged and retention did not overlap a publication, as in the property.
* `SnapshotsFaithful`: `SnapshotFaithful`. What is staged of a path is what a
  file of it says (`StagingOK`), and so is what is at the destination once it
  is moved (`MovedOK`); `InventoryOK` says which paths an undisturbed inventory
  has. A path that was dropped from the index and is there untracked has two
  entries, so the property asks that one of them is what the path holds. That
  equal digests mean equal entries is `digest_source_entries`, which keeps the
  order among the entries of one path.

`TypeCorrect`, `DependenciesFirst`, `InteractiveAlone`, `FinishedIsComplete`,
`TerminalIsFinal`, `OwnerTypeOK` and what `ChildrenOwned` says are proved and
not repeated in a run.

### Only model-checked

* Liveness: `RunEnds`, `TimeoutEnforced`, `BudgetReleased`, `EditServed`,
  `AppendReleasesLock`, `SpecRunEnds`. The proof system does not cover it.

Every safety invariant that a passing run checks is a theorem as well, and so
is the refinement of `TaskDag`. The properties that the other runs find violated
are false, and have no theorem.

## What is not modelled

* Parsing, validation and rendering: manifests and schemas, workflow documents,
  parameters, configuration, the command line, event formats, completion text,
  explanations and the terminal interface. They have no state over time.
* Calls of the nix program and the reading of its output, the Nix modules and
  templates. What depends on them is an input of the models.
* `trust.rs`, whose database is read before a run: what it says is an input of
  `SpawnEnv` and `NodePreparer`; `run_history.rs`, a list of files that is
  written without a lock as a best effort; `session.rs` and `attach.rs`, which
  are clients of requests that are modelled.
* The heap of `DeadlineQueue`: each node's deadline is inserted once per run, so an entry is never revived.
* The second Ctrl-C during a shutdown and errors of the kill calls.
* The reader threads that replace the poll on other platforms, where spawning is
  not supported.
* The daemon's maps of fingerprints and action keys, plain stores with the cap
  that `WarmCaches` models, and the framing of requests.

The mapped lines are the part of the code that keeps state or decides
something that other parts rely on. The larger rest is what this section lists.

## Plan

1. The index of hashes that action keys share (`merkle_index.rs`) as a store of
   its own, with its incremental roots against a reference definition.
2. `NoOrphans` for error returns, once a node whose batch fails to spawn is
   stopped (`task.rs:1087`).
3. Refinements beyond `TaskDag`: an abstract output store that `WorkspaceCas`
   and `ArtifactCatalog` implement, and an abstract log that `LogBroker` and
   `SpecRun` do.
