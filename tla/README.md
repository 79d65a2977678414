# ContractCapsule: TLA+ models, checks and proofs

ContractCapsule turns project knowledge into versioned "capsules", publishes
them in a registry under review, compiles views of them for a coding agent, and
replaces a capsule at run time under executable contracts. The models here cover
the parts of the program that have concurrency, crashes, timeouts, partial
failure or long sequences of dependent calls: the content store, quarantine,
build and registry; the resolver and compiler; the swap machinery
(`src/contractcapsule/swap`); and the agent process with the run ledger of the
experiments. Paths are relative to the repository; the definition-by-definition
correspondence is `map` in `PROJECT.json`.

## Inventory

| Component | State it keeps | Operations | How it interacts | Module |
|---|---|---|---|---|
| Content store, `storage/cas.py` | one file per digest | put, get, exists | `flock` per digest between processes; link and directory sync | ContentStore |
| Quarantine, `audit/quarantine.py`, with `build/ingest.py` | snapshots, candidates, bindings, promotions, in memory under a lock | register, bind, promote, verify, issue permit | reads the content store and Git; trusts approvals signed elsewhere | Quarantine |
| Registry, `storage/registry.py` | SQLite publications with evidence, grants, attestation | publish, get | preflight outside, the rest inside a transaction that looks again, one thing after another | Registry |
| Build, `build/publish.py` | package directories, drafts | ingest, build, publish a draft | content store, quarantine, registry | Publication |
| Resolver, `resolve/` | none | admission, graph, closure, conflicts | asks the registry and policy and freshness providers that others change | CapsuleGraph, DependencyClosure |
| Compiler, `compile/session.py`, `manifest.py` | the session of one call | compile a view, replay a manifest | looks at policy, registry, sources and services several times; waits for writers of the content store | ViewCompiler |
| Runtime store, `swap/store.py` | SQLite tables of scopes, actions, tickets, preparations, receipts, audit | initialize, begin/end action, reconcile, reserve/consume boundary, save prepared, activate, roll back | every write is one `BEGIN IMMEDIATE` transaction | RuntimeStore |
| Schema migration, `swap/store.py` | columns and signatures of older tables | `_initialize`, `_migrate_*` | every process that opens the store runs it | StoreMigration |
| Swap controller, `swap/controller.py` | none of its own | prepare, activate, rollback | several store calls and policy checks; the last is a transaction whose gate checks again | SwapController |
| Docker stage, `swap/docker_*.py`, `process_io.py` | owned containers and volume, the result | create, start, kill, inspect, copy, remove | docker clients with timeouts; the daemon may lose or delay a command | DockerStage |
| Twin pairs, `swap/twin_stages.py`, `validate/behavior.py` | captures, blockers, uncertainty, reports | checks, executors, paired checks, comparison, repetitions | one stage at a time, after a fresh look at the authority | TwinPair |
| Twin attempts, `swap/twin_run.py`, `attempts.py`, `validate/journal.py` | attempts table, journal | run, reserve, execute, append, complete, verify | several hosts on one database | TwinAttempt |
| Agent adapters, `adapters/base.py` | a child process, reader threads | run | pipes, signals, a deadline | AgentProcess |
| Experiments, `experiments/run.py`, `models.py` | raw event files, the run ledger | run once, append, load | several workers on one directory | RunLedger |
| Models, formal semantics, package loader, renderers, MCP server, spec lock, baselines, benchmark, twin inputs | data and files | validation, loading, scoring | see "Not modelled" | |

What is hard, and what makes each part correct:

- *Content store.* Writers of one digest race, system calls fail, processes die
  and power is lost between link and sync. Correct when an acknowledged object
  stays.
- *Quarantine, build, registry.* What was reviewed, permitted or checked changes
  before it is used; answers are lost and calls made again. Correct when what is
  published is what was reviewed, was checked again in the transaction that commits
  it, stays readable, and is one publication per version.
- *Resolver and compiler.* Questions asked one by one and a selection that grows
  in phases while policy, registry, sources and services change. Correct when the
  selection is closed, complete and free of conflicts, the reasons are true, a
  replay is exact, and nothing is disclosed without a yes to every question about
  it.
- *Store.* Long sequences of legal calls, retries with old tickets, rollbacks
  after other moves, a lost process behind an ended action. Correct when the row
  always verifies, the receipts are the gapless history of the pointer, each
  move is authorised once by its own ticket, and no swap happens under a live
  process.
- *Migration.* Several opens at once, an open that is cut short. Correct when an
  open store is authenticated and the database stays usable.
- *Controller.* State that was checked before the transaction and is stale in it;
  answers that are lost. Correct when nothing commits on stale authority, and
  committed calls replay.
- *Stage.* Lost, late and dropped commands. Correct when what the stage reports
  (nothing runs, the tree is final, these names are retained) is the case.
- *Pairs.* Exceptions that are swallowed while the run goes on. Correct when a
  COMPLETE attempt had no fault and a stage reported uncertain stops the run.
- *Attempts.* Concurrent hosts, crashes, revocation. Correct when an attempt is
  executed once, its evidence precedes its completion, and a stored outcome goes
  only to calls of the same binding.
- *Agent process and ledger.* The deadline races exit, output and overflow;
  workers race for one file that is visible while it grows. Correct when an accepted
  output is whole, no call that could start its readers leaves a child running
  without having killed it, and a run has one record that counts bytes kept.

`hazards` in `PROJECT.json` lists these at their lines with the properties that
would catch them; the few without a property say why.

## Modules

**ContentStore** is `FilesystemCAS.put_blob`: take the lock of the digest, make its
shard directory if it is not there, look, write a temporary file, link it, sync
the shard, with each failure and death in between; when the sync fails, the entry
is removed again or, if it cannot be compared or removed, stays. `object` is what
the directories show and `synced` which entries the sync of their shard has put on
disk. `shard` says whether a shard's own entry is on disk: nobody syncs the
directory above (`objects/sha256`), so a shard is only `made` until a power loss
has left it there. A power loss keeps or drops every entry that is not synced, and
every such shard with all it holds. The history variables `torn` and `uprooted` name the
digests whose entry was left without a sync, and those that went with their shard.

**Quarantine** (which extends it) has one action per method of
`QuarantineStore`, since each holds the store's lock throughout. A source is the
metadata that `snapshot_id` hashes, so two captures of a source differ only in
what the identity leaves out, its capture time: this is what lets an approval, a
binding and a stored snapshot disagree. **Registry** adds the gate (header,
permit, approvals, bindings, atoms, one operator for each check of the code) and
the rows; **Publication** composes them with the threads: ingestion, build and
`publish_draft` are jobs with a program counter, and files drift, Git objects
and packages vanish, policies change, syncs fail, processes die, power is lost.
The transaction of `publish` is a job too: it waits for the write lock, asks the
policy (`PublishBegins`), reads each CAS record (waiting for whoever writes it),
checks the header, resolves each Git subject and validates each atom in steps of
their own (`PublishChecks`), and commits or raises; the world goes on in between,
and `during` collects what it has been since the transaction began.
The quarantine dies with its process; store, registry, packages and signed
approvals survive.

**DependencyClosure** is the worklist of `dependency_closure`, one turn of the
loop per step. **CapsuleGraph** is `resolve/graph.py` as operators over a library
(what the capsules publish and declare): providers, edges, locks, conflicts and
their errors. **ViewCompiler** is `compile_view`: admission question by question
between two looks at the policy, graph, mandatory phases, greedy optional
selection, sources, manifest and final recheck, with failures and replays; its
calls of the closure run DependencyClosure step by step. A question asks the registry
for a capsule (`_verified`: its row, its own read policy and the objects of its
evidence), or the authorizer or the freshness checker about a capsule or an atom;
a no leaves the later questions of that capsule or atom unasked and is counted.
Policy, registry, sources and services change between any two steps, and `during`
collects the answers (`World`) that were in force since the snapshot. Who asks the
registry or reads a source waits while a writer holds the lock of an object
(`busy`). Reading one source admits its capsule anew; that is one step, and while
changes are left (`Wavers`) it may have any outcome that changes during it could give.

**RuntimeStore** is the runtime store. Each writing method is one atomic action,
since it is one transaction; a call that raises rolls back, so its error paths
are the negation of the guard. `row`, `actions`, `tickets`, `prepared`,
`receipts` and `audit` are the tables; `clock`, `proofs` and `alive` (the
processes that really run) are the environment. Digests become the values they
identify, so a comparison of digests is a comparison of values; the signatures
over a row become `RowVerifies`, the consistency that `_row` demands of what was
signed. `SwapPointer` is the abstract promise (place once, replace once per
operation, undo only the replacement in force) and `RuntimeStorePointer` the
refinement mapping from the tables.

**SwapController** composes the store with concurrent clients. A call is a record
with a program counter and the values it has read; between its steps sessions
act, time passes, policies change and clients crash and lose their answers.

**StoreMigration** is `RuntimeStore.__init__` on an older database, statement by
statement. `sqlite3` opens a transaction before an `UPDATE` but not before an
`ALTER TABLE`, so the module separates what is committed from what the open
transaction has added and signed. Any mixture of migrated and legacy tables is
an initial state.

**DockerStage** is `run_stage`, one action per docker command. A command is
acknowledged, or cut off; then it has had its effect, never will, or is
`pending` and may take effect later. The daemon and the processes are external.

**TwinPair** is the program of `PairRunner` and the judgement, for any of a set of
profiles. A stage returns any `StageResult` that `DockerStage` allows
(`RetainedIsComplete` and `CaptureIsFinal` are the constraints in
`StageResults`), or raises. What is decided on bytes (authenticity of records,
times, snapshots, scope of changes, equal outcomes of the repetitions) is a
nondeterministic Boolean that can only make a verdict worse.

**TwinAttempt** is `TwinRunner.run` and `verify_outcome` around one row of the
attempts table (the operation is its primary key, so rows do not interact) and
the twin records of the journal. The pairs are reduced to a number of stages,
each of which runs under fresh authority or leaves a blocker.

**AgentProcess** is `_run_bounded` with the launch of the child, the start of its
reader (which may fail, outside the `try` that would terminate the child), its
wait, its termination by two signals and the closing of its readers; bytes are
counted, and a process that the child leaves behind may hold the pipe.
**RunLedger** puts `run_once` and `RunStore` on top: several workers, one run id, a
raw file created exclusively and written in parts that the others see, and a
ledger that is locked, read and appended.

MC modules give the constants their values. A definition whose comment starts
with "Mutant:" is a deliberately wrong variant of the definition after it, used
to confirm that the property named with it in `PROJECT.json` can fail.

## Runs

| Run | Instance | Shows |
|---|---|---|
| `publication` | 2 threads, 1 content as CAS source and as Git source of another media type, plain evidence of the same digest, 1 shard that may not exist yet, 1 version, 1 package, 2 captures, 1 approval of lifetime 1; 0.8 M states | `AcknowledgedStays`, `EvidenceStays`, `PublicationsAgree`, `PermitsAreStable`, `AtomsAsReviewed`, `FreshAtCommit` |
| `compiler` | a capsule and two versions of another, 4 atoms, 4 policies, a registry that may refuse each capsule, three families of libraries; a call and its replay; 0.2 M states | `ClosureIsLeast`, `ViewsPreserve`, `ReasonsHold`, `ReplayIsExact`, `DisclosureIsAdmitted`, `CallsReturn` |
| `experiment` | 2 workers, 2 possible outputs, reads of 3 units, limits 3 and 2, a child that writes up to 4, 2 faults; 0.3 M states | `AcceptedIsWhole`, `NothingLeftRunning`, `CountsAreOfKeptBytes`, `OneRecordPerRun`, `CallsEnd` |
| `store` | 1 scope, 2 operations, 2 requests, 2 capsules, 4 candidate preparations that chain, 3 tickets, 2 instants; 0.4 M states | `RowAlwaysVerifies`, `ReceiptsChain`, `ReceiptsAreBound`, `NoSwapUnderLiveProcess`, `ImplementsPointer` (refinement) |
| `controller` | 2 clients, 1 preparation that needs an approval which expires, 2 tickets; 1.0 M states | `CommittedCallsReplay`, `AuthorizedWhenCommitted` |
| `controller_race` | 2 clients, 2 preparations of one operation, 1 ticket, the rollback policy fixed; 97 K states | `AnswersAgree`, `EveryCallEnds` |
| `migration` | 2 openers, 1 interruption; 46 K states | `OpenIsAuthenticated`, `RacesLeaveStoreUsable` |
| `migration_crash` | the same | `InterruptedStoreUsable` is violated, see Findings |
| `docker_stage` | one stage, 3 containers and the volume; 7 K states | `CertainMeansNothingRuns`, `CaptureIsFinal`, `RetainedIsComplete`, `StageEnds` |
| `docker_stage_escape` | the same | `LiveProcessesAreUncertain` is violated, see Findings |
| `twin_pair` | a high-risk profile (3 repetitions, precondition with a probe, 3 post checks, 1 paired check) and a low-risk one (1 repetition, no precondition, a paired check with a probe); 0.8 M states | `CompleteIsEarned`, `ExecutorsNeedPreconditions`, `UncertaintyStopsTheRun`, `AttemptEnds` |
| `twin_attempt` | 2 calls, 2 approvals, 2 configurations, 2 stages; 0.3 M states | `AtMostOneExecution`, `CompletedRowsHaveRecords`, `AnswersAreBound`, `EveryRunEnds` |

Why the bounds are enough to be interesting.

- `publication`: two threads make every pair of steps interleave, on one digest
  with two media types, where the store, the quarantine and the registry could
  be confused. Two captures of a source (`MaxCaptures`) are the least with which
  binding, approval and stored snapshot can disagree; `MaxClock` 1 with
  a lifetime of 1 gives an approval that expires at any point of the way, between
  two checks of the transaction too. The instance starts either with nothing to
  ingest, a shard that is there or not, and three faults (`MaxFaults`: enough for a
  death, a power loss and a change in one behaviour of the content store; system calls
  fail without being counted), or with one source, an existing shard and one fault
  (so that the long way from ingestion to the registry stays small), where capsules without
  atoms are not published besides. Every order of one fault with that way is covered;
  two faults on it are not.
- `compiler`: the families are what capsules may declare about each other, what
  is selected and what fits, and the libraries that are disturbed. Changes happen
  in the last family only: two, of policy, registry, sources, services or locks, under
  each of its libraries, and four (`MaxChanges`) under the small `Sparse`, where the
  policy, and nothing else, goes away and back between the questions of both
  resolutions, with all sources readable or one not. There two policies refuse the
  same atom for different reasons, so that it can pass both questions though neither
  policy admits it; the run reaches such views. A change of a provider during a
  resolution is taken where it changes the answer to the next question, since it
  commutes with the others. Under the first family a call begins with a policy or a
  registry that admits less. A second call (`MaxCalls`) is a replay of the first,
  under the second family and under `Replayed`, which also expands and is changed
  twice.
- `experiment`: the child may write nothing, up to either limit, past both, and past a
  chunk. With `StdoutLimit` 2 a raw file is seen with one of two units written, which is
  the least for a worker to find its whole output in the beginning of another's; two faults (`MaxFaults`) let both workers die or one die and the other's
  write fail; `MaxCalls` 2 is one race or one retry.
- `store`: two operations can each be begun, ended, lost and reconciled, both
  can swap, and a rollback can be followed by an activation from the generation
  it left; three tickets (`MaxTickets`) are a swap, its rollback and a swap of
  the other operation; two instants let tickets and preparations expire
  (`MaxClock`, `MaxTTL`); the second request presents everything in the wrong
  place.
- `controller`: two clients are enough for each pair of steps to interleave.
- The three and the one repetition of the twins are the only numbers that
  `validate/contracts.py` admits. `MaxInterrupts` and `StageCount` are the bounds
  of the migration and of the attempts.

Symmetry is used for threads, clients and preparation ids, which the modules only
compare for equality, and in no run with a liveness property. Deadlock is checked
in `publication`, `compiler` and `experiment`, where the actors always have
something left to do, even at the bounds; elsewhere (`CHECK_DEADLOCK FALSE`) the
bounded tickets and clock run out, or the stage, attempt or open really ends.

### Fairness

Weak fairness is assumed of the next step of one sequential thread only: a
client's call (`controller_race`), the host of a stage, the runner of a pair, a
call of `TwinRunner.run`, the session of `compile_view` and a call of
`run_once`; and, in `compiler`, of the writer that holds a lock. Most of these wait
for no other actor: the store answers or raises after its lock timeout, every docker
command has a timeout, and `reserve` fails rather than waits. Two do wait, in a
`flock` without a timeout: a compilation that asks the registry or reads a source,
for a `put_blob` of the same object (`storage/cas.py:141`, reached from 232), and a call of
`run_once`, for another worker that appends (`experiments/models.py:461`). Both
locks are held over a few system calls that wait for no one, and the kernel releases
them when the holder dies, so `WriterUnlocks` is weakly fair, and the workers of
`RunLedger` are (there load and append under the lock are one step). What the code does not give
is an order among those who wait: writers that came without end could keep a reader
out. `CallsReturn` therefore holds for as many writers as there are changes
(`MaxChanges`). `CallsEnd` also takes it
that the deadline of `_wait_bounded` passes: the clock is monotonic and the loop
polls it. Children, readers, sessions, the daemon, subjects, policies and time
otherwise are under no fairness, and `publication`, whose transactions wait for the
same locks, needs none, as it has only safety properties. One assumption is the operating system's: `subprocess.Popen`
as a context manager waits for a killed client without a timeout, so `StageEnds`
takes it that a killed client is reaped in the end.

## Findings

1. *An interrupted migration locks the database* (`swap/store.py:259`). The
   column is committed by `ALTER TABLE` itself, the signatures only at the end
   of the `with` block. After an interruption in between, the column is there
   with NULL signatures, no later open signs them, and all of them raise
   "runtime action integrity unavailable". ADR 0005:289 asks that a migration
   leave "all existing APIs usable". Run `migration_crash`.
2. *An exception that leaves a stage unrecorded* (`swap/process_io.py:58`). If
   the killed docker client is not reaped within two seconds, `TimeoutExpired`
   passes the handlers of `cleanup` and `run_stage`, which name `OSError` and
   `ValueError`. The caller gets no `StageError`, the retained containers are not
   recorded and the pair is not uncertain, although a container may be running.
   ADR 0005:259: "unknown live processes leave an uncertain action state". Run
   `docker_stage_escape`; the properties of `docker_stage` except `StageEnds` and
   `CaptureIsFinal` exclude this exception.

Behaviour worth knowing, met while modelling. Where a comment or a document reads
otherwise the bullet quotes it; no separate run shows these, the properties named
state what is left:

- *Torn digests* (`storage/cas.py:189`). A writer that dies between the link and
  the sync leaves an entry that may not survive a power loss. A later `put_blob`
  finds the entry, acknowledges it and does not sync it either. The same happens when
  a sync fails and the entry cannot be compared or removed (212-218).
  `AcknowledgedStays` and `EvidenceStays` except these digests (`torn`).
- *Unsynced shards* (`storage/cas.py:187`). `put_blob` makes the directory of a new
  shard (109) and syncs that directory only (210), never `objects/sha256`, which holds
  its entry. Until a file system happens to write the latter, a power loss may take
  the shard with acknowledged and published objects. Both properties except objects
  lost in this way (`uprooted`), and nothing else.
- *Checks within a transaction* (`storage/registry.py:1599`). The policy is asked
  when the transaction begins; then objects are read under a `flock`, Git is asked
  and the package loaded before the insert. The write lock of SQLite keeps none of
  them still: a policy revoked, or an approval expired, between its check and the
  commit does not stop the publication. The comment there speaks of "closing the resolver TOCTOU
  window between preflight and the immutable insert"; it narrows it to the
  transaction, which is what `FreshAtCommit` states.
- *Capsules the registry refuses* (`resolve/eligibility.py:208`). When `registry.get`
  fails for a capsule (a damaged row or object, its read policy), the capsule is
  left out and the compilation goes on to a valid view; only
  `rejected_counts["REGISTRY_INTEGRITY"]` of the manifest tells. Compare
  `docs/protocol/failure-semantics.md:81`, "Return an auditable view with blockers;
  never silently repair a hard failure by removing mandatory information".
  `ViewsPreserve` states what a view
  promises: it is complete for the capsules that were verified, and counts the others.
- *A policy that changes away and back* (`resolve/eligibility.py:343`). `resolve`
  compares the policy before and after, and asks each question (225, 241, 251, 267)
  of the policy then in force; when the policy changes in the same way in both
  resolutions of a call this is not noticed, and a view or a failure may name what only
  the other policy admits, or what neither admits but each in its own question.
  `docs/adr/0005-m5-executable-contracts-and-swap.md:320` makes no promise about
  such policies ("an external mutable policy service without that coordination is
  not an atomicity promise"). `DisclosureIsAdmitted` says what remains: each
  question about what is disclosed had a yes during the last resolution.
- *The time of review* (`audit/quarantine.py:1042`) is compared with the stored
  snapshot only: a bound capture of the same source may be later than the
  approval.
- *Two captures bound to one candidate* can be promoted but not built: the
  evidence records take the ID of the binding (`build/publish.py:465`), which
  leaves out the capture, so two records would have one ID.
- *The destination of a build* is checked with `exists()` and then renamed to
  (`build/publish.py:963`); another build may come in between, and the rename
  then fails.
- *Readers that cannot be started* (`adapters/base.py:268`). `_start_readers` is called
  before the `try` whose `finally` terminates the child; a `RuntimeError` of
  `Thread.start` leaves the child running, never signalled, and `run_once` records a
  failure beside it. `NothingLeftRunning` excepts exactly this error.
- *A raw file that outgrows its counts* (`experiments/run.py:252`). A worker that finds
  the file while another writes it compares its bytes with what is visible; if they
  are the same it records their counts, and the file then grows. `CountsAreOfKeptBytes`
  states that the file still begins with the bytes counted, and holds more only in this case.
- *An unfinished reader* (`adapters/base.py:257`) is given one second and its end
  is not asked for; when a descendant keeps the pipe open the output may be a
  part. `AcceptedIsWhole` is about readers that ended.
- *A death between raw file and record* (`experiments/run.py:484`) leaves a raw
  file that later calls of the run compare with: they are refused unless they
  produce the same bytes. A torn ledger line (`experiments/models.py:488`) makes
  every later load fail. `OneRecordPerRun` and `CountsAreOfKeptBytes` hold
  through both.

## Proofs

Each theorem holds for every value of the constants: any number of scopes,
operations, clients, threads, workers, openers, digests, versions, any graph, and
any bound, so the bounds of the runs are no part of it. The strengthened invariants
named below also hold, with TLC, on the instances of the runs, except `Collected` and
`ReplayInv`, which speak of all worlds, manifests or sets of states and are only
proved.

`RuntimeStoreProofs`:

- `TypeCorrect`: `Spec => []TypeOK`.
- `RowsNeverLock`: `Spec => []RowAlwaysVerifies`. `RowVerifies` is not inductive:
  it looks at the latest action only, and after that one ends nothing would be
  known of the others. `SessionInv` adds that the epochs number the actions
  (none above the row's epoch, no two equal), that every action which is not
  idle is the latest one, that the latest carries the row's state, and that a
  scope without a row has no actions. "Effect" lemmas (`BeginEffect`, ...) say
  once what an action writes; one lemma per action then keeps `SessionInv`.
- `ReceiptsAreHistory`: `Spec => []ReceiptsChain`. The chain is inductive with
  the types and `AbsentAtZero` (a scope without a row is at generation 0).
  `ChainAppend` is the core: a receipt that starts from the active binding and
  generation extends the history of its scope and leaves the others alone.
- `ReceiptsStayBound`: `Spec => []ReceiptsAreBound`. `ReceiptsAreAnchored` makes it
  inductive: the action and the preparation that a receipt names exist, hence no
  later begin and no later save writes them anew.
- `SwapsAreQuiet`: `Spec => NoSwapUnderLiveProcess`, an action property, by
  `ProcessInv`: a process that may be alive has an open action (`LiveIsOpen`),
  and one with a termination proof is dead (`ProvedIsDead`), which is what allows
  a reconciliation to close its action.
- `StoreImplementsPointer`: `Spec => ImplementsPointer`, the refinement. Every
  commit maps to Replace or Undo, initialisation to Place, all else to a stutter.
  It needs `OnceInv` (an operation has one receipt of each kind, and a rollback
  undoes one of its own operation) and `PlacedInv` (a scope points to a capsule
  exactly if it was initialised).

`SwapControllerProofs` (on top of these):

- `ControllersUseTheStore`: `ControlSpec => Spec`: a step of a client is a call of the
  store or leaves its tables alone. Everything proved of the store therefore
  holds under any number of clients that race, crash and call again, as
  `ControllersImplementPointer` spells out for the refinement.
- `ReplayIsCrashSafe` and `RacersAgree`, the invariants `CommittedCallsReplay` and
  `AnswersAgree`. `ControlInv` says of each call what it knows by where it is
  (`CallOK`): the record it loaded is the stored one, what was durable when it
  began has been found, and its answer is a receipt for what was asked. As
  receipts are only added at the end, the calls of the others stay sound.
- `NoStaleAuthority`: `ControlSpec => AuthorizedWhenCommitted`, an action property.

`StoreMigrationProofs`, from any mixture of migrated and legacy tables:

- `OpenStoreIsAuthenticated`: `OpenIsAuthenticated`, interruptions included.
  `MigrationInv` says that what an opener is through with is present and signed in
  the database it sees (`PassedIsDone`), that only the opener which added a column
  signs it (`OneSigner`), and what an open transaction holds (`WriterAhead`).
- `RacingOpensLeaveStoreUsable`: `RacesLeaveStoreUsable`. The core is
  `FinderHasSignedNothing`: an opener that raises because it found an unsigned row
  takes no signature of its own back, since the column it found is another's and
  that one must have passed all earlier columns first.

`PublicationProofs`:

- `ContentStoreKeeps`: `CasSpec => []AcknowledgedStays`, and `AcknowledgedIsKept`,
  the same of the whole `Publication`, because every step of it is a step or a
  stutter of the content store (`StepsAreCasSteps`). The property is not
  inductive: `CasInv` adds that one writer holds the lock of a digest
  (`Exclusive`), that an entry not synced has a writer about to sync it or is
  torn (`Durable`), that what a writer writes or may still take back was never
  acknowledged, or had been lost before as torn or uprooted (`Unacknowledged`), and that what it has linked is its own (`LinkedIsOwn`).
- `OnePublicationPerVersion`: `Spec => []PublicationsAgree`, by
  `ReturnedIsStored`: whatever was returned is the stored row, and rows are never
  replaced.
- `PublishedAsReviewed`: `Spec => []AtomsAsReviewed`, by `WayInv`, which carries
  the agreement of evidence and approval along the whole way, through the
  packages and drafts and the jobs of the threads, and not only at its end.
- `PublishedFresh`: `Spec => FreshAtCommit`, an action property: whatever happened
  since preflight, permit and build, policy, approvals, Git sources and package were
  each good at a moment between begin and commit of the transaction that inserts.
  This spans steps of all actors: `CheckedInv` says that one transaction is open at
  a time, that `during` is what it has seen, and of each check that has passed in
  which world seen so far it did (`Found`, which later worlds do not undo,
  `FoundStays`).
- `PublishedEvidenceStays`: `Spec => []EvidenceStays`. That the object is there is
  not enough: `EvidenceSafe` says that it is on disk and that no writer holds its
  lock, so no one can take it back, unless the digest is torn or uprooted, and
  `CasInv` keeps later writers from linking over it. The same is said of every object
  that an open transaction has read (`ReadSafe`), as the commit comes later. `SourcedInv` says that all evidence on the way is that of known sources.
- `RetriesAreReplays`: `Spec => []PermitsAreStable`. `StoreInv` keeps a snapshot that
  a candidate was made of (`CandidatesKept`: its author and capture time do not
  change while the process lives); `PermitInv` says that every permit, in a job or
  in a row, quotes these. Two permits of one process and capsule then agree entry
  by entry (`EntriesAgree`).

`RunLedgerProofs`:

- `AcceptedOutputIsWhole` and `CallsLeaveNothingRunning`, for any limits and
  chunk, by `ProcInv`: per child, what the reader has read and kept of what was
  written, which signals were sent before the call goes on, and what a returned
  verdict rests on.
- `RecordsCountKeptBytes` and `RunsHaveOneRecord`, by `LedgerInv`: the worker that
  created the raw file is the only one that writes it, and what is there so far
  begins its data (`WriterOK`); what a worker about to append has counted begins the
  file, and is all of it unless it was compared with a file still growing (`AppendOK`,
  `Backed`), and the ledger is empty, one record or one torn line
  (`StoreOK`).
- `CallsGoForward`: each place of `run_once` and of the thread that waits for the
  child has a number (`CallNo`); every step of a call, its deadline included, lowers it or
  leaves less of the raw file to write, and no child, reader or other worker raises
  either. As `_close_readers`
  terminates a child for the second time, this needs `ClosedOnce`: closing is
  entered once, so the two rounds of signals never become a circle.

`DockerStageProofs`:

- `CertainStagesAreQuiet`, `CapturesAreFinal` and `StagesReportWhatTheyKeep`, the
  three safety properties of the stage, by `StageInv`. Its parts follow the commands
  that are pending: none while the stage prepares, no creation pending once the
  stage went on to start (`PendingOK`); a container that is not listed is gone and
  nothing pending brings it back (`ListedOK`); once inspect has seen the subject
  exited no start of it is pending (`SubjectOK`). Removal of the first match and
  reversal of the list of names have lemmas of their own (`RemovedFrom`,
  `ReverseOf`).
- `StagesGoForward`: a step issues a later command of the stage, removes a further
  container, or is one of the daemon that leaves fewer pending commands or running
  processes. So no command is issued twice, and what is executed late ends.

`TwinProofs`:

- `AttemptTypeCorrect`, and from it `AttemptInvariant`: at most one execution, an
  execution has left a row, a completed row has its record, and `CallInv`, what
  holds of a call by where it is. The second part is what makes the first
  inductive: the row never goes away, so `reserve` never finds the key free
  again.
- `ExecutedOnce`, `RecordsComeFirst` and `AnswersBelong` follow from it.
- `CompletionIsEarned`, `ExecutorsAreGuarded` and `UncertainStagesStopTheRun`, for any
  profile, by `PairInv`: every fault and everything reported uncertain has become a blocker
  (`FaultsAreBlockers`), and what the preconditions allowed still holds when the
  new executor starts (`DecidedOnce`). The latter needs that no later check
  overwrites what a precondition observed (`CapturesKeepPreconditions`), which is
  why `_check_coverage` must refuse duplicate check IDs (`ProfilesAreProfiles`).
- `AttemptsGoForward`: a step of the pairs begins a further repetition that the profile
  asks for, or goes to a later part, check or probe of it.
- `UncertaintyIsReported`: that a stage was reported uncertain is never forgotten, and
  the manifest of such an attempt can be `UNCERTAIN` only. Both speak of what a stage
  reports; a `TimeoutExpired` that escapes from it (second finding) is no report, and
  the run goes on beside what it has left.

`CompilerProofs`:

- `ClosureCorrect`: `ClosureSpec => []ClosureIsLeast`. The loop invariant `LoopInv`
  says that the edges of every node that has left the list lead into `closed`, and
  that every closed set around the seeds contains `closed`; an empty list leaves
  the least closed set.
- `ClosuresAreLeast`: the same within `compile_view`, `Spec => []ClosureIsLeast`,
  since the graph that `resolve_graph` makes of any admitted capsules is one over
  the nodes (`GraphIsTyped`).
- `NothingElseIsDisclosed`: `Spec => DisclosureIsAdmitted`. `Collected` says that every
  question a running resolution has passed so far is passed in a world seen since its
  snapshot; whatever is not withheld is returned when that resolution equals the
  admission (`AdmittedIsVouched`).
- `EveryViewPreserves` and `EveryReasonHolds`: `SelectionInv` follows the selection
  through its rounds. `Stage` says which steps a round has, `Mandatory` what the
  rounds that are over have brought, `Final` that the closure of the last check
  still stands when the view is returned. If one world only was seen, a question that
  was dropped fails in it, or an earlier one does (`Dropped`), so that the resolution
  is what this world admits, and its refusals by the registry are counted
  (`OneWorld`). `ReasonsFor` says that an atom once found
  over budget is so in every selection that contains this one (`OverBudget`), which
  only the leastness of the closure shows (`NoSmaller`, `DoesNotFit`); a growing
  selection keeps it (`GrownReasons`). Each action has a lemma that it keeps the
  invariant and discloses nothing else (`Kept`).
- `ReplaysAreExact`: `Spec => []ReplayIsExact`, a statement about two runs of the
  selection. One turn is taken as a relation between states of the selection
  (`SelectStep`). The least closure is unique (`LeastIsOne`) and so is the first
  candidate (`FirstIsOne`, as no two atoms have one ranking), hence a state has one
  successor (`OneStep`). What a state leads to is defined without recursion, as what
  belongs to every set that holds it and is closed under the relation (`Leads`);
  that its end is unique (`OneEnd`) then needs no induction, and an admission with
  its services has one manifest (`OneManifest`). `ReplayInv` says that the running
  selection, and each returned manifest, is one that the admission leads to. In
  addition `FirstExists`: of any candidates one comes first, so the choice never
  blocks.
- `ClosureTurnsAreBounded`: each turn of `dependency_closure` settles a node for good,
  on cyclic graphs too, so there are no more turns than nodes.
- `CallsComeNearer`: each step of `compile_view` lowers the place that is left
  (`Distance`), at the same place the number of candidates not tried (`Untried`), or
  else the work of the place (`Left`: questions to ask, sources to read, nodes not settled); a change of policy,
  registry, sources or services, or a writer that takes or gives back its lock, raises
  none of them.

Assumptions on constants are `ASSUME`s of the modules that declare them, and TLC
evaluates them in the runs. They say that bounds are natural numbers, that the
sets of records hold records of their kind (`LibrariesAreLibraries`: published
names are names of atoms and capsules, and what a request lists is finite), that the
names are finitely many and atoms are ranked by different numbers (`NodesAssumption`,
`RanksAreNumbers`: a ranking is a list in which every atom has one place), that
every digest has a shard (`DigestsHaveShards`), and that
the value for "none"
(`None`, `NoOne`) is none of the values it is told apart from (`NoneIsNoValue`,
`NoneIsNoMedia`, `PoliciesArePolicies`, `NoneIsNoSnapshot`, `NoneIsNoRecord`, `NoOneIsNoOpener`). The
type invariants of the store and of the attempts are proved and not
model-checked again.

Only model-checked: the liveness properties (`EveryCallEnds`, `StageEnds`,
`AttemptEnds`, `EveryRunEnds`, `CallsReturn`, `CallsEnd`), since the prover handles
neither fairness nor ENABLED. What they rest on besides fairness, that every step
goes forward in a finite order, is proved where the code has loops (`CallsComeNearer`,
`ClosureTurnsAreBounded`, `AttemptsGoForward`, `StagesGoForward`, `CallsGoForward`); the calls of
`EveryCallEnds` and `EveryRunEnds` are straight lines, but for the counted stages of an
attempt. That a step forward is
possible at every place is left to TLC. No recursive operator is used.

## Not modelled

- The reads of `RuntimeStore.get` and `issue_reconciliation` are several SELECTs
  outside a transaction; the model reads atomically. Every write signs the scope
  and its actions anew, so a torn read is refused, never believed.
- Cryptography and bytes: HMACs, digests, canonical JSON, tar and git trees. A
  signature is taken to be unforgeable and a digest to identify its value.
- The removal of a stage's temporary directory.
- A source is read in one step by the ingestion. The compiler reads one in one step
  too, but with every outcome that a change of policy or registry in its middle could
  give (`Wavers`).
- The temporary files that a dead writer leaves in a shard, and the directories of
  locks: neither is read by anyone.
- `Registry.get` in **Publication** is one step: rows do not change, and it returns
  the row. That its objects are asked for one by one matters to the compiler only
  through its answer, which there may change at any time.
- `ProcessAgentAdapter.run` itself refuses benchmark tasks, so `RunLedger` takes
  an adapter that delegates to it.
- Version constraints, scope predicates, ranking and tokenizing enter the
  compiler as their results; text of views and layout of packages not at all.
- Components without a module: pydantic models and canonical JSON, the second
  statement of the algebra in `formal.py` (used by tests), package loader,
  renderers and input checks, twin inputs, pure validation, spec lock, baselines
  and benchmark loading are functions of their input that keep no state; the MCP
  server dispatches one request at a time to components that are modelled.

## Plan

Done: the modules above and the proofs of all their safety properties. What could
follow is a model of the reads that `RuntimeStore.get` makes outside a transaction, and
of the temporary directory of a stage; both are listed among the hazards.
