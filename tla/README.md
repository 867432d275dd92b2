# TypeBridge migrations in TLA+

TypeBridge keeps a schema in a Split-YAML workspace, generates SDKs from it and
migrates TypeDB databases to it. The part of the repository where steps of
several processes, two databases and lost replies meet is the migration
executor, and it is what these modules specify. Paths below are relative to
`src/type-bridge-core/crates/`.

## The system

A migration scope is a pair of databases. The *journal* database holds the
authoritative lease row (fence, holder label, state, sequence) and the journal
records. The *managed* database holds the schema and data being migrated, and a
*mirror* of the fence. No transaction spans the two. A coordinator process

1. acquires the lease: a conditional write to the lease row with the next fence,
   then a conditional write of the same fence to the mirror. A held lease can be
   taken over at any time; nothing expires, fences only grow;
2. loads the applied ledger and the open plan, and validates or opens the plan;
3. takes each operation (a schema group or a backfill) through journal events:
   `BeforeCommit`, the provider commit, then `Committed`, `DefinitelyAborted` or
   `CommitOutcomeUnknown`;
4. adds each finished migration to the ledger, the last one with the deletion of
   the plan and its events;
5. releases the lease row, then the mirror.

### Inventory

| Part | State | Operations | What is hard |
| --- | --- | --- | --- |
| lease (`schema-migration-typedb/src/store.rs`, `lease_plan.rs`) | lease row, mirror row | acquire, release, take over | races in two databases, lost replies settled by a read, commits landing late |
| journal (`store.rs`, `schema-migration/src/execution.rs`) | record rows, sequence | begin plan, record event, record applied, load | appends that fail and land, records of superseded leases |
| provider (`provider.rs`, `backfill.rs`) | schema, rows, transactions | observe, prepare, commit, batches | fence read and commit apart, unknown commits, partial backfills |
| recovery (`execution.rs`) | none | decide for group and backfill, validate transitions | telling a commit that happened from one that did not |
| coordinator (`coordinator.rs`) | one invocation's locals | apply, rollback | dying or being superseded anywhere |
| database pairs (`store.rs`) | two databases, owner row | create, inspect, delete | one of two steps done |
| staged transactions (`orm/src/session/staged.rs`) | staged plans, commit state | stage, commit, roll back | a commit cancelled after it was sent |
| query server (`server/src/transport`) | nonce reservations, slots | reserve, expire, serve | replays, capacity, deadlines |
| publication (`workspace/src/authority.rs`) | files, sidecars | publish batch, roll back | failing in the middle, files changing underneath |

Planning, lowering, manifests, the schema model, the query compiler, the ORM's
hydration, the code generators and the language bindings transform documents
and hold no shared state. `PROJECT.json` lists every part with its status.

## The modules

| Module | Models | Lives on |
| --- | --- | --- |
| `MigrationLease` | lease, mirror, journal rows and provider transactions, in the steps the store takes | `store.rs`, `lease_plan.rs`, `provider.rs` |
| `FencedLease` | what the store promises: the abstract lease | the traits in `execution.rs` |
| `MigrationRecovery` | the recovery decisions and the event automaton, as operators | `execution.rs`, `coordinator.rs` |
| `MigrationCoordinator` | invocations of the apply coordinator over `FencedLease`, with the schema and the rows | `coordinator.rs`, `store.rs`, `provider.rs` |
| `MigrationPlan` | what applying a plan means | the plan of `apply_plan.rs` |
| `MigrationLeaseProofs` | theorems about `MigrationLease` | |
| `MCMigrationLease`, `MCMigrationCoordinator` | small instances | |

They compose by refinement. `MigrationLease` implements `FencedLease` under the
mapping `Promised`; `MigrationCoordinator` extends `FencedLease`, so it sees
exactly the lease the store was shown to provide; and it implements
`MigrationPlan` under the mapping `Plan`.

The first refinement has a premise, distinct holder labels, and every result
about coordinators inherits it. The store does not enforce it and the command
line does not provide it: each of its processes uses the label
`type-bridge-cli` (`cli/src/lib.rs`). The coordinator results are therefore not
shown for command-line processes that run at the same time; `lease_shared_label`
exhibits how such processes come to share a fence.

**MigrationLease.** `phase[c]` is where a coordinator is in acquire and release,
`seen[c]` the operands of its next conditional write, `lease[c]` its fence.
`ObserveControl` and `AcquireAuthoritative` are the two halves of
`acquire_authoritative`, `ObserveMirror` and `PublishManagedFence` those of
`publish_managed_fence`, and the `Settle...` actions are `settled_exists`. A
commit whose reply is lost has landed, never lands, or waits in `late` or
`lateMirror`; it can still land only while the row it matched is unchanged,
because TypeDB rejects the second writer of a row. `Crash` ends a coordinator
anywhere and leaves its transactions open until the server drops them.

**TypeDB** is external and modelled as `docs/guide/concurrency.md` describes it:
a transaction reads one snapshot, reads are not validated at commit, two
commits that write the same row conflict, and a schema transaction excludes
schema and write transactions from its opening on. Write transactions do not
exclude each other.

**MigrationCoordinator.** The plan is the sequence `Program` of groups,
backfills and checkpoints. `run[c]` holds the invocation: the point it has
reached, its position, the loaded last event of that position, the cached
observation, and whether a batch has committed. `Record` is a journal write: its
error says nothing about whether it landed, since appends are not settled. An
observation is one step because the transaction it runs in is exclusive (schema)
or one snapshot (backfill). A group's transaction stays open from
`PrepareGroup` to `CommitGroup`, with the `BeforeCommit` append in between; a
commit with a lost reply is decided later by `ServerEnds`, and a rollback with a
lost reply leaves a transaction that `ServerEnds` can only drop. `drifts` holds
the managed fence at each schema change by somebody else.

Abstractions: a managed schema state is one value, so a change of declared
identity alone is not told from no change; assertions, statements and
destination conflicts are steps that may fail (`Interrupt`, `ObserveFails`);
the two journal reads of `Load` are one step, since both require the active
lease; the read of the postcondition that follows the last batch is merged
with the empty batch, since rows are never emptied. The rows a backfill has to
fill are fixed: rows that others add while a plan is open are outside the model.
A transaction that only observes ends with its step; when its close is not
acknowledged it would linger like an unanswered rollback, which the model has.

## The runs

| Run | Instance | Shows |
| --- | --- | --- |
| `lease` | 2 coordinators, 3 fences, 2 appends, 2 faults | the safety properties of the lease |
| `lease_refines` | the same, 1 append | `MigrationLease` implements `FencedLease` |
| `lease_shared_label` | 2 coordinators, one label | violated: the same fence twice |
| `coordinator` | 2 coordinators, 2 schema migrations, 3 invocations, 2 faults | journal resumable, recovery decidable, write-ahead, plan refinement |
| `coordinator_backfill` | a two-batch backfill and a formal-only group | the same for backfills |
| `coordinator_drift` | as `coordinator`, 1 fault, 1 foreign schema change | resumable, no change from a wrong source, and no observation that outlives its lease |
| `coordinator_live` | 1 coordinator, 2 faults, 3 invocations | the plan is eventually applied |
| `retry_safe_backfill` | a group and a backfill | violated: `RetrySafe` that cannot be retried |
| `stale_backfill_batch` | 2 coordinators, a backfill, no fault | violated: a batch commits under a stale fence |

*Bounds.* Three fences allow a takeover of a takeover: an old holder, one that
was superseded while acquiring, and the current one. Two faults allow a lost
reply whose settlement or recovery fails as well. `MaxSequence` is reached in
`lease`, so that exhaustion happens there, and `TypeOK` and `JournalOrdered` of
`MigrationLease` are what bounds it; in the coordinator runs it is never
reached. Two batches of one row make a backfill stop before, between and after
its commits. Coordinators are interchangeable, so the passing safety runs use symmetry.

*Fairness* is used by `coordinator_live` alone. Weak fairness of each
coordinator's steps says that a process that can go on does, and that whoever
runs the plan runs it again after a failure; weak fairness of `ServerEnds` says
that TypeDB ends the transactions of dead clients. The faults are finite, and
the bound on fences makes the run show more: `MaxFaults + 1` invocations are
enough. A plan with backfills has no such property, by design: a begun backfill
that is found incomplete waits for a person.

*Deadlock* is checked in every run. An idle coordinator that finds the fences
exhausted stutters, as the code returns an error each time.

*Foreign changes.* The lease fences coordinators, not other clients. A group
compares the schema with its source again inside its own transaction, so that a
stale observation never leads to a change. The manifest checkpoint compares only
the cached observation: a migration can enter the ledger although somebody has
changed the schema since. `LedgerStaleWithinLease` bounds this. It happens only
when the change came under the fence of the entry itself, because an invocation
that resumes a plan observes the schema anew.

### What the violated runs show

- **Shared labels.** `settled_exists` asks whether the row has the fence, the
  label and the state this process wrote. Every process of the command line uses
  the label `type-bridge-cli`, so the row of another process that won the same
  fence answers yes. A process that loses the reply of its takeover and then that
  of its mirror publication believes it holds the other's lease, and both act
  under one fence. With one lost reply it stops at the check of the mirror's fence
  or at its failed write. With distinct labels the property holds, and is proved.
- **RetrySafe.** A backfill that fails before its first batch is recorded as
  `DefinitelyAborted`. When that record fails too, the invocation still reports
  `RetrySafe`, but the journal ends in `BeforeCommit`, and an incomplete backfill
  with that event requires explicit recovery.
- **Stale batches.** The exclusion that fences schema transactions does not hold
  between write transactions. A batch whose fence check came before a takeover's
  publication commits after it. `AppliesThePlan` still holds: the superseding
  coordinator finds the backfill begun, and goes on only once every row is filled.

## The proofs

`MigrationLeaseProofs` proves, for any coordinators, labels, payloads and bounds
(`HolderAssumption`, `BoundAssumption`):

| Theorem | Property |
| --- | --- |
| `TypeCorrect` | `TypeOK` |
| `MirrorLags` | `MirrorBetweenLeaseAndControl` |
| `SchemaFenced` | `SchemaTransactionFenced` |
| `JournalStaysOrdered` | `JournalOrdered` |
| `ResumedJournalStaysFinal` | `ResumedJournalIsFinal` |
| `DistinctLabelsIssueGreaterFences` | `AcquireIssuesGreaterFence`, assuming `DistinctHolders` |

`TypeOK` needs `SeenInRange` beside it: an observed fence has a successor. The
other properties are not inductive either. `FenceInv` adds what holds between
the steps: commits in flight never lower a fence, those to the mirror carry a
fence the control row has reached, a coordinator about to publish saw an older
mirror, and a schema transaction is the only transaction, with no mirror commit
in flight. `JournalInv` says of every commit in flight that its rows are ordered
and that it starts from the current control row or an older one, so that landing
it keeps the order and adds rows of the current fence only. `UniqueInv` says that
no two coordinators won one fence and that a held newest fence carries the label
of the one that won it; the settled reads need it, and it is false with a shared
label. The induction steps go action by action.

Model-checked only: the refinements, the coordinator's properties and liveness.
Liveness under fairness is outside the prover's reach.

## Not modelled yet, in this order

1. `MigrationRollback`: rollback plans over the same lease and decisions, and an
   apply that meets an open rollback plan.
2. `DatabasePair`: creation, concurrent bootstrap, inspection and journal-first
   deletion; then the legacy import.
3. `StagedTransaction` and `RemoteReplay`: one commit per staged transaction
   through the proxy, nonce reservation and expiry in the server.
4. `AtomicBatch`: publication of generated files, with rollback refining
   all-or-nothing.
5. Proofs: type correctness, `OpenPlanResumable` and `SchemaChangesWriteAhead` of
   the coordinator, and the step simulation of `FencedLease` by
   `MigrationLease`.

Left out for good: profile-bridge manifests and resource limits of an invocation
(control that changes no shared state), wire encodings, schema observation
from exported text, and the V1 engine that these migrations replace.
