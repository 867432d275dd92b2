------------------------ MODULE MigrationCoordinator ------------------------
(***************************************************************************)
(* Coordinators that apply one verified plan under fenced leases.          *)
(*                                                                         *)
(* A coordinator acquires a lease, loads the journal, opens the plan or    *)
(* resumes it, takes every operation through its write-ahead events, adds  *)
(* each finished migration to the applied ledger and releases the lease.   *)
(* It may fail, lose replies or be superseded between any two steps.       *)
(*                                                                         *)
(* The lease, the journal and the provider transactions are those of       *)
(* FencedLease; the schema and the rows they change are added here.        *)
(*                                                                         *)
(* Sources: schema-migration/src/coordinator.rs, and the store and         *)
(* provider of schema-migration-typedb that it calls.                      *)
(***************************************************************************)
EXTENDS FencedLease, MigrationRecovery, SequencesExt

CONSTANTS
    Program,    \* the plan: groups, backfills and checkpoints in manifest order
    Row,        \* the rows every backfill has to fill
    BatchRows,  \* largest number of rows in one backfill transaction
    State,      \* managed schema states
    NoState,    \* nothing observed yet
    MaxFaults,  \* bound on lost replies, interruptions and crashes
    MaxDrifts   \* bound on schema changes by others

Positions == 1 .. Len(Program)
IsGroup(p)      == Program[p].kind = "group"
IsBackfill(p)   == Program[p].kind = "backfill"
IsCheckpoint(p) == Program[p].kind = "checkpoint"

\* The last checkpoint makes the whole plan applied.
ASSUME ProgramAssumption ==
    /\ Len(Program) > 0
    /\ IsCheckpoint(Len(Program))
    /\ NoState \notin State
    /\ \A p \in Positions : {Program[p].source, Program[p].target} \subseteq State

VARIABLES
    schema,   \* managed database: the live schema state
    done,     \* managed database: the rows each backfill has filled
    run,      \* what each coordinator's invocation knows
    faults,
    drifts    \* the managed fence at each schema change by others

managed == <<schema, done>>
bounds  == <<faults, drifts>>
vars    == <<fencedVars, schema, done, run, faults, drifts>>

\* pc: the point of execute_under_lease; at: the position in the plan; last: the
\* last loaded event of that position; obs: the variable "observed"; batched:
\* whether this execution of a backfill has committed a batch.
Idle == [pc |-> "idle", fence |-> 0, at |-> 0, last |-> "none",
         obs |-> NoState, batched |-> FALSE]

Points == {"idle", "publish", "load", "begin", "plan", "step",
           "formal", "prepare", "before", "rollback", "commit", "verify",
           "committed", "aborted", "unknown", "reobserve",
           "batch", "batchCommit", "applied", "retrySafe", "explicit", "error", "complete", "freeing"}

\* A coordinator's invocation has its outcome and only the release is left.
Outcome == {"retrySafe", "explicit", "error", "complete"}

TypeOK ==
    /\ schema \in State
    /\ done \in [Positions -> SUBSET Row]
    /\ run \in [Coordinator ->
          [pc : Points, fence : 0 .. MaxFence, at : 0 .. Len(Program),
           last : EventKind \cup {"none"}, obs : State \cup {NoState},
           batched : BOOLEAN]]
    /\ journal \subseteq [fence : 1 .. MaxFence, sequence : 1 .. MaxSequence,
                          payload : [at : 0 .. Len(Program),
                                     kind : EventKind \cup {"plan", "applied"}]]
    /\ faults \in 0 .. MaxFaults
    /\ drifts \in BoundedSeq(0 .. MaxFence, MaxDrifts)

Init ==
    /\ FencedInit
    /\ schema = Program[1].source
    /\ done = [p \in Positions |-> {}]
    /\ run = [c \in Coordinator |-> Idle]
    /\ faults = 0
    /\ drifts = <<>>

-----------------------------------------------------------------------------
(* Reading the journal. *)

PlanRows(rows) == {r \in rows : r.payload.kind = "plan"}
EventRows(rows, p) ==
    {r \in rows : r.payload.at = p /\ r.payload.kind \in EventKind}
IsApplied(rows, p) ==
    \E r \in rows : r.payload.at = p /\ r.payload.kind = "applied"

\* The events of one position in sequence order.
Events(rows, p) ==
    LET ordered == SetToSortSeq(EventRows(rows, p),
                                LAMBDA r, s : r.sequence < s.sequence)
    IN [i \in 1 .. Len(ordered) |-> [kind |-> ordered[i].payload.kind,
                                     fence |-> ordered[i].fence]]

LastEvent(rows, p) ==
    LET events == Events(rows, p)
    IN IF events = <<>> THEN "none" ELSE Last(events).kind

Complete(rows, p) == IF IsCheckpoint(p) THEN IsApplied(rows, p)
                     ELSE LastEvent(rows, p) \in Completion

\* Where an invocation resumes: every earlier position is skipped.
FirstIncomplete(rows) ==
    CHOOSE p \in Positions : /\ ~Complete(rows, p)
                             /\ \A q \in 1 .. p - 1 : Complete(rows, q)

\* OpenPlanRecord::from_store_with_backfills and validate_open_plan: one plan
\* row, older than its events and than the applied records; fences that never
\* decrease; every position a valid commit history; progress a prefix.
OpenPlanValid(rows, fence) ==
    \E plan \in PlanRows(rows) :
        /\ PlanRows(rows) = {plan}
        /\ plan.fence <= fence
        /\ \A r \in rows \ {plan} : plan.sequence < r.sequence
        /\ \A r, s \in rows :
              r.sequence < s.sequence /\ r.payload.kind # "applied"
                 /\ s.payload.kind # "applied" => r.fence <= s.fence
        /\ \A p \in Positions : ValidTransitions(Events(rows, p))
        /\ \A p \in Positions : \A q \in 1 .. p - 1 :
              (EventRows(rows, p) # {} \/ IsApplied(rows, p)) => Complete(rows, q)

-----------------------------------------------------------------------------
Fault == /\ faults < MaxFaults
         /\ faults' = faults + 1
         /\ UNCHANGED drifts

\* The invocation moves on to another point, or forgets everything.
Goto(c, point) == run' = [run EXCEPT ![c].pc = point]
Reset(c)       == run' = [run EXCEPT ![c] = Idle]

At(c)   == Program[run[c].at]
Here(c) == run[c].at

\* The current position is finished: `observed` becomes its target.
Advance(c, obs) ==
    run' = [run EXCEPT ![c].pc = "step", ![c].at = @ + 1, ![c].last = "none",
                       ![c].obs = obs, ![c].batched = FALSE]

\* A journal write needs the active lease and, but for the plan itself, an open
\* plan; a plan needs that there is none; a ledger entry is written once.
MayRecord(c, payload) ==
    /\ CanAppend(c)
    /\ (payload.kind = "plan") <=> (PlanRows(journal) = {})
    /\ payload.kind = "applied" => ~IsApplied(journal, payload.at)

\* Its error says nothing about what landed: appends are not settled.
Record(c, payload, retired, onOk, onErr) ==
    /\ \/ /\ MayRecord(c, payload)
          /\ AppendRecord(c, payload, retired)
          /\ onOk
          /\ UNCHANGED bounds
       \/ /\ MayRecord(c, payload)
          /\ Fault
          /\ AppendRecordUnknown(c, payload, retired)
          /\ onErr
       \/ /\ ~MayRecord(c, payload)
          /\ onErr
          /\ UNCHANGED <<fencedVars, bounds>>
    /\ UNCHANGED managed

RecordEvent(c, kind, onOk, onErr) ==
    Record(c, [at |-> Here(c), kind |-> kind], {}, onOk, onErr)

\* observe_managed_state opens an exclusive schema transaction, observe_backfill
\* a write transaction; each checks the fence in it and then lets go of it.
MayObserve(c) == HoldsMirror(c) /\ IF IsBackfill(Here(c)) THEN AdmitsWrite
                                                         ELSE AdmitsSchema

Read == UNCHANGED <<fencedVars, managed>>

\* A fence that moved on, or a read that fails.
ObserveFails(c) == \/ ~HoldsMirror(c) /\ UNCHANGED bounds
                   \/ Fault

-----------------------------------------------------------------------------
(* acquire *)

Acquire(c) ==
    /\ run[c].pc = "idle"
    /\ TakeOver
    /\ run' = [run EXCEPT ![c] = [Idle EXCEPT !.pc = "publish",
                                             !.fence = control.fence + 1]]
    /\ UNCHANGED <<managed, bounds>>

FenceExhausted(c) ==
    /\ run[c].pc = "idle"
    /\ control.fence = MaxFence
    /\ UNCHANGED vars

\* The published fence is answered, or found settled after a lost reply; a
\* newer one is an error.
PublishFence(c) ==
    /\ run[c].pc = "publish"
    /\ \/ PublishAndIssue(c, run[c].fence) /\ Goto(c, "load")
       \/ /\ mirror.fence = run[c].fence
          /\ IssuePublished(c)
          /\ Goto(c, "load")
       \/ /\ mirror.fence >= run[c].fence
          /\ mirror # [fence |-> run[c].fence, held |-> TRUE]
          /\ Reset(c)
          /\ UNCHANGED fencedVars
    /\ UNCHANGED <<managed, bounds>>

-----------------------------------------------------------------------------
(* execute_under_lease: load the journal, resume or begin the plan. *)

\* Mutant: a resumed invocation takes the schema to be where the journal left it.
LoadTrusting(c) ==
    /\ run[c].pc = "load"
    /\ LET resumes == HoldsControl(c) /\ PlanRows(journal) # {}
                         /\ OpenPlanValid(journal, issued[c])
           begins  == HoldsControl(c) /\ journal = {}
           p       == FirstIncomplete(journal)
       IN \/ resumes /\ run' = [run EXCEPT ![c].pc = "step", ![c].at = p,
                                           ![c].last = LastEvent(journal, p),
                                           ![c].obs = Program[p].source]
          \/ begins /\ run' = [run EXCEPT ![c].pc = "begin", ![c].at = 1]
          \/ ~resumes /\ ~begins /\ Goto(c, "error")
    /\ Read /\ UNCHANGED bounds

\* load_applied and load_open_plan each require the active lease, so that no
\* record can appear between them.  A plan for an unapplied history is refused
\* once the ledger has entries (PlanRecord::from_verified_plan).
Load(c) ==
    /\ run[c].pc = "load"
    /\ LET resumes == HoldsControl(c) /\ PlanRows(journal) # {}
                         /\ OpenPlanValid(journal, issued[c])
           begins  == HoldsControl(c) /\ journal = {}
           p       == FirstIncomplete(journal)
       IN \/ resumes /\ run' = [run EXCEPT ![c].pc = "step", ![c].at = p,
                                           ![c].last = LastEvent(journal, p)]
          \/ begins /\ run' = [run EXCEPT ![c].pc = "begin", ![c].at = 1]
          \/ ~resumes /\ ~begins /\ Goto(c, "error")
    /\ Read /\ UNCHANGED bounds

\* The live source is observed; PlanRecord::from_verified_plan refuses another.
Begin(c) ==
    /\ run[c].pc = "begin"
    /\ \/ /\ HoldsMirror(c) /\ AdmitsSchema
          /\ IF schema = Program[1].source
             THEN run' = [run EXCEPT ![c].pc = "plan", ![c].obs = schema]
             ELSE Goto(c, "error")
          /\ UNCHANGED bounds
       \/ ObserveFails(c) /\ Goto(c, "error")
    /\ Read

BeginPlan(c) ==
    /\ run[c].pc = "plan"
    /\ Record(c, [at |-> 0, kind |-> "plan"], {}, Goto(c, "step"), Goto(c, "error"))

-----------------------------------------------------------------------------
(* One schema group. *)

\* `observed` is kept from the previous group, or read afresh.
ExecuteGroup(c) ==
    /\ run[c].pc = "step" /\ IsGroup(Here(c))
    /\ \/ /\ run[c].obs # NoState \/ MayObserve(c)
          /\ LET obs == IF run[c].obs # NoState THEN run[c].obs ELSE schema
                 decision == DecideGroup(run[c].last, obs, At(c).source, At(c).target)
             IN run' = [run EXCEPT
                   ![c].obs = obs,
                   ![c].pc = CASE decision = "explicit" -> "explicit"
                               [] decision = "repair"   -> "committed"
                               [] decision = "execute"  ->
                                     IF At(c).formal THEN "formal" ELSE "prepare"]
          /\ UNCHANGED bounds
       \/ run[c].obs = NoState /\ ObserveFails(c) /\ Goto(c, "error")
    /\ Read

\* Nothing to assert and nothing to change: only the journal advances.
RecordFormalOnly(c) ==
    /\ run[c].pc = "formal"
    /\ RecordEvent(c, "FormalOnlyAdvanced", Advance(c, At(c).target),
                   Goto(c, "retrySafe"))

\* Mutant: the group runs on whatever schema is there.
PrepareGroupUnchecked(c) ==
    /\ run[c].pc = "prepare"
    /\ Open(c, "schema", [at |-> Here(c), rows |-> {}])
    /\ Goto(c, "before")
    /\ UNCHANGED <<managed, bounds>>

\* prepare_group holds its schema transaction from the source check on; the
\* assertions and statements then run in it.
PrepareGroup(c) ==
    /\ run[c].pc = "prepare"
    /\ \/ /\ schema = At(c).source
          /\ Open(c, "schema", [at |-> Here(c), rows |-> {}])
          /\ Goto(c, "before")
          /\ UNCHANGED bounds
       \/ /\ MayObserve(c) /\ schema # At(c).source
          /\ Goto(c, "error")
          /\ UNCHANGED <<fencedVars, bounds>>
       \/ /\ ObserveFails(c)
          /\ Goto(c, "error")
          /\ UNCHANGED fencedVars
    /\ UNCHANGED managed

\* Mutant: the commit goes ahead although the journal write failed.
RecordBeforeCommitIgnored(c) ==
    /\ run[c].pc = "before"
    /\ LET go == Goto(c, IF IsGroup(Here(c)) THEN "commit" ELSE "batch")
       IN RecordEvent(c, "BeforeCommit", go, go)

\* The write-ahead event of a group or a backfill.
RecordBeforeCommit(c) ==
    /\ run[c].pc = "before"
    /\ IF IsGroup(Here(c))
       THEN RecordEvent(c, "BeforeCommit", Goto(c, "commit"), Goto(c, "rollback"))
       ELSE RecordEvent(c, "BeforeCommit", Goto(c, "batch"), Goto(c, "error"))

\* The rollback is acknowledged, or not: then its transaction lingers until the
\* server drops it.
RollbackGroup(c) ==
    /\ run[c].pc = "rollback"
    /\ \E t \in txs : \/ Close(c, t) /\ UNCHANGED bounds
                      \/ Fault /\ LoseReply(c, t, "orphan")
    /\ Goto(c, "error")
    /\ UNCHANGED managed

\* The fence recheck before the commit cannot fail while the schema transaction
\* is open; a failing one would end like a rejected commit.
CommitGroup(c) ==
    /\ run[c].pc = "commit"
    /\ \E t \in txs :
          \/ /\ Close(c, t) /\ schema' = At(c).target
             /\ Goto(c, "verify")
             /\ UNCHANGED bounds
          \/ /\ Fault /\ Close(c, t) /\ UNCHANGED schema
             /\ Goto(c, "aborted")
          \/ /\ Fault /\ LoseReply(c, t, "committing") /\ UNCHANGED schema
             /\ Goto(c, "unknown")
    /\ UNCHANGED done

VerifyGroup(c) ==
    /\ run[c].pc = "verify"
    /\ \/ /\ MayObserve(c)
          /\ run' = [run EXCEPT ![c].obs = schema,
                ![c].pc = IF schema = At(c).target THEN "committed" ELSE "explicit"]
          /\ UNCHANGED bounds
       \/ ObserveFails(c) /\ Goto(c, "retrySafe")
    /\ Read

-----------------------------------------------------------------------------
(* The events after a commit, of a group or a backfill. *)

RecordCommitted(c) ==
    /\ run[c].pc = "committed"
    /\ RecordEvent(c, "Committed",
                   Advance(c, IF IsGroup(Here(c)) THEN At(c).target ELSE run[c].obs),
                   Goto(c, "retrySafe"))

RecordAborted(c) ==
    /\ run[c].pc = "aborted"
    /\ RecordEvent(c, "DefinitelyAborted", Goto(c, "retrySafe"), Goto(c, "retrySafe"))

RecordUnknown(c) ==
    /\ run[c].pc = "unknown"
    /\ RecordEvent(c, "CommitOutcomeUnknown", Goto(c, "reobserve"), Goto(c, "explicit"))

\* Mutant: an unknown commit is taken for a commit.
ReobserveAssumed(c) ==
    /\ run[c].pc = "reobserve"
    /\ Goto(c, "committed")
    /\ Read /\ UNCHANGED bounds

\* Observe once more.  Only a group whose source is still there may be retried.
Reobserve(c) ==
    /\ run[c].pc = "reobserve"
    /\ \/ /\ MayObserve(c)
          /\ LET decision ==
                     IF IsGroup(Here(c))
                     THEN DecideGroup("CommitOutcomeUnknown", schema,
                                      At(c).source, At(c).target)
                     ELSE DecideBackfill("CommitOutcomeUnknown", done[Here(c)] = Row)
             IN Goto(c, CASE decision = "repair"   -> "committed"
                          [] decision = "execute"  -> "retrySafe"
                          [] decision = "explicit" -> "explicit")
          /\ UNCHANGED bounds
       \/ ObserveFails(c) /\ Goto(c, IF IsGroup(Here(c)) THEN "explicit" ELSE "error")
    /\ Read

-----------------------------------------------------------------------------
(* One backfill: batches in write transactions of their own. *)

ExecuteBackfill(c) ==
    /\ run[c].pc = "step" /\ IsBackfill(Here(c))
    /\ \/ /\ MayObserve(c)
          /\ LET decision == DecideBackfill(run[c].last, done[Here(c)] = Row)
             IN Goto(c, CASE decision = "explicit" -> "explicit"
                          [] decision = "repair"   -> "committed"
                          [] decision = "execute"  -> "before")
          /\ UNCHANGED bounds
       \/ ObserveFails(c) /\ Goto(c, "error")
    /\ Read

\* backfill_failure: before the first committed batch nothing can have changed.
BatchFails(c) == Goto(c, IF run[c].batched THEN "unknown" ELSE "aborted")

\* The rows one mutation query picks from its snapshot.
Batches(p) ==
    {rows \in SUBSET (Row \ done[p]) :
        Cardinality(rows) = Min({BatchRows, Cardinality(Row \ done[p])})}

\* A batch is written, or none is left: rows are never emptied again, so that
\* the postcondition the provider then reads holds.
BackfillBatch(c) ==
    /\ run[c].pc = "batch"
    /\ \/ /\ done[Here(c)] # Row
          /\ \E rows \in Batches(Here(c)) :
                Open(c, "write", [at |-> Here(c), rows |-> rows])
          /\ Goto(c, "batchCommit")
          /\ UNCHANGED bounds
       \/ /\ done[Here(c)] = Row /\ MayObserve(c)
          /\ Goto(c, "committed")
          /\ UNCHANGED <<fencedVars, bounds>>
       \/ /\ ObserveFails(c)
          /\ BatchFails(c)
          /\ UNCHANGED fencedVars
    /\ UNCHANGED managed

\* The snapshot the fence was read from does not stop the commit.
CommitBatch(c) ==
    /\ run[c].pc = "batchCommit"
    /\ \E t \in txs :
          \/ /\ Close(c, t)
             /\ done' = [done EXCEPT ![Here(c)] = @ \cup t.work.rows]
             /\ run' = [run EXCEPT ![c].pc = "batch", ![c].batched = TRUE]
             /\ UNCHANGED bounds
          \/ Fault /\ Close(c, t) /\ BatchFails(c) /\ UNCHANGED done
          \/ Fault /\ LoseReply(c, t, "committing") /\ Goto(c, "unknown") /\ UNCHANGED done
    /\ UNCHANGED schema

-----------------------------------------------------------------------------
(* The manifest checkpoint. *)

CheckpointManifest(c) ==
    /\ run[c].pc = "step" /\ IsCheckpoint(Here(c))
    /\ \/ /\ run[c].obs # NoState \/ MayObserve(c)
          /\ LET obs == IF run[c].obs # NoState THEN run[c].obs ELSE schema
             IN run' = [run EXCEPT ![c].obs = obs,
                   ![c].pc = IF obs = At(c).target THEN "applied" ELSE "explicit"]
          /\ UNCHANGED bounds
       \/ run[c].obs = NoState /\ ObserveFails(c) /\ Goto(c, "error")
    /\ Read

\* Mutant: the end of the plan is not noticed.
RecordAppliedPastEnd(c) ==
    /\ run[c].pc = "applied"
    /\ Record(c, [at |-> Here(c), kind |-> "applied"], {},
              Advance(c, run[c].obs), Goto(c, "retrySafe"))

\* The last ledger entry deletes the plan and its events with it.
RecordApplied(c) ==
    /\ run[c].pc = "applied"
    /\ LET final == Here(c) = Len(Program)
       IN Record(c, [at |-> Here(c), kind |-> "applied"],
                 IF final THEN {r \in journal : r.payload.kind # "applied"} ELSE {},
                 IF final THEN Goto(c, "complete") ELSE Advance(c, run[c].obs),
                 Goto(c, "retrySafe"))

-----------------------------------------------------------------------------
(* release, interruption, crash *)

\* The authoritative row first.
ReleaseLease(c) ==
    /\ run[c].pc \in Outcome
    /\ \/ Free(c) /\ Goto(c, "freeing") /\ UNCHANGED bounds
       \/ ~HoldsControl(c) /\ Relinquish(c) /\ Reset(c) /\ UNCHANGED bounds
       \/ Fault /\ FreeUnknown(c) /\ Goto(c, "freeing")
    /\ UNCHANGED managed

\* Then the mirror, unless the authoritative release is found not to have landed.
ReleaseMirror(c) ==
    /\ run[c].pc = "freeing"
    /\ \/ Release(c) /\ UNCHANGED bounds
       \/ /\ ~HoldsMirror(c) \/ HoldsControl(c)
          /\ Relinquish(c)
          /\ UNCHANGED bounds
       \/ Fault /\ Relinquish(c)
    /\ Reset(c)
    /\ UNCHANGED managed

\* A deadline, a cancellation or a failing assertion or statement; never around
\* a journal write or a commit.
Interrupt(c) ==
    /\ \/ run[c].pc = "load"
       \/ run[c].pc = "step" /\ ~IsCheckpoint(Here(c))
       \/ run[c].pc = "before" /\ IsGroup(Here(c))
    /\ Fault
    /\ Goto(c, IF run[c].pc = "before" THEN "rollback" ELSE "error")
    /\ Read

Crash(c) ==
    /\ run[c].pc # "idle"
    /\ Fault
    /\ IF issued[c] # 0 THEN Relinquish(c) ELSE UNCHANGED fencedVars
    /\ Reset(c)
    /\ UNCHANGED managed

-----------------------------------------------------------------------------
(* The servers, and whoever else changes the schema. *)

ServerEnds(t) ==
    /\ EndTransaction(t)
    /\ \/ UNCHANGED managed
       \/ /\ t.status = "committing" /\ t.kind = "schema"
          /\ schema' = Program[t.work.at].target
          /\ UNCHANGED done
       \/ /\ t.status = "committing" /\ t.kind = "write"
          /\ done' = [done EXCEPT ![t.work.at] = @ \cup t.work.rows]
          /\ UNCHANGED schema
    /\ UNCHANGED <<run, bounds>>

LateCommit(w) == Land(w) /\ UNCHANGED <<managed, run, bounds>>

LateMirror == /\ Fault
              /\ ReleaseUnheard \/ \E f \in 1 .. MaxFence : PublishUnheard(f)
              /\ UNCHANGED <<managed, run>>

Drift ==
    /\ AdmitsSchema
    /\ Len(drifts) < MaxDrifts
    /\ drifts' = Append(drifts, mirror.fence)
    /\ schema' \in State \ {schema}
    /\ UNCHANGED <<fencedVars, done, run, faults>>

-----------------------------------------------------------------------------
CoordinatorStep(c) ==
    \/ Acquire(c) \/ FenceExhausted(c) \/ PublishFence(c)
    \/ Load(c) \/ Begin(c) \/ BeginPlan(c)
    \/ ExecuteGroup(c) \/ RecordFormalOnly(c) \/ PrepareGroup(c)
    \/ RecordBeforeCommit(c) \/ RollbackGroup(c) \/ CommitGroup(c) \/ VerifyGroup(c)
    \/ RecordCommitted(c) \/ RecordAborted(c) \/ RecordUnknown(c) \/ Reobserve(c)
    \/ ExecuteBackfill(c) \/ BackfillBatch(c) \/ CommitBatch(c)
    \/ CheckpointManifest(c) \/ RecordApplied(c)
    \/ ReleaseLease(c) \/ ReleaseMirror(c) \/ Interrupt(c) \/ Crash(c)

ServerStep ==
    \/ \E t \in txs : ServerEnds(t)
    \/ \E w \in inflight : LateCommit(w)
    \/ LateMirror

Next == \/ \E c \in Coordinator : CoordinatorStep(c)
        \/ ServerStep
        \/ Drift

Spec == Init /\ [][Next]_vars

\* Whoever runs the plan runs it again until it is applied, and the server ends
\* every transaction it was left with.
FairSpec == /\ Spec
            /\ \A c \in Coordinator : WF_vars(CoordinatorStep(c))
            /\ WF_vars(\E t \in txs : ServerEnds(t))

-----------------------------------------------------------------------------
(* Properties. *)

\* What coordinators leave in the journal, whoever of them was interrupted or
\* superseded and whichever append was lost or landed late, is an open plan that
\* validate_open_plan accepts: a later invocation is never locked out.
OpenPlanResumable ==
    PlanRows(journal) # {} => OpenPlanValid(journal, control.fence)

\* The schema changes only by the group that is next in the journal, from its
\* exact source, with its BeforeCommit event durable and no completion event:
\* write-ahead logging across two databases without a common transaction.
SchemaChangesWriteAhead ==
    [][schema' # schema /\ drifts' = drifts =>
          LET p == FirstIncomplete(journal)
          IN /\ IsGroup(p)
             /\ LastEvent(journal, p) \in {"BeforeCommit", "CommitOutcomeUnknown"}
             /\ schema = Program[p].source /\ schema' = Program[p].target]_vars

\* The next group of the open plan can be decided in every state, also while a
\* commit of it is undecided: its last durable event and the schema tell whether
\* to execute or to repair (decide_group_recovery).  It takes groups with distinct
\* states, as in the run's plan, and that nobody else changes the schema.
GroupRecoveryDecides ==
    PlanRows(journal) # {} =>
        LET p == FirstIncomplete(journal)
        IN IsGroup(p) => DecideGroup(LastEvent(journal, p), schema,
                                     Program[p].source, Program[p].target) # "explicit"

\* An invocation that reports RetrySafe at an operation leaves it in a state a
\* later invocation executes or repairs ("A later invocation may safely retry or
\* repair journal-only progress").
RetrySafeRetries ==
    PlanRows(journal) # {} => \A c \in Coordinator :
        LET p == Here(c)
        IN run[c].pc = "retrySafe" /\ ~IsCheckpoint(p) /\ ~Complete(journal, p) =>
              "explicit" # IF IsGroup(p)
                           THEN DecideGroup(LastEvent(journal, p), schema,
                                            Program[p].source, Program[p].target)
                           ELSE DecideBackfill(LastEvent(journal, p), done[p] = Row)

\* Rows are filled only under the fence the managed database holds ("Every
\* provider commit must atomically recheck the supplied lease").
BatchCommitsFenced ==
    [][done' # done => \E t \in txs \ txs' : t.fence = mirror.fence]_vars

\* A cached observation is never older than the lease it is used under: when a
\* migration enters the ledger although the schema is not its target, somebody
\* else changed the schema under the very fence the entry carries.  A resumed
\* invocation looks again instead of trusting the journal (execute_under_lease
\* reuses "observed" at the manifest checkpoint).
LedgerStaleWithinLease ==
    [][\A r \in journal' \ journal :
          r.payload.kind = "applied" /\ schema # Program[r.payload.at].target
             => r.fence \in ToSet(drifts)]_vars

\* The coordinators together apply the plan as its abstract meaning says: every
\* group once, in order, and the ledger after the work it records.
Plan == INSTANCE MigrationPlan WITH
    applied <- Cardinality({r \in journal : r.payload.kind = "applied"})

AppliesThePlan == Plan!PlanSpec

\* One operator who runs the plan again after each failure gets it applied, with
\* no more invocations than there are failures, and one.
EventuallyApplied == <>IsApplied(journal, Len(Program))
=============================================================================
