---------------------------- MODULE FencedLease ----------------------------
(***************************************************************************)
(* What the migration store promises its callers: the contract of          *)
(* MigrationLeaseStore and MigrationExecutionJournal, and of provider      *)
(* transactions that recheck the managed fence.                            *)
(*                                                                         *)
(* Compared with MigrationLease there are no holder labels, no separate    *)
(* observations and no settled reads: a takeover is one step that anybody  *)
(* may take at any time, and a coordinator is issued a fence only when it  *)
(* exceeds every fence still carried.  The gap between the two databases   *)
(* remains: a fence is won in the journal before it is published.          *)
(*                                                                         *)
(* Sources: schema-migration/src/execution.rs (the traits) and             *)
(* schema-migration-typedb/src/{store,provider}.rs.                        *)
(***************************************************************************)
EXTENDS Naturals

CONSTANTS Coordinator, Payload, Work, MaxFence, MaxSequence

VARIABLES
    control,   \* the authoritative row: fence, whether it is held, sequence
    journal,   \* the journal rows
    inflight,  \* appends and releases that may still land
    mirror,    \* the managed fence: fence and whether it is held
    txs,       \* provider transactions on the managed database
    issued     \* the fence each coordinator was issued; 0 for none

fencedVars == <<control, journal, inflight, mirror, txs, issued>>

FencedInit ==
    /\ control = [fence |-> 0, held |-> FALSE, sequence |-> 0]
    /\ journal = {}
    /\ inflight = {}
    /\ mirror = [fence |-> 0, held |-> FALSE]
    /\ txs = {}
    /\ issued = [c \in Coordinator |-> 0]

-----------------------------------------------------------------------------
HoldsControl(c) == control.held /\ issued[c] = control.fence /\ issued[c] # 0
HoldsMirror(c)  == mirror.held /\ issued[c] = mirror.fence /\ issued[c] # 0

AdmitsWrite  == \A t \in txs : t.kind # "schema"
AdmitsSchema == txs = {}

\* The authoritative fence moves on; nobody holds the new lease yet.
TakeOver ==
    /\ control.fence < MaxFence
    /\ control' = [control EXCEPT !.fence = @ + 1, !.held = TRUE]
    /\ UNCHANGED <<journal, inflight, mirror, txs, issued>>

\* A won fence reaches the managed database, and its winner hears of it or not.
Publish(f) ==
    /\ mirror.fence < f /\ f <= control.fence
    /\ AdmitsWrite
    /\ mirror' = [fence |-> f, held |-> TRUE]
    /\ UNCHANGED <<control, journal, inflight, txs>>

\* The lease is issued with a fence above every fence still carried.
Issue(c, f) ==
    /\ \A d \in Coordinator : issued[d] < f
    /\ issued' = [issued EXCEPT ![c] = f]

PublishAndIssue(c, f) == Publish(f) /\ Issue(c, f)

PublishUnheard(f) == Publish(f) /\ UNCHANGED issued

IssuePublished(c) ==
    /\ mirror.held
    /\ Issue(c, mirror.fence)
    /\ UNCHANGED <<control, journal, inflight, mirror, txs>>

-----------------------------------------------------------------------------
(* The journal database. *)

\* A commit to the journal database: answered, or its reply lost and then
\* landed, never landing, or still to land.
Commit(to, rows) ==
    /\ control' = to
    /\ journal' = rows
    /\ UNCHANGED <<inflight, mirror, txs, issued>>

CommitUnknown(to, rows) ==
    /\ \/ control' = to /\ journal' = rows /\ inflight' = inflight
       \/ UNCHANGED <<control, journal, inflight>>
       \/ /\ inflight' = inflight
                 \cup {[from |-> control, to |-> to, rows |-> rows]}
          /\ UNCHANGED <<control, journal>>
    /\ UNCHANGED <<mirror, txs, issued>>

\* It lands only on the row it read.
Land(w) ==
    /\ inflight' = inflight \ {w}
    /\ \/ control = w.from /\ control' = w.to /\ journal' = w.rows
       \/ UNCHANGED <<control, journal>>
    /\ UNCHANGED <<mirror, txs, issued>>

\* Mutant: an append does not match the lease.
CanAppendStale(c) == control.sequence < MaxSequence

CanAppend(c) == HoldsControl(c) /\ control.sequence < MaxSequence

Successor == [control EXCEPT !.sequence = @ + 1]

WithRecord(c, payload, retired) ==
    (journal \ retired)
        \cup {[fence |-> issued[c], sequence |-> control.sequence + 1,
               payload |-> payload]}

AppendRecord(c, payload, retired) ==
    /\ CanAppend(c)
    /\ Commit(Successor, WithRecord(c, payload, retired))

AppendRecordUnknown(c, payload, retired) ==
    /\ CanAppend(c)
    /\ CommitUnknown(Successor, WithRecord(c, payload, retired))

Freed == [control EXCEPT !.held = FALSE]

Free(c) == HoldsControl(c) /\ Commit(Freed, journal)

FreeUnknown(c) == HoldsControl(c) /\ CommitUnknown(Freed, journal)

\* The mirror of a lease that is no longer held in the journal is freed, as the
\* last step of a release or by a commit that lands after it.
FreeMirror ==
    /\ mirror.held
    /\ mirror.fence = control.fence => ~control.held
    /\ AdmitsWrite
    /\ mirror' = [mirror EXCEPT !.held = FALSE]
    /\ UNCHANGED <<control, journal, inflight, txs>>

Release(c) ==
    /\ HoldsMirror(c)
    /\ FreeMirror
    /\ issued' = [issued EXCEPT ![c] = 0]

ReleaseUnheard == FreeMirror /\ UNCHANGED issued

-----------------------------------------------------------------------------
(* Provider transactions. *)

Owns(c, t) == t.owner = c /\ t.status = "open"

Open(c, kind, work) ==
    /\ HoldsMirror(c)
    /\ IF kind = "schema" THEN AdmitsSchema ELSE AdmitsWrite
    /\ \A t \in txs : ~Owns(c, t)
    /\ txs' = txs \cup {[kind |-> kind, owner |-> c, fence |-> issued[c],
                         status |-> "open", work |-> work]}
    /\ UNCHANGED <<control, journal, inflight, mirror, issued>>

Close(c, t) ==
    /\ t \in txs /\ Owns(c, t)
    /\ txs' = txs \ {t}
    /\ UNCHANGED <<control, journal, inflight, mirror, issued>>

\* The reply to a commit or a rollback is lost: a transaction left "committing"
\* is decided by the server, an "orphan" only ends.
LoseReply(c, t, left) ==
    /\ t \in txs /\ Owns(c, t)
    /\ txs' = (txs \ {t}) \cup {[t EXCEPT !.status = left]}
    /\ UNCHANGED <<control, journal, inflight, mirror, issued>>

EndTransaction(t) ==
    /\ t \in txs /\ t.status # "open"
    /\ txs' = txs \ {t}
    /\ UNCHANGED <<control, journal, inflight, mirror, issued>>

\* The lease ends for its coordinator, by release or by death.
Relinquish(c) ==
    /\ issued[c] # 0
    /\ issued' = [issued EXCEPT ![c] = 0]
    /\ txs' = {IF Owns(c, t) THEN [t EXCEPT !.status = "orphan"] ELSE t : t \in txs}
    /\ UNCHANGED <<control, journal, inflight, mirror>>

-----------------------------------------------------------------------------
FencedNext ==
    \/ TakeOver
    \/ \E f \in 1 .. MaxFence : PublishUnheard(f)
    \/ \E c \in Coordinator :
          \/ \E f \in 1 .. MaxFence : PublishAndIssue(c, f)
          \/ IssuePublished(c)
          \/ Free(c) \/ FreeUnknown(c) \/ Release(c)
          \/ Relinquish(c)
          \/ \E payload \in Payload, retired \in SUBSET journal :
                AppendRecord(c, payload, retired) \/ AppendRecordUnknown(c, payload, retired)
          \/ \E kind \in {"schema", "write"}, work \in Work : Open(c, kind, work)
          \/ \E t \in txs : Close(c, t)
          \/ \E t \in txs, left \in {"committing", "orphan"} : LoseReply(c, t, left)
    \/ \E w \in inflight : Land(w)
    \/ ReleaseUnheard
    \/ \E t \in txs : EndTransaction(t)

FencedSpec == FencedInit /\ [][FencedNext]_fencedVars
=============================================================================
