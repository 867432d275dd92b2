--------------------------- MODULE MigrationLease ---------------------------
(***************************************************************************)
(* The fenced migration lease of the TypeDB migration store, and the       *)
(* writes it fences.                                                       *)
(*                                                                         *)
(* A migration scope is a pair of databases.  The journal database holds   *)
(* the authoritative control row (fence, holder, state, next sequence) and *)
(* the journal records; the managed database holds a mirror of the fence   *)
(* and the schema and data that migrations change.  No transaction spans   *)
(* the two.  Any coordinator may take a held lease over: there is no       *)
(* expiry, only a strictly greater fence.                                  *)
(*                                                                         *)
(* Sources: schema-migration-typedb/src/{store,lease_plan,provider}.rs.    *)
(***************************************************************************)
EXTENDS Naturals, FiniteSets

CONSTANTS
    Coordinator,  \* processes that run migrations of one scope
    Holder,       \* lease holder labels
    HolderOf,     \* the label each coordinator passes to acquire
    NoHolder,     \* the holder of an absent or free row
    Payload,      \* what a journal record says; opaque here
    Work,         \* what a provider transaction changes; opaque here
    MaxFence,     \* largest fence: u64::MAX in the code
    MaxSequence,  \* largest journal sequence: u64::MAX in the code
    MaxFaults     \* bound on lost replies and crashes

ASSUME HolderAssumption ==
    /\ HolderOf \in [Coordinator -> Holder]
    /\ NoHolder \notin Holder

ASSUME BoundAssumption ==
    /\ MaxFence \in Nat \ {0}
    /\ MaxSequence \in Nat \ {0}
    /\ MaxFaults \in Nat

VARIABLES
    control,      \* journal database: the authoritative control row
    journal,      \* journal database: the set of record rows
    late,         \* journal commits whose reply was lost and that may still land
    mirror,       \* managed database: the fence mirror row
    lateMirror,   \* mirror commits whose reply was lost and that may still land
    txs,          \* managed database: open provider transactions
    phase,        \* where each coordinator is in acquire ... release
    lease,        \* the fence each coordinator asked for
    seen,         \* the compare-and-set operands each coordinator last read
    faults        \* lost replies and crashes so far

journalVars == <<control, journal, late>>
managedVars == <<mirror, lateMirror, txs>>
localVars   == <<phase, lease, seen>>
leaseVars   == <<control, journal, late, mirror, lateMirror, txs,
                 phase, lease, seen, faults>>

Fences          == 0 .. MaxFence
SequenceNumbers == 0 .. MaxSequence

\* Fence 0 stands for "no row": ExecutionFence is nonzero.
ControlRow == [fence : Fences, holder : Holder \cup {NoHolder},
               state : {"absent", "held", "free"}, sequence : SequenceNumbers]
MirrorRow  == [fence : Fences, holder : Holder \cup {NoHolder},
               state : {"absent", "held", "free"}]
Record     == [fence : Fences, sequence : SequenceNumbers, payload : Payload]

\* A commit in flight applies only to the row it matched: two writers of one
\* control row conflict, and the second committer is rejected.
LateCommit == [from : ControlRow, to : ControlRow, rows : SUBSET Record]
LateMirror == [from : MirrorRow, to : MirrorRow]

\* A provider transaction on the managed database.  "open": its client still
\* drives it; "committing": the commit was sent and its reply lost; "orphan":
\* its client is gone, or sent a rollback that was not answered, and the server
\* has not closed it yet.
Tx == [kind : {"schema", "write"}, owner : Coordinator, fence : Fences,
       status : {"open", "committing", "orphan"}, work : Work]

Phases == {"idle", "observed", "settling", "journal", "mirror",
           "settlingMirror", "held", "releasing", "settlingRelease",
           "releasingMirror"}

TypeOK ==
    /\ control \in ControlRow
    /\ journal \subseteq Record
    /\ late \subseteq LateCommit
    /\ mirror \in MirrorRow
    /\ lateMirror \subseteq LateMirror
    /\ txs \subseteq Tx
    /\ phase \in [Coordinator -> Phases]
    /\ lease \in [Coordinator -> Fences]
    /\ seen \in [Coordinator -> [fence : Fences, sequence : SequenceNumbers]]
    /\ faults \in 0 .. MaxFaults

Init ==
    /\ control = [fence |-> 0, holder |-> NoHolder,
                  state |-> "absent", sequence |-> 0]
    /\ journal = {}
    /\ late = {}
    /\ mirror = [fence |-> 0, holder |-> NoHolder, state |-> "absent"]
    /\ lateMirror = {}
    /\ txs = {}
    /\ phase = [c \in Coordinator |-> "idle"]
    /\ lease = [c \in Coordinator |-> 0]
    /\ seen = [c \in Coordinator |-> [fence |-> 0, sequence |-> 0]]
    /\ faults = 0

-----------------------------------------------------------------------------
(* Rows and their conditions. *)

\* The row a conditional takeover writes: the next fence, this holder, held.
\* The journal row keeps its sequence; the first row starts at zero.
HeldRow(c) == [fence |-> seen[c].fence + 1, holder |-> HolderOf[c],
               state |-> "held", sequence |-> seen[c].sequence]

HeldMirror(c) == [fence |-> lease[c], holder |-> HolderOf[c], state |-> "held"]

\* A takeover matches the fence and the sequence its caller observed, whatever
\* the state of the row; with no row observed it inserts the keyed scope.
TakeOverMatches(c) == /\ control.fence = seen[c].fence
                      /\ control.sequence = seen[c].sequence

\* load_active_control: exactly this holder and fence, held.
ActiveControl(c) == /\ control.fence = lease[c]
                    /\ control.holder = HolderOf[c]
                    /\ control.state = "held"

\* require_active_managed_fence, read in the same transaction it guards.
ActiveMirror(c) == mirror = HeldMirror(c)

\* No provider transaction excludes a write transaction on the managed
\* database: schema transactions are exclusive, write transactions are not.
WriteAdmitted  == \A t \in txs : t.kind # "schema"
SchemaAdmitted == txs = {} /\ lateMirror = {}

Move(c, p) == phase' = [phase EXCEPT ![c] = p]

Fault == /\ faults < MaxFaults
         /\ faults' = faults + 1

-----------------------------------------------------------------------------
(* Commits to the journal database and to the mirror. *)

JournalCommit(to, rows) ==
    /\ control' = to
    /\ journal' = rows
    /\ UNCHANGED <<late, faults>>

\* The reply is lost: the commit landed, or never will, or is still in flight.
JournalCommitUnknown(to, rows) ==
    /\ Fault
    /\ \/ control' = to /\ journal' = rows /\ late' = late
       \/ UNCHANGED journalVars
       \/ /\ late' = late \cup {[from |-> control, to |-> to, rows |-> rows]}
          /\ UNCHANGED <<control, journal>>

MirrorCommit(to) ==
    /\ mirror' = to
    /\ UNCHANGED <<lateMirror, faults>>

MirrorCommitUnknown(to) ==
    /\ Fault
    /\ \/ mirror' = to /\ lateMirror' = lateMirror
       \/ UNCHANGED <<mirror, lateMirror>>
       \/ /\ lateMirror' = lateMirror \cup {[from |-> mirror, to |-> to]}
          /\ UNCHANGED mirror

\* The server finishes a commit in flight.
LateJournalCommit ==
    \E w \in late :
        /\ late' = late \ {w}
        /\ \/ control = w.from /\ control' = w.to /\ journal' = w.rows
           \/ UNCHANGED <<control, journal>>
        /\ UNCHANGED <<managedVars, localVars, faults>>

-----------------------------------------------------------------------------
(* acquire: ensure schema, take the authoritative lease, publish the mirror. *)

\* acquire_authoritative reads the control row in a snapshot of its own.
ObserveControl(c) ==
    /\ phase[c] = "idle"
    /\ control.fence < MaxFence
    /\ seen' = [seen EXCEPT ![c] = [fence |-> control.fence,
                                    sequence |-> control.sequence]]
    /\ Move(c, "observed")
    /\ UNCHANGED <<journalVars, managedVars, lease, faults>>

\* checked_successor: an exhausted fence range is an error, every time.
FenceExhausted(c) ==
    /\ phase[c] = "idle"
    /\ control.fence = MaxFence
    /\ UNCHANGED leaseVars

\* The conditional write.  Matched(1) is Applied, Matched(0) and a rejected
\* commit are errors, and a lost reply is settled by a fresh read.
AcquireAuthoritative(c) ==
    /\ phase[c] = "observed"
    /\ lease' = [lease EXCEPT ![c] = seen[c].fence + 1]
    /\ \/ /\ TakeOverMatches(c)
          /\ JournalCommit(HeldRow(c), journal)
          /\ Move(c, "journal")
       \/ /\ ~TakeOverMatches(c)
          /\ Move(c, "idle")
          /\ UNCHANGED <<journalVars, faults>>
       \/ /\ TakeOverMatches(c)
          /\ JournalCommitUnknown(HeldRow(c), journal)
          /\ Move(c, "settling")
       \/ /\ ~TakeOverMatches(c)   \* rejected, and the rejection is lost
          /\ Fault
          /\ Move(c, "settling")
          /\ UNCHANGED journalVars
    /\ UNCHANGED <<managedVars, seen>>

\* settled_exists: the row this write leaves behind, by fence, holder and state.
SettleAcquire(c) ==
    /\ phase[c] = "settling"
    /\ Move(c, IF ActiveControl(c) THEN "journal" ELSE "idle")
    /\ UNCHANGED <<journalVars, managedVars, lease, seen, faults>>

\* Mutant: the mirror is overwritten whatever fence it holds.
ObserveMirrorUnordered(c) ==
    /\ phase[c] = "journal"
    /\ seen' = [seen EXCEPT ![c].fence = mirror.fence]
    /\ Move(c, "mirror")
    /\ UNCHANGED <<journalVars, managedVars, lease, faults>>

\* publish_managed_fence reads the mirror first and refuses one that is not
\* older than the acquired fence.
ObserveMirror(c) ==
    /\ phase[c] = "journal"
    /\ seen' = [seen EXCEPT ![c].fence = mirror.fence]
    /\ Move(c, IF mirror.fence < lease[c] THEN "mirror" ELSE "idle")
    /\ UNCHANGED <<journalVars, managedVars, lease, faults>>

\* Its write transaction waits for any open schema transaction.
PublishManagedFence(c) ==
    /\ phase[c] = "mirror"
    /\ WriteAdmitted
    /\ LET matches == mirror.fence = seen[c].fence
       IN \/ matches /\ MirrorCommit(HeldMirror(c)) /\ Move(c, "held")
          \/ ~matches /\ MirrorCommit(mirror) /\ Move(c, "idle")
          \/ /\ MirrorCommitUnknown(IF matches THEN HeldMirror(c) ELSE mirror)
             /\ Move(c, "settlingMirror")
    /\ UNCHANGED <<journalVars, txs, lease, seen>>

\* The write transaction could not open in time.
PublishTimesOut(c) ==
    /\ phase[c] = "mirror"
    /\ Fault
    /\ Move(c, "idle")
    /\ UNCHANGED <<journalVars, managedVars, lease, seen>>

\* Mutant: a lost reply is taken for a success.
SettlePublishAssumed(c) ==
    /\ phase[c] = "settlingMirror"
    /\ Move(c, "held")
    /\ UNCHANGED <<journalVars, managedVars, lease, seen, faults>>

SettlePublish(c) ==
    /\ phase[c] = "settlingMirror"
    /\ Move(c, IF ActiveMirror(c) THEN "held" ELSE "idle")
    /\ UNCHANGED <<journalVars, managedVars, lease, seen, faults>>

\* The server finishes a mirror commit in flight.
LateMirrorCommit ==
    \E w \in lateMirror :
        /\ lateMirror' = lateMirror \ {w}
        /\ mirror' \in {mirror} \cup (IF mirror = w.from THEN {w.to} ELSE {})
        /\ UNCHANGED <<journalVars, txs, localVars, faults>>

-----------------------------------------------------------------------------
(* release: authoritative row first, then the mirror. *)

\* The coordinator is done: its provider transactions are committed, rolled
\* back or out of its hands.
BeginRelease(c) ==
    /\ phase[c] = "held"
    /\ \A t \in txs : ~(t.owner = c /\ t.status = "open")
    /\ Move(c, "releasing")
    /\ UNCHANGED <<journalVars, managedVars, lease, seen, faults>>

ReleaseAuthoritative(c) ==
    /\ phase[c] = "releasing"
    /\ LET free == [control EXCEPT !.state = "free", !.holder = NoHolder]
       IN \/ /\ ActiveControl(c)
             /\ JournalCommit(free, journal)
             /\ Move(c, "releasingMirror")
          \/ /\ ~ActiveControl(c)
             /\ Move(c, "idle")
             /\ UNCHANGED <<journalVars, faults>>
          \/ /\ ActiveControl(c)
             /\ JournalCommitUnknown(free, journal)
             /\ Move(c, "settlingRelease")
    /\ UNCHANGED <<managedVars, lease, seen>>

SettleRelease(c) ==
    /\ phase[c] = "settlingRelease"
    /\ Move(c, IF control.fence = lease[c] /\ control.state = "free"
               THEN "releasingMirror" ELSE "idle")
    /\ UNCHANGED <<journalVars, managedVars, lease, seen, faults>>

ReleaseManagedFence(c) ==
    /\ phase[c] = "releasingMirror"
    /\ Move(c, "idle")
    /\ LET free == [mirror EXCEPT !.state = "free", !.holder = NoHolder]
       IN \/ /\ WriteAdmitted
             /\ \/ ActiveMirror(c) /\ MirrorCommit(free)
                \/ ~ActiveMirror(c) /\ MirrorCommit(mirror)
                \/ ActiveMirror(c) /\ MirrorCommitUnknown(free)
          \/ Fault /\ UNCHANGED <<mirror, lateMirror>>   \* never opened
    /\ UNCHANGED <<journalVars, txs, lease, seen>>
-----------------------------------------------------------------------------
(* What a holder does with its lease. *)

\* append_record: one write transaction matches the active control row with its
\* exact sequence, replaces it by its successor and inserts the record row.
\* retired: the rows the same transaction deletes.
Appended(c, payload, retired) ==
    (journal \ retired)
        \cup {[fence |-> lease[c], sequence |-> control.sequence + 1,
               payload |-> payload]}

NextControl == [control EXCEPT !.sequence = @ + 1]

\* Mutants: the successor sequence is unchecked; the lease is not matched.
MayAppendUnbounded(c) == ActiveControl(c)
MayAppendStale(c) == control.sequence < MaxSequence

MayAppend(c) == ActiveControl(c) /\ control.sequence < MaxSequence

AppendRecord(c, payload, retired) ==
    /\ phase[c] = "held"
    /\ MayAppend(c)
    /\ JournalCommit(NextControl, Appended(c, payload, retired))
    /\ UNCHANGED <<managedVars, localVars>>

\* The append reports an error: its condition failed, or its reply was lost.
AppendFails(c, payload, retired) ==
    /\ phase[c] = "held"
    /\ \/ ~MayAppend(c) /\ UNCHANGED <<journalVars, faults>>
       \/ /\ MayAppend(c)
          /\ JournalCommitUnknown(NextControl, Appended(c, payload, retired))
    /\ UNCHANGED <<managedVars, localVars>>

\* Mutant: the mirror is not rechecked inside the transaction.
OpenTransactionUnchecked(c, kind, work) ==
    /\ phase[c] = "held"
    /\ IF kind = "schema" THEN SchemaAdmitted ELSE WriteAdmitted
    /\ \A t \in txs : ~(t.owner = c /\ t.status = "open")
    /\ txs' = txs \cup {[kind |-> kind, owner |-> c, fence |-> lease[c],
                         status |-> "open", work |-> work]}
    /\ UNCHANGED <<journalVars, mirror, lateMirror, localVars, faults>>

\* A provider transaction opens on the managed database and reads the mirror.
\* A schema transaction excludes every other schema and write transaction.
OpenTransaction(c, kind, work) ==
    /\ phase[c] = "held"
    /\ IF kind = "schema" THEN SchemaAdmitted ELSE WriteAdmitted
    /\ ActiveMirror(c)
    /\ \A t \in txs : ~(t.owner = c /\ t.status = "open")
    /\ txs' = txs \cup {[kind |-> kind, owner |-> c, fence |-> lease[c],
                         status |-> "open", work |-> work]}
    /\ UNCHANGED <<journalVars, mirror, lateMirror, localVars, faults>>

\* The client's commit or rollback is answered: the transaction is over.
CloseTransaction(c, t) ==
    /\ phase[c] = "held"
    /\ t \in txs /\ t.owner = c /\ t.status = "open"
    /\ txs' = txs \ {t}
    /\ UNCHANGED <<journalVars, mirror, lateMirror, localVars, faults>>

\* The client's commit or rollback is sent and its reply lost: the server may
\* still commit the one, and only drops the other.
LoseEndReply(c, t, left) ==
    /\ phase[c] = "held"
    /\ t \in txs /\ t.owner = c /\ t.status = "open"
    /\ Fault
    /\ txs' = (txs \ {t}) \cup {[t EXCEPT !.status = left]}
    /\ UNCHANGED <<journalVars, mirror, lateMirror, localVars>>

\* The server decides a commit whose reply was lost, or drops a transaction
\* whose client is gone or has rolled it back.
ServerEnds(t) ==
    /\ t \in txs /\ t.status # "open"
    /\ txs' = txs \ {t}
    /\ UNCHANGED <<journalVars, mirror, lateMirror, localVars, faults>>

\* The process dies, or while it acquires or releases a read fails and the call
\* returns its error.  Nothing durable changes; its open transactions linger
\* until the server notices.
Crash(c) ==
    /\ phase[c] # "idle"
    /\ Fault
    /\ Move(c, "idle")
    /\ txs' = {IF t.owner = c /\ t.status = "open"
               THEN [t EXCEPT !.status = "orphan"] ELSE t : t \in txs}
    /\ UNCHANGED <<journalVars, mirror, lateMirror, lease, seen>>

-----------------------------------------------------------------------------
LeaseStep(c) ==
    \/ ObserveControl(c) \/ FenceExhausted(c)
    \/ AcquireAuthoritative(c) \/ SettleAcquire(c)
    \/ ObserveMirror(c) \/ PublishManagedFence(c) \/ PublishTimesOut(c)
    \/ SettlePublish(c)
    \/ BeginRelease(c) \/ ReleaseAuthoritative(c) \/ SettleRelease(c)
    \/ ReleaseManagedFence(c)
    \/ Crash(c)

HolderStep(c) ==
    \/ \E payload \in Payload, retired \in SUBSET journal :
          AppendRecord(c, payload, retired) \/ AppendFails(c, payload, retired)
    \/ \E kind \in {"schema", "write"}, work \in Work :
          OpenTransaction(c, kind, work)
    \/ \E t \in txs : CloseTransaction(c, t)
    \/ \E t \in txs, left \in {"committing", "orphan"} : LoseEndReply(c, t, left)

ServerStep ==
    \/ LateJournalCommit
    \/ LateMirrorCommit
    \/ \E t \in txs : ServerEnds(t)

Next ==
    \/ \E c \in Coordinator : LeaseStep(c) \/ HolderStep(c)
    \/ ServerStep

Spec == Init /\ [][Next]_leaseVars

-----------------------------------------------------------------------------
(* Properties. *)

\* acquire has returned this coordinator's lease.
Leased(c) == phase[c] \in {"held", "releasing", "settlingRelease",
                           "releasingMirror"}

\* acquire issues "a fence strictly greater than every fence previously issued":
\* when it returns, every lease another coordinator still carries is older,
\* even though replies were lost and takeovers raced in both databases.
AcquireIssuesGreaterFence ==
    [][\A c, d \in Coordinator :
          (/\ phase[c] # "held" /\ phase'[c] = "held"
           /\ c # d /\ Leased(d)) => lease[d] < lease[c]]_leaseVars

\* The mirror lags the authoritative row and never an issued lease: a fence is
\* published only after it was won in the journal, and acquire returns only
\* after it was published (acquire_inner).
MirrorBetweenLeaseAndControl ==
    /\ mirror.fence <= control.fence
    /\ \A c \in Coordinator : Leased(c) => lease[c] <= mirror.fence

\* While a schema transaction is open, or its commit is undecided, no newer
\* lease has been issued: whatever it still commits is committed under the
\* newest lease anyone acts on (the fencing model stated in provider.rs).
SchemaTransactionFenced ==
    \A t \in txs : t.kind = "schema" =>
        /\ mirror.fence = t.fence
        /\ \A c \in Coordinator : Leased(c) => lease[c] <= t.fence

\* Rows ordered by sequence never go back to an older fence, no two rows share
\* a sequence, and the control row is ahead of them all: what the loader
\* (OpenPlanRecord::from_store_with_backfills) insists on, kept by every append
\* including those that land after their reply was lost.
Ordered(rows, row) ==
    /\ \A r \in rows : r.sequence <= row.sequence /\ r.fence <= row.fence
    /\ \A r, s \in rows : /\ r.sequence = s.sequence => r = s
                          /\ r.sequence < s.sequence => r.fence <= s.fence

JournalOrdered == Ordered(journal, control)

\* Once acquire has returned a lease, no record of an older lease can land in
\* the journal any more: the plan a coordinator loads to resume is final.
ResumedJournalIsFinal ==
    [][\A r \in journal' \ journal : \A c \in Coordinator :
          Leased(c) => lease[c] <= r.fence]_leaseVars

-----------------------------------------------------------------------------
(* What the store promises, as an abstraction of this state. *)

RowOf(row) == [fence |-> row.fence, held |-> row.state = "held",
               sequence |-> row.sequence]

\* A takeover in flight is no promise yet; it lands as a takeover.
Promised == INSTANCE FencedLease WITH
    control  <- RowOf(control),
    inflight <- {[from |-> RowOf(w.from), to |-> RowOf(w.to), rows |-> w.rows] :
                    w \in {v \in late : v.from.fence = v.to.fence}},
    mirror   <- [fence |-> mirror.fence, held |-> mirror.state = "held"],
    issued   <- [c \in Coordinator |-> IF Leased(c) THEN lease[c] ELSE 0]

\* Conditional writes, settled reads and late commits together implement the
\* store's contract, provided that no two coordinators share a label.
KeepsPromise == Promised!FencedSpec
=============================================================================
