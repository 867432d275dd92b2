------------------------- MODULE MigrationRecovery -------------------------
(***************************************************************************)
(* The decisions a coordinator takes from durable evidence: the journal    *)
(* events of one operation and a fresh observation of the database.        *)
(*                                                                         *)
(* Sources: schema-migration/src/execution.rs (decide_*_recovery) and      *)
(* schema-migration/src/coordinator.rs (validate_commit_transitions).      *)
(***************************************************************************)
EXTENDS Naturals, Sequences

\* GroupJournalEventKind; "none" stands for the absence of an event.
EventKind == {"BeforeCommit", "Committed", "CommitOutcomeUnknown",
              "DefinitelyAborted", "FormalOnlyAdvanced"}

Completion == {"Committed", "FormalOnlyAdvanced"}

Decision == {"execute", "repair", "explicit"}

\* Mutant: a commit seen after its event is never repaired.
DecideGroupUnrepaired(last, observed, source, target) ==
    IF observed = source /\ last \notin Completion THEN "execute" ELSE "explicit"

\* decide_group_recovery: distinct source and target tell a committed group from
\* one that never committed; equal ones tell nothing once a commit was tried.
DecideGroup(last, observed, source, target) ==
    CASE source # target /\ observed = source
            /\ last \in {"none", "DefinitelyAborted", "BeforeCommit",
                         "CommitOutcomeUnknown"}          -> "execute"
      [] source # target /\ observed = target
            /\ last \in {"BeforeCommit", "CommitOutcomeUnknown",
                         "Committed"}                      -> "repair"
      [] source = target /\ observed = source
            /\ last \in {"none", "DefinitelyAborted"}      -> "execute"
      [] source = target /\ observed = source
            /\ last \in Completion                         -> "repair"
      [] OTHER                                             -> "explicit"

\* Mutant: a backfill that was begun is taken for complete.
DecideBackfillAssumed(last, complete) ==
    IF last \in {"none", "DefinitelyAborted"} THEN "execute" ELSE "repair"

\* decide_backfill_recovery: an incomplete observation never proves that no
\* batch committed.
DecideBackfill(last, complete) ==
    CASE last = "none"                                     -> "execute"
      [] last = "DefinitelyAborted" /\ ~complete           -> "execute"
      [] last \in {"BeforeCommit", "CommitOutcomeUnknown", "Committed"}
            /\ complete                                    -> "repair"
      [] OTHER                                             -> "explicit"

\* Mutant: a repair needs a fence newer than the unknown commit.
FollowsNewer(prior, event) ==
    \/ /\ prior.kind = "BeforeCommit"
       /\ event.kind \in {"Committed", "CommitOutcomeUnknown", "DefinitelyAborted"}
    \/ event.kind \in {"BeforeCommit", "Committed"} /\ event.fence > prior.fence

\* validate_commit_transitions, one step of its loop.
Follows(prior, event) ==
    \/ /\ prior.kind = "BeforeCommit"
       /\ event.kind \in {"Committed", "CommitOutcomeUnknown", "DefinitelyAborted"}
    \/ /\ prior.kind \in {"BeforeCommit", "CommitOutcomeUnknown", "DefinitelyAborted"}
       /\ event.kind = "BeforeCommit"
       /\ event.fence > prior.fence
    \/ /\ prior.kind = "CommitOutcomeUnknown"
       /\ event.kind = "Committed"
       /\ event.fence >= prior.fence

ValidTransitions(events) ==
    /\ events # <<>> => Head(events).kind \in {"BeforeCommit", "FormalOnlyAdvanced"}
    /\ \A i \in 1 .. Len(events) - 1 : Follows(events[i], events[i + 1])
=============================================================================
