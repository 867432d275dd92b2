----------------------- MODULE MCMigrationCoordinator -----------------------
(* MigrationCoordinator on small plans.                                     *)
EXTENDS MigrationCoordinator

CONSTANTS c1, c2, s0, s1, s2, r1, r2

One  == {c1}
Pair == {c1, c2}

DeltaOf(m, source, target) ==
    [kind |-> "group", manifest |-> m, source |-> source, target |-> target,
     formal |-> FALSE]
FormalOf(m, s) == [DeltaOf(m, s, s) EXCEPT !.formal = TRUE]
BackfillOf(m, s) == [DeltaOf(m, s, s) EXCEPT !.kind = "backfill"]
CheckpointOf(m, s) == [DeltaOf(m, s, s) EXCEPT !.kind = "checkpoint"]

\* Two migrations that change the schema.
TwoDeltas == <<DeltaOf(1, s0, s1), CheckpointOf(1, s1),
               DeltaOf(2, s1, s2), CheckpointOf(2, s2)>>

\* One migration that changes the schema and then fills rows.
DeltaBackfill == <<DeltaOf(1, s0, s1), BackfillOf(1, s1), CheckpointOf(1, s1)>>

\* A migration that only fills rows, and a formal-only group after it.
BackfillFormal == <<BackfillOf(1, s0), CheckpointOf(1, s0),
                    FormalOf(2, s0), CheckpointOf(2, s0)>>

Interchangeable == Permutations(Coordinator)

Payloads == [at : 0 .. Len(Program), kind : EventKind \cup {"plan", "applied"}]
Works == [at : Positions, rows : SUBSET Row]
=============================================================================
