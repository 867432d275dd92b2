-------------------------- MODULE MCMigrationLease --------------------------
(* MigrationLease on small instances.                                       *)
EXTENDS MigrationLease, TLC

CONSTANTS c1, c2, c3, label

Pair == {c1, c2}

\* Every coordinator has a label of its own.
OwnLabel == [c \in Coordinator |-> c]

\* Every coordinator uses the same label, as the command line does.
SharedLabel == [c \in Coordinator |-> label]

SameLabel == {label}

Interchangeable == Permutations(Coordinator)
=============================================================================
