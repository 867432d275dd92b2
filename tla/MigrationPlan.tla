--------------------------- MODULE MigrationPlan ---------------------------
(***************************************************************************)
(* What applying a verified plan means, whoever applies it and however     *)
(* often they are interrupted: each schema group takes the schema from its *)
(* source to its target once, backfills fill their rows, and a migration   *)
(* enters the applied ledger after everything in it and before anything of *)
(* the next one.                                                           *)
(***************************************************************************)
EXTENDS Naturals, Sequences

CONSTANTS
    Program,   \* the plan's operations and checkpoints, in manifest order
    Row        \* the rows each backfill fills

VARIABLES schema, done, applied

planVars == <<schema, done, applied>>

Positions == 1 .. Len(Program)
IsGroup(p)      == Program[p].kind = "group"
IsBackfill(p)   == Program[p].kind = "backfill"
IsCheckpoint(p) == Program[p].kind = "checkpoint"

\* Every backfill before p is complete.
FilledBefore(p) == \A q \in 1 .. p - 1 : IsBackfill(q) => done[q] = Row

PlanInit ==
    /\ schema = Program[1].source
    /\ done = [p \in Positions |-> {}]
    /\ applied = 0

AtManifest(p) == applied + 1 = Program[p].manifest

Group(p) ==
    /\ IsGroup(p) /\ AtManifest(p) /\ FilledBefore(p)
    /\ schema = Program[p].source
    /\ schema' = Program[p].target
    /\ UNCHANGED <<done, applied>>

Batch(p) ==
    /\ IsBackfill(p) /\ AtManifest(p) /\ FilledBefore(p)
    /\ schema = Program[p].source
    /\ \E rows \in SUBSET Row : done' = [done EXCEPT ![p] = @ \cup rows]
    /\ UNCHANGED <<schema, applied>>

Checkpoint(p) ==
    /\ IsCheckpoint(p) /\ AtManifest(p) /\ FilledBefore(p)
    /\ schema = Program[p].target
    /\ applied' = applied + 1
    /\ UNCHANGED <<schema, done>>

PlanNext == \E p \in Positions : Group(p) \/ Batch(p) \/ Checkpoint(p)

PlanSpec == PlanInit /\ [][PlanNext]_planVars
=============================================================================
