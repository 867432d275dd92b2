------------------------ MODULE MigrationLeaseProofs ------------------------
(***************************************************************************)
(* Theorems about MigrationLease, for every set of coordinators and labels *)
(* and every bound.                                                        *)
(***************************************************************************)
EXTENDS MigrationLease, TLAPS

-----------------------------------------------------------------------------
(* Type correctness. *)

LEMMA JournalCommitTypes ==
    ASSUME TypeOK, NEW to \in ControlRow, NEW rows \in SUBSET Record,
           JournalCommit(to, rows) \/ JournalCommitUnknown(to, rows)
    PROVE  /\ control' \in ControlRow
           /\ journal' \subseteq Record
           /\ late' \subseteq LateCommit
           /\ faults' \in 0 .. MaxFaults
<1>1. [from |-> control, to |-> to, rows |-> rows] \in LateCommit
  BY DEF TypeOK, LateCommit
<1>2. faults' \in 0 .. MaxFaults
  BY BoundAssumption DEF TypeOK, JournalCommit, JournalCommitUnknown, Fault
<1>3. QED
  BY <1>1, <1>2 DEF TypeOK, JournalCommit, JournalCommitUnknown, journalVars

LEMMA MirrorCommitTypes ==
    ASSUME TypeOK, NEW to \in MirrorRow,
           MirrorCommit(to) \/ MirrorCommitUnknown(to)
    PROVE  /\ mirror' \in MirrorRow
           /\ lateMirror' \subseteq LateMirror
           /\ faults' \in 0 .. MaxFaults
<1>1. [from |-> mirror, to |-> to] \in LateMirror
  BY DEF TypeOK, LateMirror
<1>2. faults' \in 0 .. MaxFaults
  BY BoundAssumption DEF TypeOK, MirrorCommit, MirrorCommitUnknown, Fault
<1>3. QED
  BY <1>1, <1>2 DEF TypeOK, MirrorCommit, MirrorCommitUnknown

LEMMA HeldRowTypes ==
    ASSUME TypeOK, NEW c \in Coordinator
    PROVE  /\ seen[c].fence + 1 \in Fences => HeldRow(c) \in ControlRow
           /\ HeldMirror(c) \in MirrorRow
BY HolderAssumption DEF TypeOK, HeldRow, HeldMirror, ControlRow, MirrorRow

LEMMA AppendTypes ==
    ASSUME TypeOK, NEW c \in Coordinator, MayAppend(c),
           NEW payload \in Payload, NEW retired \in SUBSET journal
    PROVE  /\ NextControl \in ControlRow
           /\ Appended(c, payload, retired) \in SUBSET Record
<1>1. control.sequence + 1 \in SequenceNumbers
  BY BoundAssumption
  DEF TypeOK, ControlRow, MayAppend, SequenceNumbers
<1>2. [fence |-> lease[c], sequence |-> control.sequence + 1,
       payload |-> payload] \in Record
  BY <1>1 DEF TypeOK, Record
<1>3. QED
  BY <1>1, <1>2 DEF TypeOK, ControlRow, NextControl, Appended

\* Observing leaves room for the next fence, so a takeover stays in range.
SeenInRange ==
    \A c \in Coordinator : phase[c] = "observed" => seen[c].fence < MaxFence

LEMMA TypeInit == Init => TypeOK /\ SeenInRange
BY BoundAssumption
DEF Init, TypeOK, SeenInRange, ControlRow, MirrorRow, Fences, SequenceNumbers,
    Phases

LEMMA TypeStep ==
    ASSUME TypeOK, SeenInRange, [Next]_leaseVars
    PROVE  TypeOK' /\ SeenInRange'
<1> USE DEF journalVars, managedVars, localVars, Move
<1>1. CASE UNCHANGED leaseVars
  BY <1>1 DEF TypeOK, SeenInRange, leaseVars
<1>2. ASSUME NEW c \in Coordinator, LeaseStep(c)
      PROVE  TypeOK' /\ SeenInRange'
  <2>1. CASE ObserveControl(c)
    <3>1. control.fence \in Fences /\ control.sequence \in SequenceNumbers
      BY DEF TypeOK, ControlRow
    <3>2. QED
      BY <2>1, <3>1, BoundAssumption
      DEF ObserveControl, TypeOK, SeenInRange, Phases
  <2>2. CASE FenceExhausted(c)
    BY <2>2 DEF FenceExhausted, TypeOK, SeenInRange, leaseVars
  <2>3. CASE AcquireAuthoritative(c)
    <3>1. seen[c].fence + 1 \in Fences
      BY <2>3, BoundAssumption
      DEF AcquireAuthoritative, TypeOK, SeenInRange, Fences
    <3>2. HeldRow(c) \in ControlRow /\ journal \in SUBSET Record
      BY <3>1, HeldRowTypes DEF TypeOK
    <3>3. /\ control' \in ControlRow
          /\ journal' \subseteq Record
          /\ late' \subseteq LateCommit
          /\ faults' \in 0 .. MaxFaults
      <4>1. CASE JournalCommit(HeldRow(c), journal)
                 \/ JournalCommitUnknown(HeldRow(c), journal)
        BY <4>1, <3>2, JournalCommitTypes
      <4>2. CASE UNCHANGED journalVars /\ (UNCHANGED faults \/ Fault)
        BY <4>2, BoundAssumption DEF TypeOK, Fault
      <4>3. QED
        BY <2>3, <4>1, <4>2 DEF AcquireAuthoritative
    <3>4. QED
      BY <2>3, <3>1, <3>3
      DEF AcquireAuthoritative, TypeOK, SeenInRange, Phases
  <2>4. CASE SettleAcquire(c)
    BY <2>4 DEF SettleAcquire, TypeOK, SeenInRange, Phases
  <2>5. CASE ObserveMirror(c)
    <3>1. mirror.fence \in Fences
      BY DEF TypeOK, MirrorRow
    <3>2. QED
      BY <2>5, <3>1 DEF ObserveMirror, TypeOK, SeenInRange, Phases
  <2>6. CASE PublishManagedFence(c)
    <3>1. /\ mirror' \in MirrorRow
          /\ lateMirror' \subseteq LateMirror
          /\ faults' \in 0 .. MaxFaults
      <4>1. PICK to \in {mirror, HeldMirror(c)} :
               MirrorCommit(to) \/ MirrorCommitUnknown(to)
        BY <2>6 DEF PublishManagedFence
      <4>2. to \in MirrorRow
        BY <4>1, HeldRowTypes DEF TypeOK
      <4>3. QED
        BY <4>1, <4>2, MirrorCommitTypes
    <3>2. QED
      BY <2>6, <3>1 DEF PublishManagedFence, TypeOK, SeenInRange, Phases
  <2>7. CASE PublishTimesOut(c)
    BY <2>7, BoundAssumption
    DEF PublishTimesOut, Fault, TypeOK, SeenInRange, Phases
  <2>8. CASE SettlePublish(c)
    BY <2>8 DEF SettlePublish, TypeOK, SeenInRange, Phases
  <2>9. CASE BeginRelease(c)
    BY <2>9 DEF BeginRelease, TypeOK, SeenInRange, Phases
  <2>10. CASE ReleaseAuthoritative(c)
    <3> DEFINE free == [control EXCEPT !.state = "free", !.holder = NoHolder]
    <3>1. free \in ControlRow /\ journal \in SUBSET Record
      BY ZenonT(60) DEF TypeOK, ControlRow
    <3> HIDE DEF free
    <3>2. /\ control' \in ControlRow
          /\ journal' \subseteq Record
          /\ late' \subseteq LateCommit
          /\ faults' \in 0 .. MaxFaults
      <4>1. CASE JournalCommit(free, journal)
                 \/ JournalCommitUnknown(free, journal)
        BY <4>1, <3>1, JournalCommitTypes
      <4>2. CASE UNCHANGED <<journalVars, faults>>
        BY <4>2 DEF TypeOK
      <4>3. QED
        BY <2>10, <4>1, <4>2 DEF ReleaseAuthoritative, free
    <3>3. QED
      BY <2>10, <3>2 DEF ReleaseAuthoritative, TypeOK, SeenInRange, Phases
  <2>11. CASE SettleRelease(c)
    BY <2>11 DEF SettleRelease, TypeOK, SeenInRange, Phases
  <2>12. CASE ReleaseManagedFence(c)
    <3> DEFINE free == [mirror EXCEPT !.state = "free", !.holder = NoHolder]
    <3>1. free \in MirrorRow /\ mirror \in MirrorRow
      BY ZenonT(60) DEF TypeOK, MirrorRow
    <3> HIDE DEF free
    <3>2. /\ mirror' \in MirrorRow
          /\ lateMirror' \subseteq LateMirror
          /\ faults' \in 0 .. MaxFaults
      <4>1. CASE \E to \in {mirror, free} :
                    MirrorCommit(to) \/ MirrorCommitUnknown(to)
        BY <4>1, <3>1, MirrorCommitTypes
      <4>2. CASE Fault /\ UNCHANGED <<mirror, lateMirror>>
        BY <4>2, BoundAssumption DEF TypeOK, Fault
      <4>3. QED
        BY <2>12, <4>1, <4>2 DEF ReleaseManagedFence, free
    <3>3. QED
      BY <2>12, <3>2 DEF ReleaseManagedFence, TypeOK, SeenInRange, Phases
  <2>13. CASE Crash(c)
    <3> DEFINE Orphaned(u) == IF u.owner = c /\ u.status = "open"
                              THEN [u EXCEPT !.status = "orphan"] ELSE u
    <3>1. txs' \subseteq Tx
      <4>1. txs' = {Orphaned(u) : u \in txs} /\ txs \subseteq Tx
        BY ZenonT(60), <2>13 DEF Crash, TypeOK
      <4>2. ASSUME NEW u \in Tx
            PROVE  Orphaned(u) \in Tx
        <5>1. [u EXCEPT !.status = "orphan"] \in Tx
          BY DEF Tx
        <5>2. QED
          BY ZenonT(60), <5>1
      <4> HIDE DEF Orphaned
      <4>3. QED
        BY ZenonT(60), <4>1, <4>2
    <3>2. QED
      BY <2>13, <3>1, BoundAssumption
      DEF Crash, Fault, TypeOK, SeenInRange, Phases
  <2>14. QED
    BY <1>2, <2>1, <2>2, <2>3, <2>4, <2>5, <2>6, <2>7, <2>8, <2>9, <2>10,
       <2>11, <2>12, <2>13 DEF LeaseStep
<1>3. ASSUME NEW c \in Coordinator, HolderStep(c)
      PROVE  TypeOK' /\ SeenInRange'
  <2>1. ASSUME NEW payload \in Payload, NEW retired \in SUBSET journal,
               \/ AppendRecord(c, payload, retired)
               \/ AppendFails(c, payload, retired)
        PROVE  TypeOK' /\ SeenInRange'
    <3>1. CASE UNCHANGED <<journalVars, faults>>
      BY <2>1, <3>1 DEF AppendRecord, AppendFails, TypeOK, SeenInRange
    <3>2. CASE /\ MayAppend(c)
               /\ \/ JournalCommit(NextControl, Appended(c, payload, retired))
                  \/ JournalCommitUnknown(NextControl,
                                          Appended(c, payload, retired))
      <4>1. /\ NextControl \in ControlRow
            /\ Appended(c, payload, retired) \in SUBSET Record
        BY <3>2, AppendTypes
      <4>2. /\ control' \in ControlRow
            /\ journal' \subseteq Record
            /\ late' \subseteq LateCommit
            /\ faults' \in 0 .. MaxFaults
        BY <3>2, <4>1, JournalCommitTypes
      <4>3. QED
        BY <2>1, <4>2 DEF AppendRecord, AppendFails, TypeOK, SeenInRange
    <3>3. QED
      BY <2>1, <3>1, <3>2 DEF AppendRecord, AppendFails
  <2>2. ASSUME NEW kind \in {"schema", "write"}, NEW work \in Work,
               OpenTransaction(c, kind, work)
        PROVE  TypeOK' /\ SeenInRange'
    <3>1. txs' \subseteq Tx
      BY <2>2 DEF OpenTransaction, TypeOK, Tx
    <3>2. QED
      BY <2>2, <3>1 DEF OpenTransaction, TypeOK, SeenInRange
  <2>3. ASSUME NEW t \in txs, CloseTransaction(c, t)
        PROVE  TypeOK' /\ SeenInRange'
    BY <2>3 DEF CloseTransaction, TypeOK, SeenInRange
  <2>4. ASSUME NEW t \in txs, NEW left \in {"committing", "orphan"},
               LoseEndReply(c, t, left)
        PROVE  TypeOK' /\ SeenInRange'
    <3>1. [t EXCEPT !.status = left] \in Tx
      BY DEF TypeOK, Tx
    <3>2. QED
      BY <2>4, <3>1, BoundAssumption
      DEF LoseEndReply, Fault, TypeOK, SeenInRange
  <2>5. QED
    BY <1>3, <2>1, <2>2, <2>3, <2>4 DEF HolderStep
<1>4. CASE ServerStep
  <2>1. CASE LateJournalCommit
    BY <2>1 DEF LateJournalCommit, TypeOK, SeenInRange, LateCommit
  <2>2. CASE LateMirrorCommit
    BY <2>2 DEF LateMirrorCommit, TypeOK, SeenInRange, LateMirror
  <2>3. ASSUME NEW t \in txs, ServerEnds(t)
        PROVE  TypeOK' /\ SeenInRange'
    BY <2>3 DEF ServerEnds, TypeOK, SeenInRange
  <2>4. QED
    BY <1>4, <2>1, <2>2, <2>3 DEF ServerStep
<1>5. QED
  BY <1>1, <1>2, <1>3, <1>4 DEF Next

\* Every row, record and lease stays in its range: the checked successors of
\* fence and sequence (checked_successor, append_record) keep both in bounds
\* however acquires, appends and late commits interleave.
THEOREM TypeCorrect == Spec => []TypeOK
<1>1. Init => TypeOK /\ SeenInRange
  BY TypeInit
<1>2. (TypeOK /\ SeenInRange) /\ [Next]_leaseVars => (TypeOK /\ SeenInRange)'
  BY TypeStep
<1>3. QED
  BY <1>1, <1>2, PTL DEF Spec

-----------------------------------------------------------------------------
(* Fencing. *)

\* The phases of a coordinator whose takeover is known to have landed.
Won(c) == phase[c] \in {"journal", "mirror", "settlingMirror"} \/ Leased(c)

\* The inductive invariant behind fencing.  Fences of both databases only grow,
\* also through commits in flight; a fence reaches the mirror only after it was
\* won in the journal; a lease is issued only after it reached the mirror; and
\* an open schema transaction is alone on the managed database.
FenceInv ==
    /\ \A w \in late : w.from.fence <= w.to.fence
    /\ \A w \in lateMirror : /\ w.from.fence <= w.to.fence
                             /\ w.to.fence <= control.fence
    /\ mirror.fence <= control.fence
    /\ \A c \in Coordinator :
          /\ Won(c) => lease[c] <= control.fence
          /\ phase[c] = "mirror" => seen[c].fence < lease[c]
          /\ Leased(c) => lease[c] <= mirror.fence
    /\ \A t \in txs : t.kind = "schema" =>
          /\ txs = {t}
          /\ lateMirror = {}
          /\ mirror.fence = t.fence

\* The numbers that FenceInv compares.
Numeric ==
    /\ control.fence \in Nat /\ mirror.fence \in Nat
    /\ \A c \in Coordinator : lease[c] \in Nat /\ seen[c].fence \in Nat
    /\ \A w \in late : w.from.fence \in Nat /\ w.to.fence \in Nat
    /\ \A w \in lateMirror : w.from.fence \in Nat /\ w.to.fence \in Nat

LEMMA FenceTypes == (TypeOK => Numeric) /\ (TypeOK' => Numeric')
BY BoundAssumption
DEF TypeOK, Numeric, ControlRow, MirrorRow, LateCommit, LateMirror, Fences

\* A step of the journal database that moves its fence forward, or leaves it,
\* and leaves the managed database and the won leases alone.
LEMMA JournalKeepsFenceInv ==
    ASSUME TypeOK, TypeOK', FenceInv,
           control.fence <= control'.fence,
           \A w \in late' : w.from.fence <= w.to.fence,
           UNCHANGED managedVars,
           \A c \in Coordinator :
              /\ Won(c)' => \/ lease'[c] <= control'.fence
                            \/ Won(c) /\ lease'[c] = lease[c]
              /\ Leased(c)' => Leased(c) /\ lease'[c] = lease[c]
              /\ phase'[c] = "mirror" => /\ phase[c] = "mirror"
                                         /\ lease'[c] = lease[c]
                                         /\ seen'[c] = seen[c]
    PROVE  FenceInv'
<1>1. /\ \A w \in lateMirror' : /\ w.from.fence <= w.to.fence
                                /\ w.to.fence <= control'.fence
      /\ mirror'.fence <= control'.fence
  BY FenceTypes DEF Numeric, FenceInv, managedVars
<1>2. ASSUME NEW c \in Coordinator
      PROVE  /\ Won(c)' => lease'[c] <= control'.fence
             /\ phase'[c] = "mirror" => seen'[c].fence < lease'[c]
             /\ Leased(c)' => lease'[c] <= mirror'.fence
  BY FenceTypes DEF Numeric, FenceInv, managedVars
<1>3. \A t \in txs' : t.kind = "schema" =>
          /\ txs' = {t}
          /\ lateMirror' = {}
          /\ mirror'.fence = t.fence
  BY DEF FenceInv, managedVars
<1>4. QED
  BY <1>1, <1>2, <1>3 DEF FenceInv

\* A step of the managed database that moves its fence forward, or leaves it,
\* while no schema transaction is open.
LEMMA MirrorKeepsFenceInv ==
    ASSUME TypeOK, TypeOK', FenceInv,
           WriteAdmitted \/ (mirror' = mirror /\ lateMirror' \subseteq lateMirror),
           mirror.fence <= mirror'.fence,
           mirror'.fence <= control.fence,
           \A w \in lateMirror' : /\ w.from.fence <= w.to.fence
                                  /\ w.to.fence <= control.fence,
           UNCHANGED <<journalVars, txs, lease, seen>>,
           \A c \in Coordinator :
              /\ Won(c)' => Won(c)
              /\ Leased(c)' => Leased(c) \/ lease[c] <= mirror'.fence
              /\ phase'[c] = "mirror" => phase[c] = "mirror"
    PROVE  FenceInv'
<1>1. ASSUME NEW c \in Coordinator
      PROVE  /\ Won(c)' => lease'[c] <= control'.fence
             /\ phase'[c] = "mirror" => seen'[c].fence < lease'[c]
             /\ Leased(c)' => lease'[c] <= mirror'.fence
  BY FenceTypes DEF Numeric, FenceInv, journalVars
<1>2. \A t \in txs' : t.kind = "schema" =>
          /\ txs' = {t}
          /\ lateMirror' = {}
          /\ mirror'.fence = t.fence
  BY DEF FenceInv, WriteAdmitted
<1>3. /\ \A w \in late' : w.from.fence <= w.to.fence
      /\ mirror'.fence <= control'.fence
      /\ \A w \in lateMirror' : /\ w.from.fence <= w.to.fence
                                /\ w.to.fence <= control'.fence
  BY DEF FenceInv, journalVars
<1>4. QED
  BY <1>1, <1>2, <1>3 DEF FenceInv

\* A commit to the control row, known or unknown, moves its fence forward when
\* the written row does.
LEMMA JournalCommitFences ==
    ASSUME TypeOK, FenceInv, NEW to, NEW rows, control.fence <= to.fence,
           JournalCommit(to, rows) \/ JournalCommitUnknown(to, rows)
    PROVE  /\ control.fence <= control'.fence
           /\ \A w \in late' : w.from.fence <= w.to.fence
<1>1. control.fence <= control.fence
  BY FenceTypes DEF Numeric
<1>2. QED
  BY <1>1 DEF JournalCommit, JournalCommitUnknown, FenceInv, journalVars

LEMMA MirrorCommitFences ==
    ASSUME TypeOK, FenceInv, NEW to, mirror.fence <= to.fence,
           to.fence <= control.fence,
           MirrorCommit(to) \/ MirrorCommitUnknown(to)
    PROVE  /\ mirror.fence <= mirror'.fence
           /\ mirror'.fence <= control.fence
           /\ \A w \in lateMirror' : /\ w.from.fence <= w.to.fence
                                     /\ w.to.fence <= control.fence
<1>1. mirror.fence <= mirror.fence
  BY FenceTypes DEF Numeric
<1>2. QED
  BY <1>1 DEF MirrorCommit, MirrorCommitUnknown, FenceInv

LEMMA FenceInit == Init => FenceInv
BY DEF Init, FenceInv, Won, Leased

LEMMA FenceStep ==
    ASSUME TypeOK, TypeOK', FenceInv, [Next]_leaseVars
    PROVE  FenceInv'
<1> USE DEF journalVars, managedVars, localVars, Move
<1>0. /\ Numeric /\ Numeric'
      /\ \A m, n \in Nat : m <= m /\ (m < n => m <= n)
      /\ phase \in [Coordinator -> Phases] /\ lease \in [Coordinator -> Fences]
      /\ seen \in [Coordinator -> [fence : Fences, sequence : SequenceNumbers]]
  BY FenceTypes DEF TypeOK
<1>1. CASE UNCHANGED leaseVars
  BY <1>1 DEF FenceInv, leaseVars, Won, Leased
<1>2. ASSUME NEW c \in Coordinator, LeaseStep(c)
      PROVE  FenceInv'
  <2>1. CASE ObserveControl(c)
    BY <2>1, <1>0, JournalKeepsFenceInv
    DEF ObserveControl, FenceInv, Won, Leased, Numeric
  <2>2. CASE FenceExhausted(c)
    BY <2>2 DEF FenceExhausted, FenceInv, leaseVars, Won, Leased
  <2>3. CASE AcquireAuthoritative(c)
    <3>1. /\ control.fence <= control'.fence
          /\ \A w \in late' : w.from.fence <= w.to.fence
      <4>1. CASE /\ TakeOverMatches(c)
                 /\ \/ JournalCommit(HeldRow(c), journal)
                    \/ JournalCommitUnknown(HeldRow(c), journal)
        <5>1. control.fence <= HeldRow(c).fence
          BY <4>1, <1>0 DEF TakeOverMatches, HeldRow, Numeric
        <5>2. QED
          BY <4>1, <5>1, JournalCommitFences
      <4>2. CASE UNCHANGED journalVars
        BY <4>2, <1>0 DEF FenceInv, Numeric
      <4>3. QED
        BY <2>3, <4>1, <4>2 DEF AcquireAuthoritative
    <3>2. ASSUME NEW d \in Coordinator
          PROVE  /\ Won(d)' => \/ lease'[d] <= control'.fence
                               \/ Won(d) /\ lease'[d] = lease[d]
                 /\ Leased(d)' => Leased(d) /\ lease'[d] = lease[d]
                 /\ phase'[d] = "mirror" => /\ phase[d] = "mirror"
                                            /\ lease'[d] = lease[d]
                                            /\ seen'[d] = seen[d]
      <4>1. CASE d # c
        BY <2>3, <4>1, <1>0 DEF AcquireAuthoritative, Won, Leased
      <4>2. CASE d = c
        <5>1. phase'[c] \in {"journal", "idle", "settling"}
          BY <2>3, <1>0 DEF AcquireAuthoritative
        <5>2. CASE phase'[c] = "journal"
          <6>1. control' = HeldRow(c) /\ lease'[c] = seen[c].fence + 1
            BY <2>3, <5>2, <1>0 DEF AcquireAuthoritative, JournalCommit
          <6>2. lease'[c] = control'.fence /\ control'.fence \in Nat
            BY <6>1, <1>0 DEF HeldRow, Numeric
          <6>3. lease'[c] <= control'.fence
            BY SMTT(30), <6>2
          <6>4. QED
            BY <4>2, <5>2, <6>3 DEF Leased
        <5>3. QED
          BY <4>2, <5>1, <5>2 DEF Won, Leased
      <4>3. QED
        BY <4>1, <4>2
    <3>3. QED
      BY <2>3, <3>1, <3>2, JournalKeepsFenceInv DEF AcquireAuthoritative
  <2>4. CASE SettleAcquire(c)
    <3>1. ASSUME NEW d \in Coordinator
          PROVE  /\ Won(d)' => \/ lease'[d] <= control'.fence
                               \/ Won(d) /\ lease'[d] = lease[d]
                 /\ Leased(d)' => Leased(d) /\ lease'[d] = lease[d]
                 /\ phase'[d] = "mirror" => /\ phase[d] = "mirror"
                                            /\ lease'[d] = lease[d]
                                            /\ seen'[d] = seen[d]
      BY <2>4, <1>0 DEF SettleAcquire, ActiveControl, Won, Leased, Numeric
    <3>2. QED
      BY ZenonT(60), <2>4, <1>0, <3>1, JournalKeepsFenceInv
      DEF SettleAcquire, FenceInv, Numeric
  <2>5. CASE ObserveMirror(c)
    <3>1. seen'[c].fence = mirror.fence
      BY <2>5, <1>0 DEF ObserveMirror
    <3>2. \A d \in Coordinator : d # c => seen'[d] = seen[d]
      BY <2>5, <1>0 DEF ObserveMirror
    <3>3. ASSUME NEW d \in Coordinator
          PROVE  /\ Won(d)' => lease'[d] <= control'.fence
                 /\ phase'[d] = "mirror" => seen'[d].fence < lease'[d]
                 /\ Leased(d)' => lease'[d] <= mirror'.fence
      BY <2>5, <3>1, <3>2, <1>0 DEF ObserveMirror, FenceInv, Won, Leased
    <3>4. QED
      BY <2>5, <3>3 DEF ObserveMirror, FenceInv
  <2>6. CASE PublishManagedFence(c)
    <3>1. PICK to \in {mirror, HeldMirror(c)} :
             /\ MirrorCommit(to) \/ MirrorCommitUnknown(to)
             /\ to = HeldMirror(c) => mirror.fence = seen[c].fence
                                      \/ to = mirror
      BY <2>6 DEF PublishManagedFence
    <3>2. mirror.fence <= to.fence /\ to.fence <= control.fence
      <4>1. /\ mirror.fence \in Nat /\ control.fence \in Nat
            /\ lease[c] \in Nat /\ seen[c].fence \in Nat
        BY <1>0 DEF Numeric
      <4>2. /\ mirror.fence <= control.fence
            /\ lease[c] <= control.fence /\ seen[c].fence < lease[c]
        BY <2>6 DEF PublishManagedFence, FenceInv, Won
      <4>3. CASE to = mirror
        BY <4>1, <4>2, <4>3
      <4>4. CASE to = HeldMirror(c) /\ mirror.fence = seen[c].fence
        BY <4>1, <4>2, <4>4 DEF HeldMirror
      <4>5. QED
        BY <3>1, <4>3, <4>4
    <3>3. /\ mirror.fence <= mirror'.fence
          /\ mirror'.fence <= control.fence
          /\ \A w \in lateMirror' : /\ w.from.fence <= w.to.fence
                                    /\ w.to.fence <= control.fence
      BY <3>1, <3>2, MirrorCommitFences
    <3>4. phase'[c] = "held" => lease[c] <= mirror'.fence
      <4>1. phase'[c] = "held" => mirror'.fence = lease[c]
        BY <2>6, <1>0 DEF PublishManagedFence, MirrorCommit, HeldMirror
      <4>2. lease[c] \in Nat
        BY <1>0 DEF Numeric
      <4>3. QED
        BY <4>1, <4>2
    <3>5. ASSUME NEW d \in Coordinator
          PROVE  /\ Won(d)' => Won(d)
                 /\ Leased(d)' => Leased(d) \/ lease[d] <= mirror'.fence
                 /\ phase'[d] = "mirror" => phase[d] = "mirror"
      BY <2>6, <3>4, <1>0 DEF PublishManagedFence, Won, Leased
    <3>6. QED
      BY <2>6, <3>3, <3>5, MirrorKeepsFenceInv DEF PublishManagedFence
  <2>7. CASE PublishTimesOut(c)
    BY ZenonT(60), <2>7, <1>0, MirrorKeepsFenceInv
    DEF PublishTimesOut, FenceInv, Won, Leased, Numeric
  <2>8. CASE SettlePublish(c)
    <3>1. phase'[c] = "held" => lease[c] <= mirror'.fence
      <4>1. phase'[c] = "held" => ActiveMirror(c)
        BY SMTT(30), <2>8, <1>0 DEF SettlePublish
      <4>2. ActiveMirror(c) => mirror.fence = lease[c]
        BY SMTT(30) DEF ActiveMirror, HeldMirror
      <4>3. mirror' = mirror /\ lease[c] \in Nat
        BY ZenonT(60), <2>8, <1>0 DEF SettlePublish, Numeric
      <4>4. QED
        BY SMTT(30), <4>1, <4>2, <4>3
    <3>2. ASSUME NEW d \in Coordinator
          PROVE  /\ Won(d)' => Won(d)
                 /\ Leased(d)' => Leased(d) \/ lease[d] <= mirror'.fence
                 /\ phase'[d] = "mirror" => phase[d] = "mirror"
      BY <2>8, <3>1, <1>0 DEF SettlePublish, Won, Leased
    <3>3. UNCHANGED <<control, journal, late, mirror, lateMirror, txs, lease, seen>>
      BY <2>8 DEF SettlePublish
    <3>4. /\ mirror.fence <= mirror'.fence
          /\ mirror'.fence <= control.fence
          /\ \A w \in lateMirror' : /\ w.from.fence <= w.to.fence
                                    /\ w.to.fence <= control.fence
      BY SMTT(30), <1>0, <3>3 DEF FenceInv, Numeric
    <3>5. QED
      BY ZenonT(60), <3>2, <3>3, <3>4, MirrorKeepsFenceInv
  <2>9. CASE BeginRelease(c)
    BY <2>9, <1>0, MirrorKeepsFenceInv
    DEF BeginRelease, FenceInv, Won, Leased, Numeric
  <2>10. CASE ReleaseAuthoritative(c)
    <3> DEFINE free == [control EXCEPT !.state = "free", !.holder = NoHolder]
    <3>1. control.fence <= free.fence
      BY <1>0 DEF Numeric, TypeOK, ControlRow
    <3> HIDE DEF free
    <3>2. /\ control.fence <= control'.fence
          /\ \A w \in late' : w.from.fence <= w.to.fence
      <4>1. CASE JournalCommit(free, journal)
                 \/ JournalCommitUnknown(free, journal)
        BY <4>1, <3>1, JournalCommitFences
      <4>2. CASE UNCHANGED journalVars
        BY <4>2, <1>0 DEF FenceInv, Numeric
      <4>3. QED
        BY <2>10, <4>1, <4>2 DEF ReleaseAuthoritative, free
    <3>3. QED
      BY <2>10, <3>2, <1>0, JournalKeepsFenceInv
      DEF ReleaseAuthoritative, Won, Leased
  <2>11. CASE SettleRelease(c)
    BY <2>11, <1>0, MirrorKeepsFenceInv
    DEF SettleRelease, FenceInv, Won, Leased, Numeric
  <2>12. CASE ReleaseManagedFence(c)
    <3> DEFINE free == [mirror EXCEPT !.state = "free", !.holder = NoHolder]
    <3>1. mirror.fence <= free.fence /\ free.fence <= control.fence
      BY <1>0 DEF Numeric, FenceInv, TypeOK, MirrorRow
    <3> HIDE DEF free
    <3>2. /\ mirror.fence <= mirror'.fence
          /\ mirror'.fence <= control.fence
          /\ \A w \in lateMirror' : /\ w.from.fence <= w.to.fence
                                    /\ w.to.fence <= control.fence
      <4>1. CASE MirrorCommit(free) \/ MirrorCommitUnknown(free)
        BY <4>1, <3>1, MirrorCommitFences
      <4>2. CASE UNCHANGED <<mirror, lateMirror>>
        BY <4>2, <1>0 DEF FenceInv, Numeric
      <4>3. QED
        BY <2>12, <4>1, <4>2 DEF ReleaseManagedFence, free, MirrorCommit
    <3>3. WriteAdmitted \/ (mirror' = mirror /\ lateMirror' \subseteq lateMirror)
      BY <2>12 DEF ReleaseManagedFence
    <3>4. QED
      BY <2>12, <3>2, <3>3, <1>0, MirrorKeepsFenceInv
      DEF ReleaseManagedFence, Won, Leased
  <2>13. CASE Crash(c)
    <3>1. \A d \in Coordinator : phase'[d] \in {phase[d], "idle"}
      BY <2>13, <1>0 DEF Crash
    <3>2. ASSUME NEW t \in txs', t.kind = "schema"
          PROVE  txs' = {t} /\ lateMirror' = {} /\ mirror'.fence = t.fence
      <4> DEFINE Orphaned(u) == IF u.owner = c /\ u.status = "open"
                                THEN [u EXCEPT !.status = "orphan"] ELSE u
      <4>1. PICK u \in txs : t = Orphaned(u)
        BY <2>13 DEF Crash
      <4>2. u.kind = "schema" /\ t.fence = u.fence
        BY <4>1, <3>2 DEF TypeOK, Tx
      <4>3. txs = {u} /\ lateMirror = {} /\ mirror.fence = u.fence
        BY <4>2 DEF FenceInv
      <4>4. txs' = {Orphaned(v) : v \in txs}
        BY <2>13 DEF Crash
      <4>5. txs' = {t}
        BY <4>1, <4>3, <4>4
      <4>6. QED
        BY <2>13, <4>2, <4>3, <4>5 DEF Crash
    <3>3. QED
      BY <2>13, <3>1, <3>2, <1>0 DEF Crash, FenceInv, Won, Leased
  <2>14. QED
    BY <1>2, <2>1, <2>2, <2>3, <2>4, <2>5, <2>6, <2>7, <2>8, <2>9, <2>10,
       <2>11, <2>12, <2>13 DEF LeaseStep
<1>3. ASSUME NEW c \in Coordinator, HolderStep(c)
      PROVE  FenceInv'
  <2>1. ASSUME NEW payload \in Payload, NEW retired \in SUBSET journal,
               \/ AppendRecord(c, payload, retired)
               \/ AppendFails(c, payload, retired)
        PROVE  FenceInv'
    <3>1. control.fence <= NextControl.fence
      BY <1>0 DEF Numeric, NextControl, TypeOK, ControlRow
    <3>2. /\ control.fence <= control'.fence
          /\ \A w \in late' : w.from.fence <= w.to.fence
      <4>1. CASE UNCHANGED journalVars
        BY <4>1, <1>0 DEF FenceInv, Numeric
      <4>2. CASE \/ JournalCommit(NextControl, Appended(c, payload, retired))
                 \/ JournalCommitUnknown(NextControl,
                                         Appended(c, payload, retired))
        BY <4>2, <3>1, JournalCommitFences
      <4>3. QED
        BY <2>1, <4>1, <4>2 DEF AppendRecord, AppendFails
    <3>3. QED
      BY <2>1, <3>2, JournalKeepsFenceInv
      DEF AppendRecord, AppendFails, Won, Leased
  <2>2. ASSUME NEW kind \in {"schema", "write"}, NEW work \in Work,
               OpenTransaction(c, kind, work)
        PROVE  FenceInv'
    <3> DEFINE new == [kind |-> kind, owner |-> c, fence |-> lease[c],
                       status |-> "open", work |-> work]
    <3>1. ASSUME NEW t \in txs', t.kind = "schema"
          PROVE  txs' = {t} /\ lateMirror' = {} /\ mirror'.fence = t.fence
      <4>1. CASE kind = "schema"
        BY <2>2, <4>1
        DEF OpenTransaction, SchemaAdmitted, ActiveMirror, HeldMirror
      <4>2. CASE kind = "write"
        BY <2>2, <3>1, <4>2 DEF OpenTransaction, WriteAdmitted
      <4>3. QED
        BY <4>1, <4>2
    <3>2. QED
      BY <2>2, <3>1 DEF OpenTransaction, FenceInv, Won, Leased
  <2>3. ASSUME NEW t \in txs, CloseTransaction(c, t)
        PROVE  FenceInv'
    BY <2>3 DEF CloseTransaction, FenceInv, Won, Leased
  <2>4. ASSUME NEW t \in txs, NEW left \in {"committing", "orphan"},
               LoseEndReply(c, t, left)
        PROVE  FenceInv'
    <3> DEFINE sent == [t EXCEPT !.status = left]
    <3>1. sent.kind = t.kind /\ sent.fence = t.fence
      BY DEF TypeOK, Tx
    <3> HIDE DEF sent
    <3>2. txs' = (txs \ {t}) \cup {sent}
      BY <2>4 DEF LoseEndReply, sent
    <3>3. ASSUME NEW u \in txs', u.kind = "schema"
          PROVE  txs' = {u} /\ lateMirror' = {} /\ mirror'.fence = u.fence
      BY <2>4, <3>1, <3>2, <3>3 DEF LoseEndReply, FenceInv
    <3>4. QED
      BY <2>4, <3>3 DEF LoseEndReply, FenceInv, Won, Leased
  <2>5. QED
    BY <1>3, <2>1, <2>2, <2>3, <2>4 DEF HolderStep
<1>4. CASE ServerStep
  <2>1. CASE LateJournalCommit
    <3>1. /\ control.fence <= control'.fence
          /\ \A w \in late' : w.from.fence <= w.to.fence
      BY <2>1, <1>0 DEF LateJournalCommit, FenceInv, Numeric
    <3>2. QED
      BY <2>1, <3>1, JournalKeepsFenceInv DEF LateJournalCommit, Won, Leased
  <2>2. CASE LateMirrorCommit
    <3>1. PICK w \in lateMirror :
             /\ lateMirror' = lateMirror \ {w}
             /\ mirror' = mirror \/ (mirror = w.from /\ mirror' = w.to)
      BY <2>2 DEF LateMirrorCommit
    <3>2. /\ mirror.fence <= mirror'.fence
          /\ mirror'.fence <= control.fence
      BY <3>1, <1>0 DEF FenceInv, Numeric
    <3>3. WriteAdmitted
      BY <3>1 DEF WriteAdmitted, FenceInv
    <3>4. QED
      BY <2>2, <3>1, <3>2, <3>3, MirrorKeepsFenceInv
      DEF LateMirrorCommit, FenceInv, Won, Leased
  <2>3. ASSUME NEW t \in txs, ServerEnds(t)
        PROVE  FenceInv'
    BY <2>3 DEF ServerEnds, FenceInv, Won, Leased
  <2>4. QED
    BY <1>4, <2>1, <2>2, <2>3 DEF ServerStep
<1>5. QED
  BY <1>1, <1>2, <1>3, <1>4 DEF Next

LEMMA FenceInvariant == Spec => [](TypeOK /\ SeenInRange /\ FenceInv)
<1>1. Init => TypeOK /\ SeenInRange /\ FenceInv
  BY TypeInit, FenceInit
<1>2. (TypeOK /\ SeenInRange /\ FenceInv) /\ [Next]_leaseVars
         => (TypeOK /\ SeenInRange /\ FenceInv)'
  BY TypeStep, FenceStep
<1>3. QED
  BY <1>1, <1>2, PTL DEF Spec

\* The mirror lags the authoritative row and never an issued lease.
THEOREM MirrorLags == Spec => []MirrorBetweenLeaseAndControl
<1>1. FenceInv => MirrorBetweenLeaseAndControl
  BY DEF FenceInv, MirrorBetweenLeaseAndControl
<1>2. QED
  BY <1>1, FenceInvariant, PTL

\* An open schema transaction, or one whose commit is undecided, runs under the
\* newest lease anyone acts on: require_active_managed_fence inside the
\* transaction, with the exclusion of writers, fences it until it ends.
THEOREM SchemaFenced == Spec => []SchemaTransactionFenced
<1>1. FenceInv => SchemaTransactionFenced
  BY DEF FenceInv, SchemaTransactionFenced
<1>2. QED
  BY <1>1, FenceInvariant, PTL

-----------------------------------------------------------------------------
(* The journal. *)

\* Every write of the control row moves it strictly forward in this order, so
\* a row that was replaced never comes back and no late commit can match it.
Before(a, b) ==
    \/ a.fence < b.fence
    \/ a.fence = b.fence /\ a.sequence < b.sequence
    \/ /\ a.fence = b.fence /\ a.sequence = b.sequence
       /\ a.state = "held" /\ b.state = "free"

\* What every commit to the journal database, landed or in flight, satisfies:
\* it moves the row forward, keeps the rows ordered, adds rows of the current
\* fence only, and keeps the holder as long as it keeps the fence.
Advance(from, old, to, rows) ==
    /\ Before(from, to)
    /\ Ordered(rows, to)
    /\ \A r \in rows \ old : r.fence = from.fence
    /\ from.fence = to.fence /\ to.state = "held" =>
          from.state = "held" /\ to.holder = from.holder

JournalInv ==
    /\ Ordered(journal, control)
    /\ \A w \in late :
          /\ Before(w.from, w.to)
          /\ Ordered(w.rows, w.to)
          /\ w.from.fence = w.to.fence /\ w.to.state = "held" =>
                w.from.state = "held" /\ w.to.holder = w.from.holder
          /\ w.from = control \/ Before(w.from, control)
          /\ w.from = control => \A r \in w.rows \ journal :
                                    r.fence = control.fence

LEMMA BeforeStrict ==
    ASSUME NEW a \in ControlRow, NEW b \in ControlRow, NEW d \in ControlRow,
           Before(b, d)
    PROVE  /\ b # d
           /\ Before(a, b) => Before(a, d) /\ a # d
BY BoundAssumption DEF Before, ControlRow, Fences, SequenceNumbers

LEMMA AdvanceKeepsJournalInv ==
    ASSUME TypeOK, JournalInv,
           NEW to \in ControlRow, NEW rows \in SUBSET Record,
           Advance(control, journal, to, rows),
           JournalCommit(to, rows) \/ JournalCommitUnknown(to, rows)
    PROVE  JournalInv'
<1>1. \A w \in late : w.from \in ControlRow /\ control \in ControlRow
  BY DEF TypeOK, LateCommit
<1>2. CASE control' = to /\ journal' = rows /\ late' = late
  <2>1. ASSUME NEW w \in late
        PROVE  Before(w.from, to) /\ w.from # to
    BY <1>1, BeforeStrict DEF JournalInv, Advance
  <2>2. QED
    BY <1>2, <2>1 DEF JournalInv, Advance
<1>3. CASE UNCHANGED journalVars
  BY <1>3 DEF JournalInv, journalVars
<1>4. CASE /\ late' = late \cup {[from |-> control, to |-> to, rows |-> rows]}
           /\ UNCHANGED <<control, journal>>
  <2> DEFINE new == [from |-> control, to |-> to, rows |-> rows]
  <2>1. new.from = control /\ new.to = to /\ new.rows = rows
    OBVIOUS
  <2> HIDE DEF new
  <2>2. late' = late \cup {new}
    BY <1>4 DEF new
  <2>3. ASSUME NEW w \in late'
        PROVE  /\ Before(w.from, w.to)
               /\ Ordered(w.rows, w.to)
               /\ w.from.fence = w.to.fence /\ w.to.state = "held" =>
                     w.from.state = "held" /\ w.to.holder = w.from.holder
               /\ w.from = control \/ Before(w.from, control)
               /\ w.from = control => \A r \in w.rows \ journal :
                                         r.fence = control.fence
    <3>1. CASE w \in late
      BY <3>1 DEF JournalInv
    <3>2. CASE w = new
      BY <2>1, <3>2 DEF Advance
    <3>3. QED
      BY ZenonT(60), <2>2, <3>1, <3>2
  <2>4. QED
    BY <1>4, <2>3 DEF JournalInv
<1>5. QED
  BY <1>2, <1>3, <1>4 DEF JournalCommit, JournalCommitUnknown

LEMMA TakeOverAdvances ==
    ASSUME TypeOK, JournalInv, NEW c \in Coordinator, TakeOverMatches(c)
    PROVE  Advance(control, journal, HeldRow(c), journal)
<1>1. /\ control.fence \in Nat
      /\ HeldRow(c).fence = control.fence + 1
      /\ HeldRow(c).sequence = control.sequence
  BY BoundAssumption
  DEF TakeOverMatches, HeldRow, TypeOK, ControlRow, Fences
<1>2. Before(control, HeldRow(c)) /\ control.fence # HeldRow(c).fence
  BY <1>1 DEF Before
<1>3. \A r \in journal : r.fence \in Nat
  BY BoundAssumption DEF TypeOK, Record, Fences
<1>4. Ordered(journal, HeldRow(c))
  <2>1. \A r \in journal :
           r.sequence <= HeldRow(c).sequence /\ r.fence <= control.fence
    BY <1>1 DEF JournalInv, Ordered
  <2>2. \A r \in journal : r.fence <= HeldRow(c).fence
    BY <1>1, <1>3, <2>1
  <2>3. QED
    BY <2>1, <2>2 DEF JournalInv, Ordered
<1>5. QED
  BY <1>2, <1>4 DEF Advance

LEMMA ReleaseAdvances ==
    ASSUME TypeOK, JournalInv, control.state = "held"
    PROVE  LET free == [control EXCEPT !.state = "free", !.holder = NoHolder]
           IN free \in ControlRow /\ Advance(control, journal, free, journal)
<1> DEFINE free == [control EXCEPT !.state = "free", !.holder = NoHolder]
<1>1. /\ free \in ControlRow
      /\ free.fence = control.fence /\ free.sequence = control.sequence
      /\ free.state = "free"
  BY ZenonT(60) DEF TypeOK, ControlRow
<1> HIDE DEF free
<1>2. Before(control, free) /\ Ordered(journal, free)
  BY <1>1 DEF Before, JournalInv, Ordered
<1>3. Advance(control, journal, free, journal)
  BY <1>1, <1>2 DEF Advance
<1>4. QED
  BY <1>1, <1>3 DEF free

LEMMA AppendAdvances ==
    ASSUME TypeOK, JournalInv, NEW c \in Coordinator, MayAppend(c),
           NEW payload \in Payload, NEW retired \in SUBSET journal
    PROVE  Advance(control, journal, NextControl, Appended(c, payload, retired))
<1> DEFINE new == [fence |-> lease[c], sequence |-> control.sequence + 1,
                   payload |-> payload]
<1>1. /\ NextControl.fence = control.fence
      /\ NextControl.sequence = control.sequence + 1
      /\ NextControl.state = control.state
      /\ NextControl.holder = control.holder
      /\ control.sequence \in Nat /\ control.fence \in Nat
  BY BoundAssumption
  DEF NextControl, TypeOK, ControlRow, Fences, SequenceNumbers
<1>2. /\ new.fence = control.fence /\ new.sequence = control.sequence + 1
      /\ control.state = "held"
  BY DEF MayAppend, ActiveControl
<1>3. Appended(c, payload, retired) = (journal \ retired) \cup {new}
  BY DEF Appended
<1> HIDE DEF new
<1>4. \A r \in journal : /\ r.sequence \in Nat /\ r.fence \in Nat
                         /\ r.sequence <= control.sequence
                         /\ r.fence <= control.fence
  BY SMTT(30), BoundAssumption
  DEF JournalInv, Ordered, TypeOK, Record, Fences, SequenceNumbers
<1>5. Ordered(Appended(c, payload, retired), NextControl)
  <2>1. \A r \in Appended(c, payload, retired) :
           r.sequence <= NextControl.sequence /\ r.fence <= NextControl.fence
    BY SMTT(30), <1>1, <1>2, <1>3, <1>4
  <2>2. ASSUME NEW r \in Appended(c, payload, retired),
               NEW s \in Appended(c, payload, retired)
        PROVE  /\ r.sequence = s.sequence => r = s
               /\ r.sequence < s.sequence => r.fence <= s.fence
    <3>1. CASE r \in journal /\ s \in journal
      BY <3>1 DEF JournalInv, Ordered
    <3>2. CASE r = new /\ s = new
      BY <1>1, <1>2, <3>2
    <3>3. CASE r \in journal /\ s = new
      BY <1>1, <1>2, <1>4, <3>3
    <3>4. CASE r = new /\ s \in journal
      BY <1>1, <1>2, <1>4, <3>4
    <3>5. QED
      BY <1>3, <3>1, <3>2, <3>3, <3>4
  <2>3. QED
    BY <2>1, <2>2 DEF Ordered
<1>6. Before(control, NextControl)
  BY <1>1 DEF Before
<1>7. QED
  BY <1>1, <1>2, <1>3, <1>5, <1>6 DEF Advance

LEMMA JournalInit == Init => JournalInv
BY DEF Init, JournalInv, Ordered

\* Every step leaves the journal database alone, commits an advance to it, or
\* finishes a commit in flight.
LEMMA JournalSteps ==
    ASSUME TypeOK, SeenInRange, JournalInv, [Next]_leaseVars
    PROVE  \/ UNCHANGED journalVars
           \/ \E to \in ControlRow, rows \in SUBSET Record :
                 /\ Advance(control, journal, to, rows)
                 /\ JournalCommit(to, rows) \/ JournalCommitUnknown(to, rows)
           \/ LateJournalCommit
<1> DEFINE Commits == \E to \in ControlRow, rows \in SUBSET Record :
                 /\ Advance(control, journal, to, rows)
                 /\ JournalCommit(to, rows) \/ JournalCommitUnknown(to, rows)
<1>1. ASSUME NEW c \in Coordinator, AcquireAuthoritative(c)
      PROVE  UNCHANGED journalVars \/ Commits
  <2>1. CASE /\ TakeOverMatches(c)
             /\ \/ JournalCommit(HeldRow(c), journal)
                \/ JournalCommitUnknown(HeldRow(c), journal)
    <3>1. HeldRow(c) \in ControlRow /\ journal \in SUBSET Record
      <4>1. seen[c].fence + 1 \in Fences
        BY <1>1, BoundAssumption
        DEF AcquireAuthoritative, TypeOK, SeenInRange, Fences
      <4>2. QED
        BY <4>1, HeldRowTypes DEF TypeOK
    <3>2. Advance(control, journal, HeldRow(c), journal)
      BY <2>1, TakeOverAdvances
    <3>3. QED
      BY <2>1, <3>1, <3>2
  <2>2. QED
    BY <1>1, <2>1 DEF AcquireAuthoritative
<1>2. ASSUME NEW c \in Coordinator, ReleaseAuthoritative(c)
      PROVE  UNCHANGED journalVars \/ Commits
  <2> DEFINE free == [control EXCEPT !.state = "free", !.holder = NoHolder]
  <2>1. CASE ActiveControl(c)
    <3>1. free \in ControlRow /\ Advance(control, journal, free, journal)
      BY <2>1, ReleaseAdvances DEF ActiveControl
    <3>2. journal \in SUBSET Record
      BY DEF TypeOK
    <3>3. \/ JournalCommit(free, journal)
          \/ JournalCommitUnknown(free, journal)
      BY <1>2, <2>1 DEF ReleaseAuthoritative
    <3> HIDE DEF free
    <3>4. QED
      BY <3>1, <3>2, <3>3
  <2>2. CASE ~ActiveControl(c)
    BY <1>2, <2>2 DEF ReleaseAuthoritative, journalVars
  <2>3. QED
    BY <2>1, <2>2
<1>3. ASSUME NEW c \in Coordinator, NEW payload \in Payload,
             NEW retired \in SUBSET journal,
             \/ AppendRecord(c, payload, retired)
             \/ AppendFails(c, payload, retired)
      PROVE  UNCHANGED journalVars \/ Commits
  <2>1. CASE MayAppend(c)
    <3>1. /\ NextControl \in ControlRow
          /\ Appended(c, payload, retired) \in SUBSET Record
          /\ Advance(control, journal, NextControl,
                     Appended(c, payload, retired))
      BY <2>1, AppendTypes, AppendAdvances
    <3>2. QED
      BY <1>3, <2>1, <3>1 DEF AppendRecord, AppendFails
  <2>2. CASE ~MayAppend(c)
    BY <1>3, <2>2 DEF AppendRecord, AppendFails, journalVars
  <2>3. QED
    BY <2>1, <2>2
<1> HIDE DEF Commits
<1>4. ASSUME NEW c \in Coordinator, LeaseStep(c)
      PROVE  UNCHANGED journalVars \/ Commits
  BY <1>1, <1>2, <1>4
  DEF LeaseStep, ObserveControl, FenceExhausted, SettleAcquire, ObserveMirror,
      PublishManagedFence, PublishTimesOut, SettlePublish, BeginRelease,
      SettleRelease, ReleaseManagedFence, Crash, journalVars, leaseVars
<1>5. ASSUME NEW c \in Coordinator, HolderStep(c)
      PROVE  UNCHANGED journalVars \/ Commits
  BY <1>3, <1>5
  DEF HolderStep, OpenTransaction, CloseTransaction, LoseEndReply,
      journalVars
<1>6. CASE ServerStep
  BY <1>6 DEF ServerStep, LateMirrorCommit, ServerEnds, journalVars
<1>7. QED
  BY <1>4, <1>5, <1>6 DEF Next, Commits, leaseVars, journalVars

LEMMA JournalStep ==
    ASSUME TypeOK, SeenInRange, JournalInv, [Next]_leaseVars
    PROVE  JournalInv'
<1>1. CASE UNCHANGED journalVars
  BY <1>1 DEF JournalInv, journalVars
<1>2. CASE \E to \in ControlRow, rows \in SUBSET Record :
              /\ Advance(control, journal, to, rows)
              /\ JournalCommit(to, rows) \/ JournalCommitUnknown(to, rows)
  BY <1>2, AdvanceKeepsJournalInv
<1>3. CASE LateJournalCommit
  <2>1. PICK w \in late :
           /\ late' = late \ {w}
           /\ \/ control = w.from /\ control' = w.to /\ journal' = w.rows
              \/ UNCHANGED <<control, journal>>
    BY <1>3 DEF LateJournalCommit
  <2>2. CASE control = w.from /\ control' = w.to /\ journal' = w.rows
    <3>1. ASSUME NEW v \in late
          PROVE  Before(v.from, w.to) /\ v.from # w.to
      <4>1. /\ v.from \in ControlRow /\ w.from \in ControlRow
            /\ w.to \in ControlRow /\ Before(w.from, w.to)
            /\ v.from = w.from \/ Before(v.from, w.from)
        BY <2>2 DEF TypeOK, LateCommit, JournalInv
      <4>2. QED
        BY <4>1, BeforeStrict
    <3>2. QED
      BY <2>1, <2>2, <3>1 DEF JournalInv
  <2>3. CASE UNCHANGED <<control, journal>>
    BY <2>1, <2>3 DEF JournalInv
  <2>4. QED
    BY <2>1, <2>2, <2>3
<1>4. QED
  BY <1>1, <1>2, <1>3, JournalSteps

LEMMA LeaseInvariant ==
    Spec => [](TypeOK /\ SeenInRange /\ FenceInv /\ JournalInv)
<1>1. Init => TypeOK /\ SeenInRange /\ FenceInv /\ JournalInv
  BY TypeInit, FenceInit, JournalInit
<1>2. (TypeOK /\ SeenInRange /\ FenceInv /\ JournalInv) /\ [Next]_leaseVars
         => (TypeOK /\ SeenInRange /\ FenceInv /\ JournalInv)'
  BY TypeStep, FenceStep, JournalStep
<1>3. QED
  BY <1>1, <1>2, PTL DEF Spec

\* The journal a loader reads is ordered by sequence and fence, whatever
\* appends landed after their reply was lost.
THEOREM JournalStaysOrdered == Spec => []JournalOrdered
<1>1. JournalInv => JournalOrdered
  BY DEF JournalInv, JournalOrdered
<1>2. QED
  BY <1>1, LeaseInvariant, PTL

\* No record of an older lease lands once acquire has returned a newer one: a
\* commit in flight matches the exact control row it read, and a takeover
\* replaced that row for good.
THEOREM ResumedJournalStaysFinal == Spec => ResumedJournalIsFinal
<1>1. ASSUME TypeOK, SeenInRange, FenceInv, JournalInv, [Next]_leaseVars,
             NEW r \in journal' \ journal, NEW c \in Coordinator, Leased(c)
      PROVE  lease[c] <= r.fence
  <2>1. r.fence = control.fence
    BY ZenonT(60), <1>1, JournalSteps
    DEF Advance, JournalCommit, JournalCommitUnknown, LateJournalCommit,
        JournalInv, journalVars
  <2>2. lease[c] <= mirror.fence /\ mirror.fence <= control.fence
    BY ZenonT(60), <1>1 DEF FenceInv
  <2>3. /\ lease[c] \in Nat /\ mirror.fence \in Nat
        /\ control.fence \in Nat
    BY ZenonT(60), <1>1, FenceTypes DEF Numeric
  <2>4. QED
    BY SMTT(30), <2>1, <2>2, <2>3
<1>2. TypeOK /\ SeenInRange /\ FenceInv /\ JournalInv /\ [Next]_leaseVars
      => [\A r \in journal' \ journal : \A c \in Coordinator :
             Leased(c) => lease[c] <= r.fence]_leaseVars
  BY <1>1
<1>3. QED
  BY <1>2, LeaseInvariant, PTL DEF Spec, ResumedJournalIsFinal

-----------------------------------------------------------------------------
(* One lease per fence, when every coordinator has a label of its own. *)

DistinctHolders ==
    \A c, d \in Coordinator : HolderOf[c] = HolderOf[d] => c = d

\* The holder of the newest fence is the coordinator that won it, and no two
\* coordinators won the same fence.
UniqueInv ==
    /\ \A d \in Coordinator :
          Won(d) /\ lease[d] = control.fence /\ control.state = "held"
             => control.holder = HolderOf[d]
    /\ \A c, d \in Coordinator : Won(c) /\ Won(d) /\ lease[c] = lease[d] => c = d

\* A step keeps the holder as long as it keeps the fence.
LEMMA ControlMoves ==
    ASSUME TypeOK, TypeOK', SeenInRange, JournalInv, [Next]_leaseVars
    PROVE  \/ control.fence < control'.fence
           \/ /\ control'.fence = control.fence
              /\ control'.state = "held" => /\ control.state = "held"
                                            /\ control'.holder = control.holder
<1>1. \A to \in ControlRow, rows \in SUBSET Record :
         Advance(control, journal, to, rows) =>
            \/ control.fence < to.fence
            \/ /\ to.fence = control.fence
               /\ to.state = "held" => /\ control.state = "held"
                                       /\ to.holder = control.holder
  BY DEF Advance, Before
<1>2. CASE UNCHANGED journalVars
  BY <1>2 DEF journalVars
<1>3. CASE \E to \in ControlRow, rows \in SUBSET Record :
              /\ Advance(control, journal, to, rows)
              /\ JournalCommit(to, rows) \/ JournalCommitUnknown(to, rows)
  BY <1>1, <1>3 DEF JournalCommit, JournalCommitUnknown, journalVars
<1>4. CASE LateJournalCommit
  <2>1. PICK w \in late : \/ control = w.from /\ control' = w.to
                          \/ UNCHANGED control
    BY <1>4 DEF LateJournalCommit
  <2>2. /\ Before(w.from, w.to)
        /\ w.from.fence = w.to.fence /\ w.to.state = "held" =>
              w.from.state = "held" /\ w.to.holder = w.from.holder
    BY DEF JournalInv
  <2>3. QED
    BY <2>1, <2>2 DEF Before
<1>5. QED
  BY <1>2, <1>3, <1>4, JournalSteps

LEMMA UniqueStep ==
    ASSUME DistinctHolders, TypeOK, TypeOK', SeenInRange, FenceInv, JournalInv,
           UniqueInv, [Next]_leaseVars
    PROVE  UniqueInv'
<1> USE DEF journalVars, managedVars, localVars, Move
<1>1. /\ Numeric /\ Numeric'
      /\ phase \in [Coordinator -> Phases] /\ lease \in [Coordinator -> Fences]
  BY SMTT(30), FenceTypes DEF TypeOK
<1>2. CASE \A d \in Coordinator : Won(d)' => Won(d) /\ lease'[d] = lease[d]
  <2>1. ASSUME NEW d \in Coordinator, Won(d)', lease'[d] = control'.fence,
               control'.state = "held"
        PROVE  control'.holder = HolderOf[d]
    <3>1. Won(d) /\ lease[d] = control'.fence /\ lease[d] <= control.fence
      BY <1>2, <2>1 DEF FenceInv
    <3>2. control.fence \in Nat /\ control'.fence \in Nat
      BY <1>1 DEF Numeric
    <3>3. ~(control.fence < control'.fence)
      BY <3>1, <3>2
    <3>4. /\ control'.fence = control.fence /\ control.state = "held"
          /\ control'.holder = control.holder
      BY <2>1, <3>3, ControlMoves
    <3>5. QED
      BY <3>1, <3>4 DEF UniqueInv
  <2>2. ASSUME NEW c \in Coordinator, NEW d \in Coordinator,
               Won(c)', Won(d)', lease'[c] = lease'[d]
        PROVE  c = d
    BY <1>2, <2>2 DEF UniqueInv
  <2>3. QED
    BY <2>1, <2>2 DEF UniqueInv
<1>3. ASSUME NEW c \in Coordinator, AcquireAuthoritative(c)
      PROVE  UniqueInv'
  <2>1. CASE phase'[c] # "journal"
    BY <1>1, <1>2, <1>3, <2>1 DEF AcquireAuthoritative, Won, Leased
  <2>2. CASE phase'[c] = "journal"
    <3>1. /\ control' = HeldRow(c)
          /\ control'.fence = control.fence + 1
          /\ control'.holder = HolderOf[c]
          /\ lease'[c] = control.fence + 1
      <4>1. /\ control' = HeldRow(c) /\ lease'[c] = seen[c].fence + 1
            /\ control.fence = seen[c].fence
        BY ZenonT(60), <1>1, <1>3, <2>2
        DEF AcquireAuthoritative, JournalCommit, TakeOverMatches
      <4>2. QED
        BY <4>1 DEF HeldRow
    <3>2. ASSUME NEW d \in Coordinator, d # c, Won(d)'
          PROVE  Won(d) /\ lease'[d] = lease[d] /\ lease'[d] < control'.fence
      <4>1. phase'[d] = phase[d] /\ lease'[d] = lease[d]
        BY <1>1, <1>3, <3>2 DEF AcquireAuthoritative
      <4>2. Won(d)
        BY <3>2, <4>1 DEF Won, Leased
      <4>3. lease[d] <= control.fence
        BY <4>2 DEF FenceInv
      <4>4. lease[d] \in Nat /\ control.fence \in Nat
        BY <1>1 DEF Numeric
      <4>5. lease[d] < control.fence + 1
        BY <4>3, <4>4
      <4>6. QED
        BY <3>1, <4>1, <4>2, <4>5
    <3>3. \A d \in Coordinator :
             Won(d)' /\ lease'[d] = control'.fence => d = c
      BY SMTT(30), <1>1, <3>2 DEF Numeric
    <3>4. ASSUME NEW d \in Coordinator, NEW e \in Coordinator,
                 Won(d)', Won(e)', lease'[d] = lease'[e]
          PROVE  d = e
      <4>1. CASE d = c \/ e = c
        BY ZenonT(60), <3>1, <3>3, <3>4, <4>1
      <4>2. CASE d # c /\ e # c
        <5>1. Won(d) /\ Won(e) /\ lease[d] = lease[e]
          BY ZenonT(60), <3>2, <3>4, <4>2
        <5>2. QED
          BY ZenonT(60), <5>1 DEF UniqueInv
      <4>3. QED
        BY ZenonT(60), <4>1, <4>2
    <3>5. QED
      BY <3>1, <3>3, <3>4 DEF UniqueInv
  <2>3. QED
    BY <2>1, <2>2
<1>4. ASSUME NEW c \in Coordinator, SettleAcquire(c)
      PROVE  UniqueInv'
  <2>1. CASE ~ActiveControl(c)
    BY <1>1, <1>2, <1>4, <2>1 DEF SettleAcquire, Won, Leased
  <2>2. CASE ActiveControl(c)
    <3>1. \A d \in Coordinator : d # c /\ Won(d)' => Won(d)
      BY <1>1, <1>4 DEF SettleAcquire, Won, Leased
    <3>2. \A d \in Coordinator : d # c /\ Won(d)' => lease[d] # lease[c]
      BY <2>2, <3>1 DEF UniqueInv, ActiveControl, DistinctHolders
    <3>3. QED
      BY <1>4, <2>2, <3>1, <3>2 DEF SettleAcquire, ActiveControl, UniqueInv
  <2>3. QED
    BY <2>1, <2>2
<1>5. ASSUME NEW c \in Coordinator, LeaseStep(c),
             ~AcquireAuthoritative(c), ~SettleAcquire(c)
      PROVE  \A d \in Coordinator : Won(d)' => Won(d) /\ lease'[d] = lease[d]
  BY <1>1, <1>5
  DEF LeaseStep, ObserveControl, FenceExhausted, ObserveMirror,
      PublishManagedFence, PublishTimesOut, SettlePublish, BeginRelease,
      ReleaseAuthoritative, SettleRelease, ReleaseManagedFence, Crash,
      leaseVars, Won, Leased
<1>6. ASSUME NEW c \in Coordinator, HolderStep(c)
      PROVE  \A d \in Coordinator : Won(d)' => Won(d) /\ lease'[d] = lease[d]
  BY <1>6
  DEF HolderStep, AppendRecord, AppendFails, OpenTransaction,
      CloseTransaction, LoseEndReply, Won, Leased
<1>7. CASE ServerStep
  BY SMTT(30), <1>2, <1>7
  DEF ServerStep, LateJournalCommit, LateMirrorCommit, ServerEnds, Won, Leased
<1>8. CASE UNCHANGED leaseVars
  BY <1>2, <1>8 DEF leaseVars, Won, Leased
<1>9. QED
  BY <1>2, <1>3, <1>4, <1>5, <1>6, <1>7, <1>8 DEF Next

\* When every coordinator has a label of its own, a lease is returned only with
\* a fence above every lease still carried.  The premise is needed: settled
\* reads recognise a write by fence and label alone.
THEOREM DistinctLabelsIssueGreaterFences ==
    ASSUME DistinctHolders
    PROVE  Spec => AcquireIssuesGreaterFence
<1> DEFINE Inv == TypeOK /\ SeenInRange /\ FenceInv /\ JournalInv /\ UniqueInv
<1>1. Init => Inv
  BY TypeInit, FenceInit, JournalInit DEF Init, UniqueInv, Won, Leased
<1>2. Inv /\ [Next]_leaseVars => Inv'
  BY SMTT(30), TypeStep, FenceStep, JournalStep, UniqueStep
<1>3. ASSUME Inv, [Next]_leaseVars, NEW c \in Coordinator, NEW d \in Coordinator,
             phase[c] # "held", phase'[c] = "held", c # d, Leased(d)
      PROVE  lease[d] < lease[c]
  <2>0. /\ lease[c] \in Nat /\ lease[d] \in Nat
        /\ mirror.fence \in Nat /\ seen[c].fence \in Nat
    BY <1>3, FenceTypes DEF Numeric
  <2>1. /\ phase[c] \in {"mirror", "settlingMirror"}
        /\ phase[c] = "mirror" => mirror.fence = seen[c].fence
        /\ phase[c] = "settlingMirror" => ActiveMirror(c)
    <3>1. CASE UNCHANGED phase
      BY <1>3, <3>1
    <3>2. PICK e \in Coordinator : LeaseStep(e) /\ phase' # phase
      BY <1>3, <3>1
      DEF Next, HolderStep, ServerStep, AppendRecord, AppendFails,
          OpenTransaction, CloseTransaction, LoseEndReply,
          LateJournalCommit, LateMirrorCommit, ServerEnds, leaseVars, localVars
    <3>3. e = c /\ phase'[c] = "held"
      BY <1>3, <3>2
      DEF LeaseStep, ObserveControl, FenceExhausted, AcquireAuthoritative,
          SettleAcquire, ObserveMirror, PublishManagedFence, PublishTimesOut,
          SettlePublish, BeginRelease, ReleaseAuthoritative, SettleRelease,
          ReleaseManagedFence, Crash, leaseVars, Move, TypeOK
    <3>4. PublishManagedFence(c) \/ SettlePublish(c)
      BY <1>3, <3>2, <3>3
      DEF LeaseStep, ObserveControl, FenceExhausted, AcquireAuthoritative,
          SettleAcquire, ObserveMirror, PublishTimesOut, BeginRelease,
          ReleaseAuthoritative, SettleRelease, ReleaseManagedFence, Crash,
          leaseVars, Move, TypeOK
    <3>5. QED
      BY <1>3, <3>4 DEF PublishManagedFence, SettlePublish, Move, TypeOK
  <2>2. lease[d] <= mirror.fence
    BY <1>3 DEF FenceInv
  <2>3. CASE phase[c] = "mirror"
    <3>1. mirror.fence < lease[c]
      BY <1>3, <2>1, <2>3 DEF FenceInv
    <3>2. QED
      BY <2>0, <2>2, <3>1
  <2>4. CASE phase[c] = "settlingMirror"
    <3>1. lease[c] = mirror.fence
      BY <2>1, <2>4 DEF ActiveMirror, HeldMirror
    <3>2. lease[c] # lease[d]
      BY <1>3, <2>4 DEF UniqueInv, Won
    <3>3. QED
      <4>1. lease[d] <= lease[c]
        BY <2>2, <3>1
      <4>2. QED
        BY <2>0, <3>2, <4>1
  <2>5. QED
    BY ZenonT(60), <2>1, <2>3, <2>4
<1>4. Inv /\ [Next]_leaseVars
      => [\A c, d \in Coordinator :
             (/\ phase[c] # "held" /\ phase'[c] = "held"
              /\ c # d /\ Leased(d)) => lease[d] < lease[c]]_leaseVars
  BY <1>3
<1>5. QED
  BY <1>1, <1>2, <1>4, PTL DEF Spec, AcquireIssuesGreaterFence
=============================================================================
